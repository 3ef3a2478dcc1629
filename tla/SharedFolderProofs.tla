------------------------- MODULE SharedFolderProofs -------------------------
(* What always holds in a shared folder, for every value of the constants. *)
EXTENDS SharedFolder, TLAPS

UploadSteps == {"upload", "upCreate", "upOpen", "upTaken", "upLate",
                "upWrite", "upClose", "upLost"}
DownloadSteps == {"download", "dlSize", "dlOpen", "dlRead"}
RenameSteps == {"rename", "rnTo", "rnMove"}
DeleteSteps == {"delete", "rmRemove"}
WriteSteps == {"upWrite", "upClose", "upLost"}

(* The command of a worker is the one its step belongs to, about names     *)
(* that the session uses.                                                  *)
CommandOK(s) ==
    /\ pc[s] \in UploadSteps => cmd[s].op = "upload"
    /\ pc[s] \in DownloadSteps => cmd[s].op = "download"
    /\ pc[s] \in RenameSteps => cmd[s].op = "rename"
    /\ pc[s] \in DeleteSteps => cmd[s].op = "delete"
    /\ pc[s] = "list" => cmd[s].op = "list"
    /\ cmd[s].op # "list" => File(s) \in uses[s] /\ cmd[s].new \in uses[s]

(* A worker has a file open while it writes or reads it.                   *)
OpenOK(s) ==
    /\ pc[s] \in WriteSteps => inode[s] \in Inodes
    /\ pc[s] \in WriteSteps => flushed[s] <= wrote[s] /\ wrote[s] <= Len(All(s))
    /\ pc[s] \notin WriteSteps => wrote[s] = 0 /\ flushed[s] = 0
    /\ pc[s] = "dlRead" => inode[s] \in Inodes /\ Len(copy[s]) < size[s]
    /\ pc[s] \in {"download", "dlSize", "dlOpen"} => copy[s] = <<>>

(* What a worker has found out in one system call is still so in the next, *)
(* when nobody else uses the name.                                         *)
ApartOK(s) ==
    /\ pc[s] \notin {"upLate", "astray"}
    /\ pc[s] \in {"upCreate", "upOpen"} => ~Exists(File(s))
    /\ pc[s] \in {"upTaken", "dlSize", "rnTo", "rnMove", "rmRemove"} => Exists(File(s))
    /\ pc[s] = "rnMove" => ~Exists(cmd[s].new)
    /\ pc[s] \in WriteSteps =>
          Exists(File(s)) /\ dir[File(s)] = inode[s]
          /\ data[inode[s]] = SubSeq(All(s), 1, flushed[s])
    /\ pc[s] = "dlOpen" => Exists(File(s)) /\ size[s] = Len(data[dir[File(s)]])
    /\ pc[s] = "dlRead" =>
          Exists(File(s)) /\ dir[File(s)] = inode[s]
          /\ size[s] = Len(data[inode[s]])
          /\ copy[s] = SubSeq(data[inode[s]], 1, Len(copy[s]))

IInv ==
    /\ TypeOK
    /\ dir \in OneNameEach
    /\ \A s \in Sessions : CommandOK(s) /\ OpenOK(s)
    /\ Apart => \A s \in Sessions : ApartOK(s)

(* A step of session s leaves what belongs to the other workers alone,     *)
Keeps(s) ==
    /\ uses' = uses
    /\ \A t \in Sessions \ {s} :
          /\ pc'[t] = pc[t] /\ cmd'[t] = cmd[t] /\ inode'[t] = inode[t]
          /\ wrote'[t] = wrote[t] /\ flushed'[t] = flushed[t]
          /\ size'[t] = size[t] /\ copy'[t] = copy[t]

(* and the names that it does not use, with their files.                   *)
Touches(s) ==
    \A n \in Names \ uses[s] :
        /\ dir'[n] = dir[n]
        /\ dir[n] # Absent => data'[dir[n]] = data[dir[n]]

LEMMA OthersKept ==
    ASSUME IInv, Apart, NEW s \in Sessions, Keeps(s), Touches(s),
           NEW t \in Sessions \ {s}
    PROVE  ApartOK(t)'
<1>1. ApartOK(t) /\ CommandOK(t) /\ pc[t] \in Steps
  BY DEF IInv, TypeOK
<1>2. /\ pc'[t] = pc[t] /\ cmd'[t] = cmd[t] /\ inode'[t] = inode[t]
      /\ wrote'[t] = wrote[t] /\ flushed'[t] = flushed[t]
      /\ size'[t] = size[t] /\ copy'[t] = copy[t]
  BY DEF Keeps
<1>3. File(t)' = File(t) /\ All(t)' = All(t) /\ File(t) \in Names /\ cmd[t].new \in Names
  BY <1>2 DEF File, All, IInv, TypeOK, Commands
<1>4. CASE cmd[t].op = "list"
  BY <1>1, <1>2, <1>4 DEF CommandOK, ApartOK, UploadSteps, DownloadSteps, RenameSteps,
     DeleteSteps, WriteSteps
<1>5. CASE cmd[t].op # "list"
  <2>1. File(t) \notin uses[s] /\ cmd[t].new \notin uses[s]
    BY <1>1, <1>5 DEF CommandOK, Apart
  <2>2. /\ dir'[File(t)] = dir[File(t)] /\ dir'[cmd[t].new] = dir[cmd[t].new]
        /\ dir[File(t)] # Absent => data'[dir[File(t)]] = data[dir[File(t)]]
    BY <1>3, <2>1 DEF Touches
  <2> QED BY <1>1, <1>2, <1>3, <2>2 DEF ApartOK, Exists, WriteSteps
<1> QED BY <1>4, <1>5

LEMMA StepParts ==
    ASSUME IInv, NEW s \in Sessions, Keeps(s), TypeOK', dir' \in OneNameEach,
           CommandOK(s)', OpenOK(s)', Apart => Touches(s) /\ ApartOK(s)'
    PROVE  IInv'
<1>1. ASSUME NEW t \in Sessions \ {s} PROVE CommandOK(t)' /\ OpenOK(t)'
  <2>1. CommandOK(t) /\ OpenOK(t)
    BY DEF IInv
  <2> QED BY <2>1 DEF Keeps, CommandOK, OpenOK, File, All
<1>2. Apart' <=> Apart
  BY DEF Keeps, Apart
<1>3. Apart => \A t \in Sessions : ApartOK(t)'
  BY OthersKept
<1>4. \A t \in Sessions : CommandOK(t)' /\ OpenOK(t)'
  BY <1>1
<1>5. (dir \in OneNameEach)'
  BY DEF OneNameEach
<1> QED BY <1>2, <1>3, <1>4, <1>5 DEF IInv

LEMMA QuietParts ==
    ASSUME IInv, NEW s \in Sessions, Keeps(s), TypeOK', UNCHANGED <<dir, data>>,
           CommandOK(s)', OpenOK(s)', Apart => ApartOK(s)'
    PROVE  IInv'
<1>1. Touches(s) /\ dir' \in OneNameEach
  BY DEF Touches, IInv
<1> QED BY <1>1, StepParts

LEMMA InitInv == Init => IInv
<1> SUFFICES ASSUME Init PROVE IInv
  OBVIOUS
<1>1. PICK n : n = CHOOSE x \in Names : TRUE
  OBVIOUS
<1>2. n \in Names /\ cmd = [s \in Sessions |-> [op |-> "list", file |-> n, new |-> n]]
  BY <1>1, SharedAssumption DEF Init, SharedAssumption
<1>3. /\ \A d \in Content : d \in Seq(Bytes)
      /\ <<>> \in Content
      /\ Seq(Chunks) \subseteq Content
  BY DEF Content, Bytes
<1>4. TypeOK
  <2>1. dir \in [Names -> Inodes \cup {Absent}] /\ data \in [Inodes -> Content]
    BY <1>3, SharedAssumption DEF Init, SharedAssumption, OneNameEach
  <2>2. cmd \in [Sessions -> Commands]
    BY <1>2 DEF Commands
  <2> QED BY <1>3, <2>1, <2>2 DEF Init, TypeOK, Steps, Replies
<1>5. dir \in OneNameEach
  BY SharedAssumption DEF Init, SharedAssumption
<1>6. \A s \in Sessions : CommandOK(s) /\ OpenOK(s) /\ ApartOK(s)
  BY <1>2 DEF Init, CommandOK, OpenOK, ApartOK, UploadSteps, DownloadSteps, RenameSteps,
     DeleteSteps, WriteSteps
<1> QED BY <1>4, <1>5, <1>6 DEF IInv

-----------------------------------------------------------------------------
(* The type of the parts of a command.                                     *)
LEMMA CommandType ==
    ASSUME TypeOK, NEW s \in Sessions
    PROVE  /\ File(s) \in Names /\ cmd[s].new \in Names
           /\ All(s) \in Seq(Chunks) /\ All(s) \in Content
BY SharedAssumption DEF TypeOK, Commands, File, All, SharedAssumption, Content, Bytes

LEMMA ReturnInv == ASSUME IInv, NEW s \in Sessions, Return(s) PROVE IInv'
<1>1. TypeOK'
  BY DEF IInv, TypeOK, Return, At, Goes, Answers, Steps, Replies
<1>2. Keeps(s) /\ UNCHANGED <<dir, data, cmd, inode, wrote, flushed, size, copy>>
  BY DEF IInv, TypeOK, Keeps, Return, Goes, Answers
<1>3. CommandOK(s) /\ OpenOK(s) /\ (Apart => ApartOK(s))
  BY DEF IInv
<1>4. CommandOK(s)' /\ OpenOK(s)'
  BY <1>2, <1>3 DEF IInv, TypeOK, Return, At, Goes, Answers, CommandOK, OpenOK, File, All,
     UploadSteps, DownloadSteps, RenameSteps, DeleteSteps, WriteSteps
<1>5. Apart => ApartOK(s)'
  BY <1>2, <1>3 DEF IInv, TypeOK, Return, At, Goes, Answers, ApartOK, Exists, File, All,
     WriteSteps
<1> QED BY <1>1, <1>2, <1>4, <1>5, QuietParts

LEMMA UploadCheckInv == ASSUME IInv, NEW s \in Sessions, UploadCheck(s) PROVE IInv'
<1>1. TypeOK'
  BY DEF IInv, TypeOK, UploadCheck, At, Goes, Answers, Steps, Replies
<1>2. Keeps(s) /\ UNCHANGED <<dir, data, cmd, inode, wrote, flushed, size, copy>>
  BY DEF IInv, TypeOK, Keeps, UploadCheck, Goes, Answers
<1>3. CommandOK(s) /\ OpenOK(s) /\ (Apart => ApartOK(s))
  BY DEF IInv
<1>4. CommandOK(s)' /\ OpenOK(s)'
  BY <1>2, <1>3 DEF IInv, TypeOK, UploadCheck, At, Goes, Answers, CommandOK, OpenOK, File, All,
     UploadSteps, DownloadSteps, RenameSteps, DeleteSteps, WriteSteps
<1>5. Apart => ApartOK(s)'
  BY <1>2, <1>3 DEF IInv, TypeOK, UploadCheck, At, Goes, Answers, ApartOK, Exists, File, All,
     WriteSteps
<1> QED BY <1>1, <1>2, <1>4, <1>5, QuietParts

LEMMA UploadCreateInv == ASSUME IInv, NEW s \in Sessions, UploadCreate(s) PROVE IInv'
<1>1. TypeOK'
  BY DEF IInv, TypeOK, UploadCreate, At, Goes, Answers, Steps, Replies
<1>2. Keeps(s) /\ UNCHANGED <<dir, data, cmd, inode, wrote, flushed, size, copy>>
  BY DEF IInv, TypeOK, Keeps, UploadCreate, Goes, Answers
<1>3. CommandOK(s) /\ OpenOK(s) /\ (Apart => ApartOK(s))
  BY DEF IInv
<1>4. CommandOK(s)' /\ OpenOK(s)'
  BY <1>2, <1>3 DEF IInv, TypeOK, UploadCreate, At, Goes, Answers, CommandOK, OpenOK, File, All,
     UploadSteps, DownloadSteps, RenameSteps, DeleteSteps, WriteSteps
<1>5. Apart => ApartOK(s)'
  BY <1>2, <1>3 DEF IInv, TypeOK, UploadCreate, At, Goes, Answers, ApartOK, Exists, File, All,
     WriteSteps
<1> QED BY <1>1, <1>2, <1>4, <1>5, QuietParts

LEMMA UploadTakenInv == ASSUME IInv, NEW s \in Sessions, UploadTaken(s) PROVE IInv'
<1>1. TypeOK'
  BY DEF IInv, TypeOK, UploadTaken, At, Goes, Answers, Steps, Replies
<1>2. Keeps(s) /\ UNCHANGED <<dir, data, cmd, inode, wrote, flushed, size, copy>>
  BY DEF IInv, TypeOK, Keeps, UploadTaken, Goes, Answers
<1>3. CommandOK(s) /\ OpenOK(s) /\ (Apart => ApartOK(s))
  BY DEF IInv
<1>4. CommandOK(s)' /\ OpenOK(s)'
  BY <1>2, <1>3 DEF IInv, TypeOK, UploadTaken, At, Goes, Answers, CommandOK, OpenOK, File, All,
     UploadSteps, DownloadSteps, RenameSteps, DeleteSteps, WriteSteps
<1>5. Apart => ApartOK(s)'
  BY <1>2, <1>3 DEF IInv, TypeOK, UploadTaken, At, Goes, Answers, ApartOK, Exists, File, All,
     WriteSteps
<1> QED BY <1>1, <1>2, <1>4, <1>5, QuietParts

LEMMA UploadVerdictInv == ASSUME IInv, NEW s \in Sessions, UploadVerdict(s) PROVE IInv'
<1>1. TypeOK'
  BY DEF IInv, TypeOK, UploadVerdict, At, Goes, Answers, Steps, Replies
<1>2. Keeps(s) /\ UNCHANGED <<dir, data, cmd, inode, wrote, flushed, size, copy>>
  BY DEF IInv, TypeOK, Keeps, UploadVerdict, Goes, Answers
<1>3. CommandOK(s) /\ OpenOK(s) /\ (Apart => ApartOK(s))
  BY DEF IInv
<1>4. CommandOK(s)' /\ OpenOK(s)'
  BY <1>2, <1>3 DEF IInv, TypeOK, UploadVerdict, At, Goes, Answers, CommandOK, OpenOK, File, All,
     UploadSteps, DownloadSteps, RenameSteps, DeleteSteps, WriteSteps
<1>5. Apart => ApartOK(s)'
  BY <1>2, <1>3 DEF IInv, TypeOK, UploadVerdict, At, Goes, Answers, ApartOK, Exists, File, All,
     WriteSteps
<1> QED BY <1>1, <1>2, <1>4, <1>5, QuietParts

LEMMA UploadBreaksInv == ASSUME IInv, NEW s \in Sessions, UploadBreaks(s) PROVE IInv'
<1>1. TypeOK'
  BY DEF IInv, TypeOK, UploadBreaks, At, Goes, Answers, Steps, Replies
<1>2. Keeps(s) /\ UNCHANGED <<dir, data, cmd, inode, wrote, flushed, size, copy>>
  BY DEF IInv, TypeOK, Keeps, UploadBreaks, Goes, Answers
<1>3. CommandOK(s) /\ OpenOK(s) /\ (Apart => ApartOK(s))
  BY DEF IInv
<1>4. CommandOK(s)' /\ OpenOK(s)'
  BY <1>2, <1>3 DEF IInv, TypeOK, UploadBreaks, At, Goes, Answers, CommandOK, OpenOK, File, All,
     UploadSteps, DownloadSteps, RenameSteps, DeleteSteps, WriteSteps
<1>5. Apart => ApartOK(s)'
  BY <1>2, <1>3 DEF IInv, TypeOK, UploadBreaks, At, Goes, Answers, ApartOK, Exists, File, All,
     WriteSteps
<1> QED BY <1>1, <1>2, <1>4, <1>5, QuietParts

LEMMA DownloadMissingInv == ASSUME IInv, NEW s \in Sessions, DownloadMissing(s) PROVE IInv'
<1>1. TypeOK'
  BY DEF IInv, TypeOK, DownloadMissing, At, Goes, Answers, Steps, Replies
<1>2. Keeps(s) /\ UNCHANGED <<dir, data, cmd, inode, wrote, flushed, size, copy>>
  BY DEF IInv, TypeOK, Keeps, DownloadMissing, Goes, Answers
<1>3. CommandOK(s) /\ OpenOK(s) /\ (Apart => ApartOK(s))
  BY DEF IInv
<1>4. CommandOK(s)' /\ OpenOK(s)'
  BY <1>2, <1>3 DEF IInv, TypeOK, DownloadMissing, At, Goes, Answers, CommandOK, OpenOK, File, All,
     UploadSteps, DownloadSteps, RenameSteps, DeleteSteps, WriteSteps
<1>5. Apart => ApartOK(s)'
  BY <1>2, <1>3 DEF IInv, TypeOK, DownloadMissing, At, Goes, Answers, ApartOK, Exists, File, All,
     WriteSteps
<1> QED BY <1>1, <1>2, <1>4, <1>5, QuietParts

LEMMA DownloadCheckInv == ASSUME IInv, NEW s \in Sessions, DownloadCheck(s) PROVE IInv'
<1>1. TypeOK'
  BY DEF IInv, TypeOK, DownloadCheck, At, Goes, Answers, Steps, Replies
<1>2. Keeps(s) /\ UNCHANGED <<dir, data, cmd, inode, wrote, flushed, size, copy>>
  BY DEF IInv, TypeOK, Keeps, DownloadCheck, Goes, Answers
<1>3. CommandOK(s) /\ OpenOK(s) /\ (Apart => ApartOK(s))
  BY DEF IInv
<1>4. CommandOK(s)' /\ OpenOK(s)'
  BY <1>2, <1>3 DEF IInv, TypeOK, DownloadCheck, At, Goes, Answers, CommandOK, OpenOK, File, All,
     UploadSteps, DownloadSteps, RenameSteps, DeleteSteps, WriteSteps
<1>5. Apart => ApartOK(s)'
  BY <1>2, <1>3 DEF IInv, TypeOK, DownloadCheck, At, Goes, Answers, ApartOK, Exists, File, All,
     WriteSteps
<1> QED BY <1>1, <1>2, <1>4, <1>5, QuietParts

LEMMA RenameFromInv == ASSUME IInv, NEW s \in Sessions, RenameFrom(s) PROVE IInv'
<1>1. TypeOK'
  BY DEF IInv, TypeOK, RenameFrom, At, Goes, Answers, Steps, Replies
<1>2. Keeps(s) /\ UNCHANGED <<dir, data, cmd, inode, wrote, flushed, size, copy>>
  BY DEF IInv, TypeOK, Keeps, RenameFrom, Goes, Answers
<1>3. CommandOK(s) /\ OpenOK(s) /\ (Apart => ApartOK(s))
  BY DEF IInv
<1>4. CommandOK(s)' /\ OpenOK(s)'
  BY <1>2, <1>3 DEF IInv, TypeOK, RenameFrom, At, Goes, Answers, CommandOK, OpenOK, File, All,
     UploadSteps, DownloadSteps, RenameSteps, DeleteSteps, WriteSteps
<1>5. Apart => ApartOK(s)'
  BY <1>2, <1>3 DEF IInv, TypeOK, RenameFrom, At, Goes, Answers, ApartOK, Exists, File, All,
     WriteSteps
<1> QED BY <1>1, <1>2, <1>4, <1>5, QuietParts

LEMMA RenameToInv == ASSUME IInv, NEW s \in Sessions, RenameTo(s) PROVE IInv'
<1>1. TypeOK'
  BY DEF IInv, TypeOK, RenameTo, At, Goes, Answers, Steps, Replies
<1>2. Keeps(s) /\ UNCHANGED <<dir, data, cmd, inode, wrote, flushed, size, copy>>
  BY DEF IInv, TypeOK, Keeps, RenameTo, Goes, Answers
<1>3. CommandOK(s) /\ OpenOK(s) /\ (Apart => ApartOK(s))
  BY DEF IInv
<1>4. CommandOK(s)' /\ OpenOK(s)'
  BY <1>2, <1>3 DEF IInv, TypeOK, RenameTo, At, Goes, Answers, CommandOK, OpenOK, File, All,
     UploadSteps, DownloadSteps, RenameSteps, DeleteSteps, WriteSteps
<1>5. Apart => ApartOK(s)'
  BY <1>2, <1>3 DEF IInv, TypeOK, RenameTo, At, Goes, Answers, ApartOK, Exists, File, All,
     WriteSteps
<1> QED BY <1>1, <1>2, <1>4, <1>5, QuietParts

LEMMA DeleteCheckInv == ASSUME IInv, NEW s \in Sessions, DeleteCheck(s) PROVE IInv'
<1>1. TypeOK'
  BY DEF IInv, TypeOK, DeleteCheck, At, Goes, Answers, Steps, Replies
<1>2. Keeps(s) /\ UNCHANGED <<dir, data, cmd, inode, wrote, flushed, size, copy>>
  BY DEF IInv, TypeOK, Keeps, DeleteCheck, Goes, Answers
<1>3. CommandOK(s) /\ OpenOK(s) /\ (Apart => ApartOK(s))
  BY DEF IInv
<1>4. CommandOK(s)' /\ OpenOK(s)'
  BY <1>2, <1>3 DEF IInv, TypeOK, DeleteCheck, At, Goes, Answers, CommandOK, OpenOK, File, All,
     UploadSteps, DownloadSteps, RenameSteps, DeleteSteps, WriteSteps
<1>5. Apart => ApartOK(s)'
  BY <1>2, <1>3 DEF IInv, TypeOK, DeleteCheck, At, Goes, Answers, ApartOK, Exists, File, All,
     WriteSteps
<1> QED BY <1>1, <1>2, <1>4, <1>5, QuietParts

LEMMA ListLookInv == ASSUME IInv, NEW s \in Sessions, ListLook(s) PROVE IInv'
<1>1. TypeOK'
  BY DEF IInv, TypeOK, ListLook, At, Goes, Answers, Steps, Replies
<1>2. Keeps(s) /\ UNCHANGED <<dir, data, cmd, inode, wrote, flushed, size, copy>>
  BY DEF IInv, TypeOK, Keeps, ListLook, Goes, Answers
<1>3. CommandOK(s) /\ OpenOK(s) /\ (Apart => ApartOK(s))
  BY DEF IInv
<1>4. CommandOK(s)' /\ OpenOK(s)'
  BY <1>2, <1>3 DEF IInv, TypeOK, ListLook, At, Goes, Answers, CommandOK, OpenOK, File, All,
     UploadSteps, DownloadSteps, RenameSteps, DeleteSteps, WriteSteps
<1>5. Apart => ApartOK(s)'
  BY <1>2, <1>3 DEF IInv, TypeOK, ListLook, At, Goes, Answers, ApartOK, Exists, File, All,
     WriteSteps
<1> QED BY <1>1, <1>2, <1>4, <1>5, QuietParts

LEMMA ListEndInv == ASSUME IInv, NEW s \in Sessions, ListEnd(s) PROVE IInv'
<1>1. TypeOK'
  BY DEF IInv, TypeOK, ListEnd, At, Goes, Answers, Steps, Replies
<1>2. Keeps(s) /\ UNCHANGED <<dir, data, cmd, inode, wrote, flushed, size, copy>>
  BY DEF IInv, TypeOK, Keeps, ListEnd, Goes, Answers
<1>3. CommandOK(s) /\ OpenOK(s) /\ (Apart => ApartOK(s))
  BY DEF IInv
<1>4. CommandOK(s)' /\ OpenOK(s)'
  BY <1>2, <1>3 DEF IInv, TypeOK, ListEnd, At, Goes, Answers, CommandOK, OpenOK, File, All,
     UploadSteps, DownloadSteps, RenameSteps, DeleteSteps, WriteSteps
<1>5. Apart => ApartOK(s)'
  BY <1>2, <1>3 DEF IInv, TypeOK, ListEnd, At, Goes, Answers, ApartOK, Exists, File, All,
     WriteSteps
<1> QED BY <1>1, <1>2, <1>4, <1>5, QuietParts

LEMMA AskInv == ASSUME IInv, NEW s \in Sessions, Ask(s) PROVE IInv'
<1>1. PICK c \in Commands :
         /\ IF c.op = "list" THEN c.file = File(s) ELSE c.file \in uses[s] /\ c.new \in uses[s]
         /\ cmd' = [cmd EXCEPT ![s] = c] /\ pc' = [pc EXCEPT ![s] = c.op]
  BY DEF Ask, Goes
<1>2. c.op \in {"upload", "download", "list", "rename", "delete"}
  BY DEF Commands
<1>3. TypeOK'
  <2>1. <<>> \in Content
    BY DEF Content
  <2>2. unseen' \in [Sessions -> SUBSET Names]
    BY DEF IInv, TypeOK, Ask
  <2> QED BY <1>1, <1>2, <2>1, <2>2 DEF IInv, TypeOK, Ask, At, Steps, Replies
<1>4. /\ Keeps(s) /\ UNCHANGED <<dir, data, inode, wrote, flushed, size, uses>>
      /\ pc[s] = "idle" /\ pc'[s] = c.op /\ cmd'[s] = c /\ copy'[s] = <<>>
  BY <1>1 DEF IInv, TypeOK, Keeps, Ask, At
<1>5. CommandOK(s)' /\ OpenOK(s)'
  <2>1. OpenOK(s)
    BY DEF IInv
  <2> QED BY <1>1, <1>2, <1>4, <2>1 DEF CommandOK, OpenOK, File, UploadSteps, DownloadSteps,
          RenameSteps, DeleteSteps, WriteSteps
<1>6. ApartOK(s)'
  BY <1>2, <1>4 DEF ApartOK, WriteSteps
<1> QED BY <1>3, <1>4, <1>5, <1>6, QuietParts

LEMMA UploadOpenInv == ASSUME IInv, NEW s \in Sessions, UploadOpen(s) PROVE IInv'
<1>0. TypeOK /\ CommandOK(s) /\ OpenOK(s) /\ (Apart => ApartOK(s))
  BY DEF IInv
<1>1. PICK i \in IF Exists(File(s)) THEN {dir[File(s)]} ELSE NextFree :
         /\ dir' = [dir EXCEPT ![File(s)] = i]
         /\ data' = [data EXCEPT ![i] = <<>>]
         /\ IF pc[s] = "upOpen"
            THEN Goes(s, "upWrite") /\ inode' = [inode EXCEPT ![s] = i]
            ELSE Goes(s, "astray") /\ UNCHANGED inode
  BY DEF UploadOpen
<1>2. /\ i \in Inodes /\ Absent \notin Inodes
      /\ ~Exists(File(s)) => i \in Free
      /\ File(s) \in Names /\ All(s) \in Seq(Chunks)
  BY <1>0, <1>1, CommandType, SharedAssumption
     DEF NextFree, Free, TypeOK, Exists, SharedAssumption
<1>3. TypeOK'
  <2>1. <<>> \in Content
    BY DEF Content
  <2>2. /\ dir' \in [Names -> Inodes \cup {Absent}]
        /\ data' \in [Inodes -> Content]
    BY <1>0, <1>1, <1>2, <2>1 DEF TypeOK
  <2>3. /\ pc' \in [Sessions -> Steps]
        /\ inode' \in [Sessions -> Inodes \cup {Absent}]
    <3>1. /\ pc \in [Sessions -> Steps] /\ {"upWrite", "astray"} \subseteq Steps
          /\ inode \in [Sessions -> Inodes \cup {Absent}]
      BY <1>0 DEF TypeOK, Steps
    <3>2. /\ pc' = [pc EXCEPT ![s] = "upWrite"] \/ pc' = [pc EXCEPT ![s] = "astray"]
          /\ inode' = [inode EXCEPT ![s] = i] \/ inode' = inode
      BY <1>1 DEF Goes
    <3> QED BY <1>2, <3>1, <3>2
  <2>4. UNCHANGED <<cmd, wrote, flushed, size, copy, seen, unseen, reply, asked,
                    server, uses>>
    BY DEF UploadOpen
  <2> QED BY <1>0, <2>2, <2>3, <2>4 DEF TypeOK
<1>4. Keeps(s) /\ UNCHANGED <<cmd, wrote, flushed, size, copy>>
  BY <1>0, <1>1 DEF TypeOK, Keeps, UploadOpen, Goes
<1>5. dir' \in OneNameEach
  <2>1. \A n \in Names : n # File(s) => dir'[n] = dir[n] /\ dir[n] # i
    <3>1. CASE Exists(File(s))
      BY <1>0, <1>1, <1>2, <3>1 DEF IInv, OneNameEach, Exists, TypeOK
    <3>2. CASE ~Exists(File(s))
      BY <1>0, <1>1, <1>2, <3>2 DEF Free, TypeOK
    <3> QED BY <3>1, <3>2
  <2>2. dir' \in [Names -> Inodes \cup {Absent}] /\ dir'[File(s)] = i
    BY <1>0, <1>1, <1>2 DEF TypeOK
  <2> QED BY <2>1, <2>2 DEF IInv, OneNameEach
<1>6. pc[s] \in {"upOpen", "upLate"} /\ pc'[s] \in {"upWrite", "astray"}
      /\ (pc[s] = "upOpen" => pc'[s] = "upWrite" /\ inode'[s] = i)
      /\ (pc[s] = "upLate" => pc'[s] = "astray")
  BY <1>0, <1>1 DEF UploadOpen, At, Goes, TypeOK
<1>7. CommandOK(s)' /\ OpenOK(s)'
  BY <1>0, <1>2, <1>4, <1>6 DEF Keeps, CommandOK, OpenOK, File, All, UploadSteps, DownloadSteps,
     RenameSteps, DeleteSteps, WriteSteps
<1>8. Apart => Touches(s)
  <2> SUFFICES ASSUME Apart, NEW n \in Names \ uses[s]
               PROVE  /\ dir'[n] = dir[n]
                      /\ dir[n] # Absent => data'[dir[n]] = data[dir[n]]
    BY DEF Touches
  <2>1. ~Exists(File(s)) /\ File(s) \in uses[s]
    BY <1>0, <1>6 DEF ApartOK, CommandOK, UploadSteps
  <2>2. dir[n] # i /\ n # File(s)
    BY <1>2, <2>1 DEF Free
  <2> QED BY <1>0, <1>1, <2>2 DEF TypeOK
<1>9. Apart => ApartOK(s)'
  <2> SUFFICES ASSUME Apart PROVE ApartOK(s)'
    OBVIOUS
  <2>1. pc'[s] = "upWrite" /\ inode'[s] = i
    BY <1>0, <1>6 DEF ApartOK
  <2>2. dir'[File(s)] = i /\ data'[i] = <<>>
    BY <1>0, <1>1, <1>2 DEF TypeOK
  <2>3. flushed'[s] = 0 /\ SubSeq(All(s), 1, 0) = <<>>
    BY <1>0, <1>2, <1>4, <1>6 DEF OpenOK, WriteSteps
  <2>4. File(s)' = File(s) /\ All(s)' = All(s)
    BY <1>4 DEF File, All
  <2> QED BY <1>2, <2>1, <2>2, <2>3, <2>4 DEF ApartOK, Exists, WriteSteps
<1> QED BY <1>3, <1>4, <1>5, <1>7, <1>8, <1>9, StepParts

-----------------------------------------------------------------------------
(* Writing to a file.                                                      *)
LEMMA WrittenType ==
    ASSUME NEW content \in Content, NEW chunks \in Content, NEW k \in Nat
    PROVE  WrittenAt(content, k, chunks) \in Content
<1>1. Hole \in Bytes
  BY DEF Bytes
<1> DEFINE len == IF k + Len(chunks) > Len(content) THEN k + Len(chunks) ELSE Len(content)
<1>2. len \in Nat
  <2>1. Len(chunks) \in Nat /\ Len(content) \in Nat
    BY DEF Content
  <2> QED BY <2>1
<1>3. ASSUME NEW i \in 1..len
      PROVE  (IF i > k /\ i <= k + Len(chunks) THEN chunks[i - k]
              ELSE IF i <= Len(content) THEN content[i] ELSE Hole) \in Bytes
  <2>1. Len(chunks) \in Nat /\ Len(content) \in Nat /\ i \in Nat \ {0}
    BY <1>2, <1>3 DEF Content
  <2>2. i > k /\ i <= k + Len(chunks) => chunks[i - k] \in Bytes
    <3>1. i > k /\ i <= k + Len(chunks) => i - k \in 1..Len(chunks)
      BY <2>1
    <3> QED BY <3>1 DEF Content
  <2>3. i <= Len(content) => content[i] \in Bytes
    <3>1. i <= Len(content) => i \in 1..Len(content)
      BY <2>1
    <3> QED BY <3>1 DEF Content
  <2> QED BY <1>1, <2>2, <2>3
<1>4. WrittenAt(content, k, chunks) \in [1..len -> Bytes]
  BY <1>3 DEF WrittenAt
<1>5. \A n \in Nat : [1..n -> Bytes] \subseteq Seq(Bytes)
  OBVIOUS
<1> HIDE DEF len
<1> QED BY <1>2, <1>4, <1>5 DEF Content

LEMMA WrittenWhole ==
    ASSUME NEW all \in Content, NEW f \in Nat, NEW w \in Nat, f <= w, w <= Len(all)
    PROVE  WrittenAt(SubSeq(all, 1, f), f, SubSeq(all, f + 1, w)) = SubSeq(all, 1, w)
<1> DEFINE head == SubSeq(all, 1, f)
           rest == SubSeq(all, f + 1, w)
<1>1. /\ Len(head) = f /\ \A i \in 1..f : head[i] = all[i]
      /\ Len(rest) = w - f /\ \A i \in 1..w - f : rest[i] = all[f + i]
      /\ SubSeq(all, 1, w) = [i \in 1..w |-> all[i]]
  BY DEF Content
<1>2. f + Len(rest) = w /\ (IF w > Len(head) THEN w ELSE Len(head)) = w
  BY <1>1
<1>3. ASSUME NEW i \in 1..w
      PROVE  (IF i > f /\ i <= w THEN rest[i - f] ELSE IF i <= Len(head) THEN head[i] ELSE Hole)
             = all[i]
  <2>1. CASE i > f
    <3>1. i - f \in 1..w - f /\ f + (i - f) = i
      BY <2>1
    <3> QED BY <1>1, <2>1, <3>1
  <2>2. CASE i <= f
    BY <1>1, <2>2
  <2> QED BY <2>1, <2>2
<1> HIDE DEF head, rest
<1>4. WrittenAt(head, f, rest)
      = [i \in 1..w |-> IF i > f /\ i <= w THEN rest[i - f]
                        ELSE IF i <= Len(head) THEN head[i] ELSE Hole]
  BY <1>2 DEF WrittenAt
<1> QED BY <1>1, <1>3, <1>4 DEF head, rest

(* Emptying the buffer leaves the first k chunks in a private file, and    *)
(* disturbs no other file.                                                 *)
LEMMA EmptiedFacts ==
    ASSUME IInv, NEW s \in Sessions, pc[s] \in WriteSteps, NEW k \in Nat,
           flushed[s] <= k, k <= Len(All(s)), Emptied(s, k)
    PROVE  /\ data' \in [Inodes -> Content]
           /\ Apart => data'[inode[s]] = SubSeq(All(s), 1, k)
           /\ Apart => \A n \in Names \ uses[s] :
                 dir[n] # Absent => data'[dir[n]] = data[dir[n]]
<1>1. /\ TypeOK /\ CommandOK(s) /\ OpenOK(s) /\ (Apart => ApartOK(s))
      /\ inode[s] \in Inodes /\ flushed[s] \in Nat /\ data[inode[s]] \in Content
  BY DEF IInv, OpenOK, TypeOK
<1>2. All(s) \in Content /\ SubSeq(All(s), flushed[s] + 1, k) \in Content
  BY <1>1, CommandType DEF Content
<1>3. PICK new : new = WrittenAt(data[inode[s]], flushed[s], SubSeq(All(s), flushed[s] + 1, k))
  OBVIOUS
<1>4. data' = [data EXCEPT ![inode[s]] = new]
  BY <1>3 DEF Emptied, All, File
<1>5. new \in Content
  BY <1>1, <1>2, <1>3, WrittenType
<1>6. data' \in [Inodes -> Content] /\ data'[inode[s]] = new
  BY <1>1, <1>4, <1>5 DEF TypeOK
<1>7. Apart => new = SubSeq(All(s), 1, k)
  <2>1. Apart => data[inode[s]] = SubSeq(All(s), 1, flushed[s])
    BY <1>1 DEF ApartOK
  <2>2. PICK all \in Content : all = All(s)
    BY <1>2
  <2>3. PICK f \in Nat : f = flushed[s]
    BY <1>1
  <2>4. Apart => new = WrittenAt(SubSeq(all, 1, f), f, SubSeq(all, f + 1, k))
    BY <1>3, <2>1, <2>2, <2>3
  <2>5. f <= k /\ k <= Len(all)
    BY <2>2, <2>3
  <2>6. WrittenAt(SubSeq(all, 1, f), f, SubSeq(all, f + 1, k)) = SubSeq(all, 1, k)
    BY <2>5, WrittenWhole
  <2> QED BY <2>2, <2>4, <2>6
<1>8. ASSUME Apart, NEW n \in Names \ uses[s], dir[n] # Absent
      PROVE  data'[dir[n]] = data[dir[n]]
  <2>1. dir[File(s)] = inode[s] /\ File(s) \in uses[s] /\ File(s) \in Names /\ Exists(File(s))
    BY <1>1, <1>8, CommandType DEF ApartOK, CommandOK, WriteSteps, UploadSteps
  <2>2. dir[n] # inode[s]
    BY <1>8, <2>1 DEF IInv, OneNameEach, Exists
  <2> QED BY <1>1, <1>4, <1>8, <2>2 DEF TypeOK
<1> QED BY <1>6, <1>7, <1>8

LEMMA UploadWriteInv == ASSUME IInv, NEW s \in Sessions, UploadWrite(s) PROVE IInv'
<1>0. TypeOK /\ CommandOK(s) /\ OpenOK(s) /\ (Apart => ApartOK(s)) /\ All(s) \in Seq(Chunks)
  BY CommandType DEF IInv
<1>1. /\ pc[s] = "upWrite" /\ wrote[s] < Len(All(s))
      /\ wrote' = [wrote EXCEPT ![s] = wrote[s] + 1]
      /\ UNCHANGED <<dir, pc, cmd, inode, size, copy, uses>>
      /\ wrote[s] \in Nat /\ flushed[s] \in Nat /\ flushed[s] <= wrote[s]
      /\ wrote[s] + 1 \in Nat /\ wrote[s] + 1 <= Len(All(s)) /\ flushed[s] <= wrote[s] + 1
  BY <1>0 DEF UploadWrite, At, TypeOK, OpenOK, WriteSteps
<1>2. PICK k \in {flushed[s], wrote[s] + 1} :
         /\ flushed' = [flushed EXCEPT ![s] = k]
         /\ data' \in [Inodes -> Content]
         /\ Apart => data'[inode[s]] = SubSeq(All(s), 1, k)
         /\ Apart => \A n \in Names \ uses[s] :
               dir[n] # Absent => data'[dir[n]] = data[dir[n]]
  <2>1. CASE Emptied(s, wrote[s] + 1) /\ flushed' = [flushed EXCEPT ![s] = wrote[s] + 1]
    BY <1>1, <2>1, EmptiedFacts DEF WriteSteps
  <2>2. CASE UNCHANGED <<flushed, data>>
    BY <1>0, <1>1, <2>2 DEF TypeOK, ApartOK, WriteSteps
  <2> QED BY <2>1, <2>2 DEF UploadWrite
<1>3. k \in Nat
  BY <1>1, <1>2
<1>4. TypeOK'
  BY <1>0, <1>1, <1>2, <1>3 DEF TypeOK, UploadWrite
<1>5. Keeps(s) /\ wrote'[s] = wrote[s] + 1 /\ flushed'[s] = k
  BY <1>0, <1>1, <1>2 DEF TypeOK, Keeps
<1>6. CommandOK(s)' /\ OpenOK(s)'
  BY <1>0, <1>1, <1>2, <1>5 DEF CommandOK, OpenOK, File, All, WriteSteps
<1>7. Apart => Touches(s)
  BY <1>1, <1>2 DEF Touches
<1>8. Apart => ApartOK(s)'
  BY <1>0, <1>1, <1>2, <1>5 DEF ApartOK, Exists, File, All, WriteSteps
<1>9. dir' \in OneNameEach
  BY <1>1 DEF IInv
<1> QED BY <1>4, <1>5, <1>6, <1>7, <1>8, <1>9, StepParts

LEMMA UploadCloseInv == ASSUME IInv, NEW s \in Sessions, UploadClose(s) PROVE IInv'
<1>0. TypeOK /\ CommandOK(s) /\ OpenOK(s) /\ (Apart => ApartOK(s))
  BY DEF IInv
<1>1. /\ pc[s] \in WriteSteps /\ UNCHANGED <<dir, cmd, size, copy, uses>>
      /\ wrote[s] \in Nat /\ flushed[s] <= wrote[s] /\ wrote[s] <= Len(All(s))
      /\ wrote' = [wrote EXCEPT ![s] = 0] /\ flushed' = [flushed EXCEPT ![s] = 0]
      /\ inode' = [inode EXCEPT ![s] = Absent]
      /\ \E next \in {"gone", "idle"} : pc' = [pc EXCEPT ![s] = next]
  BY <1>0 DEF UploadClose, At, Goes, TypeOK, OpenOK, WriteSteps
<1>2. /\ data' \in [Inodes -> Content]
      /\ Apart => \A n \in Names \ uses[s] :
            dir[n] # Absent => data'[dir[n]] = data[dir[n]]
  BY <1>1, EmptiedFacts DEF UploadClose
<1>3. TypeOK'
  BY <1>0, <1>1, <1>2 DEF TypeOK, UploadClose, Steps
<1>4. Keeps(s) /\ pc'[s] \in {"gone", "idle"} /\ wrote'[s] = 0 /\ flushed'[s] = 0
  BY <1>0, <1>1 DEF TypeOK, Keeps
<1>5. CommandOK(s)' /\ OpenOK(s)' /\ ApartOK(s)'
  BY <1>0, <1>1, <1>4 DEF CommandOK, OpenOK, ApartOK, File, UploadSteps, DownloadSteps,
     RenameSteps, DeleteSteps, WriteSteps
<1>6. (Apart => Touches(s)) /\ dir' \in OneNameEach
  BY <1>1, <1>2 DEF Touches, IInv
<1> QED BY <1>3, <1>4, <1>5, <1>6, StepParts

-----------------------------------------------------------------------------
LEMMA DownloadSizeInv == ASSUME IInv, NEW s \in Sessions, DownloadSize(s) PROVE IInv'
<1>0. TypeOK /\ CommandOK(s) /\ OpenOK(s) /\ (Apart => ApartOK(s)) /\ File(s) \in Names
  BY CommandType DEF IInv
<1>1. PICK n : n = Len(data[dir[File(s)]])
  OBVIOUS
<1>2. /\ n \in Nat /\ Exists(File(s)) /\ pc[s] = "dlSize"
      /\ size' = [size EXCEPT ![s] = n] /\ pc' = [pc EXCEPT ![s] = "dlOpen"]
  BY <1>0, <1>1 DEF DownloadSize, At, Goes, TypeOK, Exists, Content
<1>3. TypeOK'
  BY <1>0, <1>2 DEF TypeOK, DownloadSize, Steps
<1>4. Keeps(s) /\ UNCHANGED <<dir, data, cmd, inode, wrote, flushed, copy>>
  BY <1>0, <1>2 DEF TypeOK, Keeps, DownloadSize
<1>5. pc'[s] = "dlOpen" /\ size'[s] = n
  BY <1>0, <1>2 DEF TypeOK
<1>6. copy[s] = <<>>
  BY <1>0, <1>2 DEF OpenOK
<1>7. CommandOK(s)' /\ OpenOK(s)'
  BY <1>0, <1>2, <1>4, <1>5, <1>6 DEF CommandOK, OpenOK, File, UploadSteps, DownloadSteps,
     RenameSteps, DeleteSteps, WriteSteps, Keeps
<1>8. ApartOK(s)'
  BY <1>1, <1>2, <1>4, <1>5 DEF ApartOK, Exists, File, WriteSteps
<1> QED BY <1>3, <1>4, <1>7, <1>8, QuietParts

LEMMA DownloadOpenInv == ASSUME IInv, NEW s \in Sessions, DownloadOpen(s) PROVE IInv'
<1>0. TypeOK /\ CommandOK(s) /\ OpenOK(s) /\ (Apart => ApartOK(s)) /\ File(s) \in Names
  BY CommandType DEF IInv
<1>1. Keeps(s) /\ UNCHANGED <<dir, data, cmd, wrote, flushed, size, copy>>
  BY <1>0 DEF TypeOK, Keeps, DownloadOpen, Answers, Goes
<1>2. TypeOK'
  BY <1>0 DEF TypeOK, DownloadOpen, At, Answers, Goes, Steps, Replies, Exists
<1>3. /\ pc[s] = "dlOpen"
      /\ \/ pc'[s] \in {"idle", "dlOpen"} /\ inode' = inode
         \/ /\ pc'[s] = "dlRead" /\ inode'[s] = dir[File(s)] /\ Exists(File(s))
            /\ size[s] > 0
  BY <1>0 DEF TypeOK, DownloadOpen, At, Answers, Goes
<1>4. copy[s] = <<>> /\ wrote[s] = 0 /\ flushed[s] = 0
  BY <1>0, <1>3 DEF OpenOK, WriteSteps
<1>5. CommandOK(s)'
  BY <1>0, <1>1, <1>3 DEF CommandOK, File, UploadSteps, DownloadSteps, RenameSteps, DeleteSteps,
     Keeps
<1>6. OpenOK(s)'
  <2>1. Exists(File(s)) => dir[File(s)] \in Inodes
    BY <1>0 DEF TypeOK, Exists
  <2>2. Len(copy[s]) = 0
    BY <1>4
  <2> QED BY <1>0, <1>1, <1>3, <1>4, <2>1, <2>2 DEF OpenOK, WriteSteps, TypeOK
<1>7. Apart => ApartOK(s)'
  <2>1. Exists(File(s)) => SubSeq(data[dir[File(s)]], 1, Len(copy[s])) = <<>>
    <3>1. Len(copy[s]) = 0
      BY <1>4
    <3>2. Exists(File(s)) => data[dir[File(s)]] \in Seq(Bytes)
      BY <1>0 DEF TypeOK, Exists, Content
    <3> QED BY <3>1, <3>2
  <2> QED BY <1>0, <1>1, <1>3, <1>4, <2>1 DEF ApartOK, Exists, File, WriteSteps
<1> QED BY <1>1, <1>2, <1>5, <1>6, <1>7, QuietParts

(* What has been read is the beginning of the file.                        *)
LEMMA ReadOn ==
    ASSUME NEW content \in Content, NEW got \in Nat, NEW k \in got + 1..Len(content)
    PROVE  SubSeq(content, 1, got) \o SubSeq(content, got + 1, k) = SubSeq(content, 1, k)
BY DEF Content

LEMMA ReadFacts ==
    ASSUME IInv, NEW s \in Sessions, DownloadRead(s)
    PROVE  /\ pc[s] = "dlRead" /\ size[s] \in Nat /\ data[inode[s]] \in Content
           /\ Len(copy[s]) \in Nat /\ copy[s] \in Content
           /\ \/ \E k \in Len(copy[s]) + 1..size[s] :
                    /\ k <= Len(data[inode[s]])
                    /\ copy' = [copy EXCEPT ![s] = copy[s] \o
                                   SubSeq(data[inode[s]], Len(copy[s]) + 1, k)]
                    /\ Len(copy'[s]) = k /\ copy'[s] \in Content
                    /\ Apart => copy'[s] = SubSeq(data[inode[s]], 1, k)
                    /\ \/ /\ k = size[s] /\ Answers(s, "downloaded")
                          /\ inode' = [inode EXCEPT ![s] = Absent]
                          /\ size' = [size EXCEPT ![s] = 0]
                       \/ k # size[s] /\ UNCHANGED <<pc, reply, inode, size>>
                    /\ server' = server
              \/ /\ Len(data[inode[s]]) <= Len(copy[s])
                 /\ server' = "aborted" /\ UNCHANGED <<pc, reply, inode, copy, size>>
<1>1. /\ TypeOK /\ OpenOK(s) /\ (Apart => ApartOK(s))
      /\ pc[s] = "dlRead" /\ inode[s] \in Inodes
  BY DEF IInv, DownloadRead, At, OpenOK
<1>2. /\ size[s] \in Nat /\ data[inode[s]] \in Content
      /\ Len(copy[s]) \in Nat /\ copy[s] \in Content
  BY <1>1 DEF TypeOK, Content
<1>3. ASSUME NEW k \in Len(copy[s]) + 1..size[s], k <= Len(data[inode[s]]),
             copy' = [copy EXCEPT ![s] = copy[s] \o
                         SubSeq(data[inode[s]], Len(copy[s]) + 1, k)]
      PROVE  /\ Len(copy'[s]) = k /\ copy'[s] \in Content
             /\ Apart => copy'[s] = SubSeq(data[inode[s]], 1, k)
  <2>1. copy'[s] = copy[s] \o SubSeq(data[inode[s]], Len(copy[s]) + 1, k)
    BY <1>1, <1>3 DEF TypeOK
  <2>2. k \in Nat /\ k <= Len(data[inode[s]]) /\ Len(copy[s]) + 1 <= k
    BY <1>2, <1>3
  <2>3. Len(copy'[s]) = k /\ copy'[s] \in Content
    <3>1. /\ copy[s] \in Seq(Bytes) /\ data[inode[s]] \in Seq(Bytes)
          /\ Len(copy[s]) + 1 \in 1..Len(data[inode[s]])
          /\ k \in 1..Len(data[inode[s]])
      BY <1>2, <2>2 DEF Content
    <3>2. PICK more : more = SubSeq(data[inode[s]], Len(copy[s]) + 1, k)
      OBVIOUS
    <3>3. more \in Seq(Bytes) /\ Len(more) = k - Len(copy[s])
      <4>1. PICK a \in Nat : a = Len(copy[s])
        BY <1>2
      <4>2. PICK content \in Seq(Bytes) : content = data[inode[s]]
        BY <3>1
      <4>3. a + 1 \in 1..Len(content) /\ k \in 1..Len(content) /\ a + 1 <= k
        BY <2>2, <3>1, <4>1, <4>2
      <4>4. SubSeq(content, a + 1, k) \in Seq(Bytes) /\ Len(SubSeq(content, a + 1, k)) = k - a
        BY <4>3
      <4> QED BY <3>2, <4>1, <4>2, <4>4
    <3>4. copy[s] \o more \in Seq(Bytes) /\ Len(copy[s] \o more) = k
      <4>1. PICK got \in Seq(Bytes) : got = copy[s]
        BY <3>1
      <4>2. PICK read \in Seq(Bytes) : read = more
        BY <3>3
      <4>3. got \o read \in Seq(Bytes) /\ Len(got \o read) = Len(got) + Len(read)
        OBVIOUS
      <4>4. Len(got) + Len(read) = k
        BY <1>2, <2>2, <3>3, <4>1, <4>2
      <4> QED BY <4>1, <4>2, <4>3, <4>4
    <3> QED BY <2>1, <3>2, <3>4 DEF Content
  <2>4. Apart => copy'[s] = SubSeq(data[inode[s]], 1, k)
    <3>1. Apart => copy[s] = SubSeq(data[inode[s]], 1, Len(copy[s]))
      BY <1>1 DEF ApartOK
    <3>2. k \in Len(copy[s]) + 1..Len(data[inode[s]])
      BY <1>2, <2>2 DEF Content
    <3>3. PICK content \in Content : content = data[inode[s]]
      BY <1>2
    <3>4. PICK got \in Nat : got = Len(copy[s])
      BY <1>2
    <3>5. SubSeq(content, 1, got) \o SubSeq(content, got + 1, k) = SubSeq(content, 1, k)
      <4>1. k \in got + 1..Len(content)
        BY <3>2, <3>3, <3>4
      <4> QED BY <4>1, ReadOn
    <3>6. copy'[s] = copy[s] \o SubSeq(content, got + 1, k)
      BY <2>1, <3>3, <3>4
    <3>7. Apart => copy[s] = SubSeq(content, 1, got)
      BY <3>1, <3>3, <3>4
    <3> QED BY <3>3, <3>5, <3>6, <3>7
  <2> QED BY <2>3, <2>4
<1> QED BY <1>1, <1>2, <1>3 DEF DownloadRead

LEMMA DownloadReadInv == ASSUME IInv, NEW s \in Sessions, DownloadRead(s) PROVE IInv'
<1>0. TypeOK /\ CommandOK(s) /\ OpenOK(s) /\ (Apart => ApartOK(s))
  BY DEF IInv
<1>1. UNCHANGED <<dir, data, cmd, wrote, flushed, seen, unseen, asked, uses>>
  BY DEF DownloadRead
<1>2. CASE server' = "aborted" /\ UNCHANGED <<pc, reply, inode, copy, size>>
  <2>1. TypeOK' /\ Keeps(s)
    BY <1>0, <1>1, <1>2 DEF TypeOK, Keeps
  <2>2. CommandOK(s)' /\ OpenOK(s)' /\ (Apart => ApartOK(s)')
    BY <1>0, <1>1, <1>2 DEF CommandOK, OpenOK, ApartOK, File, All, Exists
  <2> QED BY <1>1, <2>1, <2>2, QuietParts
<1>3. ASSUME NEW k \in Len(copy[s]) + 1..size[s], NEW new \in Content,
             copy' = [copy EXCEPT ![s] = new], server' = server, copy'[s] \in Content,
             Len(copy'[s]) = k, Apart => copy'[s] = SubSeq(data[inode[s]], 1, k),
             \/ /\ k = size[s] /\ Answers(s, "downloaded")
                /\ inode' = [inode EXCEPT ![s] = Absent] /\ size' = [size EXCEPT ![s] = 0]
             \/ k # size[s] /\ UNCHANGED <<pc, reply, inode, size>>
      PROVE  IInv'
  <2>1. TypeOK' /\ Keeps(s)
    <3>1. \/ /\ pc' = [pc EXCEPT ![s] = "idle"] /\ reply' = [reply EXCEPT ![s] = "downloaded"]
             /\ inode' = [inode EXCEPT ![s] = Absent] /\ size' = [size EXCEPT ![s] = 0]
          \/ UNCHANGED <<pc, reply, inode, size>>
      BY <1>3 DEF Answers, Goes
    <3>2. copy' \in [Sessions -> Content] /\ \A t \in Sessions \ {s} : copy'[t] = copy[t]
      BY <1>0, <1>3 DEF TypeOK
    <3>3. /\ pc' \in [Sessions -> Steps] /\ reply' \in [Sessions -> Replies]
          /\ inode' \in [Sessions -> Inodes \cup {Absent}] /\ size' \in [Sessions -> Nat]
          /\ \A t \in Sessions \ {s} :
                pc'[t] = pc[t] /\ inode'[t] = inode[t] /\ size'[t] = size[t]
      <4>1. /\ pc \in [Sessions -> Steps] /\ reply \in [Sessions -> Replies]
            /\ inode \in [Sessions -> Inodes \cup {Absent}] /\ size \in [Sessions -> Nat]
            /\ "idle" \in Steps /\ "downloaded" \in Replies
        BY <1>0 DEF TypeOK, Steps, Replies
      <4>2. CASE UNCHANGED <<pc, reply, inode, size>>
        BY <4>1, <4>2
      <4>3. CASE /\ pc' = [pc EXCEPT ![s] = "idle"]
                 /\ reply' = [reply EXCEPT ![s] = "downloaded"]
                 /\ inode' = [inode EXCEPT ![s] = Absent] /\ size' = [size EXCEPT ![s] = 0]
        BY <4>1, <4>3
      <4> QED BY <3>1, <4>2, <4>3
    <3> QED BY <1>0, <1>1, <1>3, <3>2, <3>3 DEF TypeOK, Keeps
  <2>2. pc[s] = "dlRead" /\ size[s] \in Nat
    BY ReadFacts
  <2>3. CASE k = size[s]
    <3>1. pc'[s] = "idle"
      BY <1>0, <1>3, <2>3 DEF Answers, Goes, TypeOK
    <3>2. CommandOK(s)' /\ OpenOK(s)' /\ ApartOK(s)'
      BY <1>0, <1>1, <2>2, <3>1 DEF CommandOK, OpenOK, ApartOK, File, UploadSteps, DownloadSteps,
         RenameSteps, DeleteSteps, WriteSteps
    <3> QED BY <1>1, <2>1, <3>2, QuietParts
  <2>4. CASE k # size[s]
    <3>1. UNCHANGED <<pc, inode, size>> /\ k < size[s]
      BY <1>3, <2>2, <2>4
    <3>2. CommandOK(s)' /\ OpenOK(s)'
      BY <1>0, <1>1, <1>3, <2>2, <3>1 DEF CommandOK, OpenOK, File, All, WriteSteps
    <3>3. Apart => ApartOK(s)'
      BY <1>0, <1>1, <1>3, <2>2, <3>1 DEF ApartOK, File, All, Exists, WriteSteps
    <3> QED BY <1>1, <2>1, <3>2, <3>3, QuietParts
  <2> QED BY <2>3, <2>4
<1>4. CASE server' = server
  <2>1. PICK k \in Len(copy[s]) + 1..size[s] :
           /\ copy' = [copy EXCEPT ![s] = copy[s] \o
                          SubSeq(data[inode[s]], Len(copy[s]) + 1, k)]
           /\ Len(copy'[s]) = k /\ copy'[s] \in Content
           /\ Apart => copy'[s] = SubSeq(data[inode[s]], 1, k)
           /\ \/ /\ k = size[s] /\ Answers(s, "downloaded")
                 /\ inode' = [inode EXCEPT ![s] = Absent] /\ size' = [size EXCEPT ![s] = 0]
              \/ k # size[s] /\ UNCHANGED <<pc, reply, inode, size>>
    <3>1. server # "aborted"
      BY DEF DownloadRead, At
    <3> QED BY <1>4, <3>1, ReadFacts
  <2>2. copy[s] \o SubSeq(data[inode[s]], Len(copy[s]) + 1, k) = copy'[s]
    BY <1>0, <2>1 DEF TypeOK
  <2> QED BY <1>3, <1>4, <2>1, <2>2
<1> QED BY <1>2, <1>4, ReadFacts

-----------------------------------------------------------------------------
LEMMA RenameMoveInv == ASSUME IInv, NEW s \in Sessions, RenameMove(s) PROVE IInv'
<1>0. /\ TypeOK /\ CommandOK(s) /\ OpenOK(s) /\ (Apart => ApartOK(s))
      /\ File(s) \in Names /\ cmd[s].new \in Names
  BY CommandType DEF IInv
<1>1. /\ pc[s] = "rnMove" /\ pc' = [pc EXCEPT ![s] = "idle"]
      /\ UNCHANGED <<data, cmd, inode, wrote, flushed, size, copy, uses>>
      /\ \/ dir' = dir
         \/ dir' = [dir EXCEPT ![File(s)] = Absent, ![cmd[s].new] = dir[File(s)]]
  BY DEF RenameMove, At, Answers, Goes
<1>2. TypeOK'
  BY <1>0 DEF TypeOK, RenameMove, Answers, Goes, Steps, Replies
<1>3. Keeps(s) /\ pc'[s] = "idle"
  BY <1>0, <1>1 DEF TypeOK, Keeps
<1>4. \A n \in Names \ {File(s), cmd[s].new} : dir'[n] = dir[n]
  BY <1>0, <1>1 DEF TypeOK
<1>5. dir' \in OneNameEach
  <2>1. dir \in OneNameEach /\ dir \in [Names -> Inodes \cup {Absent}]
    BY <1>0 DEF IInv, TypeOK
  <2>2. CASE dir' = [dir EXCEPT ![File(s)] = Absent, ![cmd[s].new] = dir[File(s)]]
    <3>1. /\ dir' \in [Names -> Inodes \cup {Absent}]
          /\ dir'[cmd[s].new] = dir[File(s)]
          /\ File(s) # cmd[s].new => dir'[File(s)] = Absent
      BY <1>0, <2>1, <2>2
    <3>2. \A m, n \in Names : dir[m] = dir[n] /\ dir[m] # Absent => m = n
      BY <2>1 DEF OneNameEach
    <3>3. \A m, n \in Names : dir'[m] = dir'[n] /\ dir'[m] # Absent => m = n
      BY <1>0, <1>4, <3>1, <3>2
    <3> QED BY <3>1, <3>3 DEF OneNameEach
  <2> QED BY <1>1, <2>1, <2>2
<1>6. CommandOK(s)' /\ OpenOK(s)' /\ ApartOK(s)'
  BY <1>0, <1>1, <1>3 DEF CommandOK, OpenOK, ApartOK, File, UploadSteps, DownloadSteps,
     RenameSteps, DeleteSteps, WriteSteps
<1>7. Touches(s)
  <2>1. File(s) \in uses[s] /\ cmd[s].new \in uses[s]
    BY <1>0, <1>1 DEF CommandOK, RenameSteps
  <2> QED BY <1>1, <1>4, <2>1 DEF Touches
<1> QED BY <1>2, <1>3, <1>5, <1>6, <1>7, StepParts

LEMMA DeleteRemoveInv == ASSUME IInv, NEW s \in Sessions, DeleteRemove(s) PROVE IInv'
<1>0. /\ TypeOK /\ CommandOK(s) /\ OpenOK(s) /\ (Apart => ApartOK(s)) /\ File(s) \in Names
  BY CommandType DEF IInv
<1>1. /\ pc[s] = "rmRemove" /\ pc' = [pc EXCEPT ![s] = "idle"]
      /\ UNCHANGED <<data, cmd, inode, wrote, flushed, size, copy, uses>>
      /\ dir' = [dir EXCEPT ![File(s)] = Absent]
  BY DEF DeleteRemove, At, Answers, Goes
<1>2. TypeOK'
  BY <1>0 DEF TypeOK, DeleteRemove, Answers, Goes, Steps, Replies
<1>3. Keeps(s) /\ pc'[s] = "idle"
  BY <1>0, <1>1 DEF TypeOK, Keeps
<1>4. \A n \in Names \ {File(s)} : dir'[n] = dir[n]
  BY <1>0, <1>1 DEF TypeOK
<1>5. dir' \in OneNameEach
  <2>1. dir' \in [Names -> Inodes \cup {Absent}] /\ dir'[File(s)] = Absent
    BY <1>0, <1>1 DEF TypeOK
  <2> QED BY <1>4, <2>1 DEF IInv, OneNameEach
<1>6. CommandOK(s)' /\ OpenOK(s)' /\ ApartOK(s)'
  BY <1>0, <1>1, <1>3 DEF CommandOK, OpenOK, ApartOK, File, UploadSteps, DownloadSteps,
     RenameSteps, DeleteSteps, WriteSteps
<1>7. Touches(s)
  <2>1. File(s) \in uses[s]
    BY <1>0, <1>1 DEF CommandOK, DeleteSteps
  <2> QED BY <1>1, <1>4, <2>1 DEF Touches
<1> QED BY <1>2, <1>3, <1>5, <1>6, <1>7, StepParts

LEMMA StepInv == IInv /\ [Next]_vars => IInv'
<1> SUFFICES ASSUME IInv, [Next]_vars PROVE IInv'
  OBVIOUS
<1>1. CASE UNCHANGED vars
  BY <1>1 DEF vars, IInv, TypeOK, OneNameEach, CommandOK, OpenOK, ApartOK, Apart, Exists, File, All
<1>2. ASSUME NEW s \in Sessions, ClientStep(s) PROVE IInv'
  BY <1>2, ReturnInv, AskInv, UploadBreaksInv DEF ClientStep
<1>3. ASSUME NEW s \in Sessions, WorkerStep(s) PROVE IInv'
  BY <1>3, UploadCheckInv, UploadCreateInv, UploadTakenInv, UploadOpenInv, UploadWriteInv,
     UploadVerdictInv, UploadCloseInv, DownloadMissingInv, DownloadCheckInv, DownloadSizeInv,
     DownloadOpenInv, DownloadReadInv, RenameFromInv, RenameToInv, RenameMoveInv,
     DeleteCheckInv, DeleteRemoveInv, ListLookInv, ListEndInv DEF WorkerStep
<1> QED BY <1>1, <1>2, <1>3 DEF Next

LEMMA InvAlways == Spec => []IInv
BY InitInv, StepInv, PTL DEF Spec

(* The variables of the shared folder keep their types, whichever names    *)
(* the sessions use.                                                       *)
THEOREM SharedTypes == Spec => []TypeOK
<1>1. IInv => TypeOK
  BY DEF IInv
<1> QED BY <1>1, InvAlways, PTL
=============================================================================

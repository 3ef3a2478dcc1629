------------------------ MODULE SharedFolderOutcomes ------------------------
(* What the client of a session was told about names that are its own is   *)
(* so, for every value of the constants, whatever happens to the names     *)
(* that other sessions share.                                              *)
EXTENDS SharedFolderProofs

Own(s) == Private(s, File(s)) /\ Private(s, cmd[s].new)

(* What the last answer says of the folder.                                *)
Told(s) ==
    LET from == File(s)  to == cmd[s].new IN
    /\ reply[s] = "uploaded" => Exists(from) /\ data[dir[from]] = All(s)
    /\ reply[s] = "downloaded" => Exists(from)
    /\ reply[s] = "renamed" => ~Exists(from) /\ Exists(to)
    /\ reply[s] \in {"renameMissing", "deleted", "deleteMissing"} => ~Exists(from)
    /\ reply[s] = "renameFailed" => Exists(from) /\ Exists(to)
    /\ reply[s] = "exists" => Exists(from)
    /\ reply[s] # "deleteFailed"

(* There is an answer when the command is over, and of an upload as soon   *)
(* as all of it was received.                                              *)
ReplyOK(s) ==
    /\ pc[s] \notin {"idle", "upClose"} => reply[s] = "none"
    /\ pc[s] = "upClose" => reply[s] = "uploaded" /\ wrote[s] = Len(All(s))

(* What a worker has found out about a name of its own is still so, and    *)
(* what it has written to is its own too: no other worker has that file    *)
(* open.                                                                   *)
OwnOK(s) ==
    /\ pc[s] \notin {"upLate", "astray"}
    /\ pc[s] \in {"upCreate", "upOpen"} => ~Exists(File(s))
    /\ pc[s] \in {"upTaken", "dlSize", "dlOpen", "dlRead", "rnTo", "rnMove", "rmRemove"}
          => Exists(File(s))
    /\ pc[s] = "rnMove" => ~Exists(cmd[s].new)
    /\ pc[s] \in WriteSteps =>
          /\ Exists(File(s)) /\ dir[File(s)] = inode[s]
          /\ data[inode[s]] = SubSeq(All(s), 1, flushed[s])
    /\ pc[s] \in WriteSteps \/ (pc[s] = "idle" /\ reply[s] = "uploaded") =>
          \A t \in Sessions \ {s} : inode[t] # dir[File(s)]
    /\ pc[s] = "idle" => Told(s)

OwnInv == \A s \in Sessions : ReplyOK(s) /\ (Own(s) => OwnOK(s))

-----------------------------------------------------------------------------
(* What a step of another session leaves alone.                            *)

LEMMA UsedNames ==
    ASSUME IInv, NEW t \in Sessions, pc[t] \notin {"idle", "gone", "astray", "list"}
    PROVE  File(t) \in uses[t] /\ cmd[t].new \in uses[t]
           /\ File(t) \in Names /\ cmd[t].new \in Names
<1>1. TypeOK /\ CommandOK(t) /\ pc[t] \in Steps
  BY DEF IInv, TypeOK
<1>2. pc[t] \in UploadSteps \cup DownloadSteps \cup RenameSteps \cup DeleteSteps
  BY <1>1 DEF Steps, UploadSteps, DownloadSteps, RenameSteps, DeleteSteps
<1>3. cmd[t].op # "list"
  BY <1>1, <1>2 DEF CommandOK
<1> QED BY <1>1, <1>3, CommandType DEF CommandOK

(* Emptying a buffer changes the one file, and completes it if nobody else *)
(* has written to it.                                                      *)
LEMMA EmptiedOne ==
    ASSUME IInv, NEW s \in Sessions, pc[s] \in WriteSteps, NEW k \in Nat,
           flushed[s] <= k, k <= Len(All(s)), Emptied(s, k)
    PROVE  /\ \A i \in Inodes \ {inode[s]} : data'[i] = data[i]
           /\ data[inode[s]] = SubSeq(All(s), 1, flushed[s]) =>
                 data'[inode[s]] = SubSeq(All(s), 1, k)
<1>1. /\ TypeOK /\ OpenOK(s) /\ inode[s] \in Inodes /\ flushed[s] \in Nat
  BY DEF IInv, OpenOK, TypeOK
<1>2. All(s) \in Content
  BY <1>1, CommandType
<1>3. PICK new : new = WrittenAt(data[inode[s]], flushed[s], SubSeq(All(s), flushed[s] + 1, k))
  OBVIOUS
<1>4. data' = [data EXCEPT ![inode[s]] = new]
  BY <1>3 DEF Emptied, All, File
<1>5. data[inode[s]] = SubSeq(All(s), 1, flushed[s]) => new = SubSeq(All(s), 1, k)
  BY <1>1, <1>2, <1>3, WrittenWhole
<1> QED BY <1>1, <1>4, <1>5 DEF TypeOK

LEMMA Frame ==
    ASSUME IInv, NEW t \in Sessions, ClientStep(t) \/ WorkerStep(t)
    PROVE  /\ Keeps(t) /\ \A u \in Sessions \ {t} : reply'[u] = reply[u]
           /\ \A n \in Names \ uses[t] :
                 /\ dir'[n] = dir[n]
                 /\ dir[n] # Absent /\ inode[t] # dir[n] =>
                       data'[dir[n]] = data[dir[n]] /\ inode'[t] # dir[n]
<1> DEFINE Others ==
              /\ Keeps(t) /\ \A u \in Sessions \ {t} : reply'[u] = reply[u]
              /\ \A n \in Names \ uses[t] :
                    /\ dir'[n] = dir[n]
                    /\ dir[n] # Absent /\ inode[t] # dir[n] =>
                          data'[dir[n]] = data[dir[n]] /\ inode'[t] # dir[n]
<1>0. TypeOK /\ OpenOK(t) /\ Absent \notin Inodes
  BY SharedAssumption DEF IInv, SharedAssumption
<1>1. CASE \/ Return(t) \/ UploadBreaks(t) \/ UploadCheck(t) \/ UploadCreate(t)
           \/ UploadTaken(t) \/ UploadVerdict(t)
  BY <1>0, <1>1 DEF Return, UploadBreaks, UploadCheck, UploadCreate, UploadTaken,
     UploadVerdict, Goes, Answers, TypeOK, Keeps
<1>2. CASE \/ DownloadMissing(t) \/ DownloadCheck(t) \/ DownloadSize(t)
           \/ RenameFrom(t) \/ RenameTo(t)
  BY <1>0, <1>2 DEF DownloadMissing, DownloadCheck, DownloadSize, RenameFrom, RenameTo,
     Goes, Answers, TypeOK, Keeps
<1>3. CASE DeleteCheck(t) \/ ListLook(t) \/ ListEnd(t)
  BY <1>0, <1>3 DEF DeleteCheck, ListLook, ListEnd, Goes, Answers, TypeOK, Keeps
<1>4. CASE Ask(t)
  BY <1>0, <1>4 DEF Ask, Goes, TypeOK, Keeps
<1>5. CASE UploadOpen(t)
  <2>1. PICK i \in IF Exists(File(t)) THEN {dir[File(t)]} ELSE NextFree :
           /\ dir' = [dir EXCEPT ![File(t)] = i]
           /\ data' = [data EXCEPT ![i] = <<>>]
           /\ \/ Goes(t, "upWrite") /\ inode' = [inode EXCEPT ![t] = i]
              \/ Goes(t, "astray") /\ UNCHANGED inode
    BY <1>5 DEF UploadOpen
  <2>2. File(t) \in uses[t] /\ File(t) \in Names
    BY <1>5, UsedNames DEF UploadOpen, At
  <2>3. \A n \in Names \ uses[t] : dir[n] # Absent => dir[n] # i
    <3>1. CASE Exists(File(t))
      BY <2>1, <2>2, <3>1 DEF IInv, OneNameEach
    <3>2. CASE ~Exists(File(t))
      BY <2>1, <3>2 DEF NextFree, Free
    <3> QED BY <3>1, <3>2
  <2>4. Keeps(t) /\ \A u \in Sessions \ {t} : reply'[u] = reply[u]
    BY <1>0, <1>5, <2>1 DEF UploadOpen, Goes, TypeOK, Keeps
  <2>5. \A n \in Names \ uses[t] :
           dir'[n] = dir[n] /\ (dir[n] # Absent => data'[dir[n]] = data[dir[n]])
    BY <1>0, <2>1, <2>2, <2>3 DEF TypeOK
  <2>6. inode'[t] \in {i, inode[t]}
    BY <1>0, <2>1 DEF TypeOK
  <2> QED BY <2>3, <2>4, <2>5, <2>6
<1>6. CASE UploadWrite(t)
  <2>1. /\ pc[t] \in WriteSteps /\ wrote[t] + 1 \in Nat /\ flushed[t] <= wrote[t] + 1
        /\ wrote[t] + 1 <= Len(All(t)) /\ UNCHANGED <<dir, inode>>
    <3>1. pc[t] = "upWrite" /\ wrote[t] < Len(All(t)) /\ UNCHANGED <<dir, inode>>
      BY <1>6 DEF UploadWrite, At
    <3>2. wrote[t] \in Nat /\ flushed[t] \in Nat /\ flushed[t] <= wrote[t] /\ All(t) \in Seq(Chunks)
      BY <1>0, <3>1, CommandType DEF TypeOK, OpenOK, WriteSteps
    <3>3. Len(All(t)) \in Nat
      BY <3>2
    <3> QED BY <3>1, <3>2, <3>3 DEF WriteSteps
  <2>2. Keeps(t) /\ UNCHANGED reply
    BY <1>0, <1>6 DEF UploadWrite, TypeOK, Keeps
  <2>3. \A i \in Inodes \ {inode[t]} : data'[i] = data[i]
    <3>1. CASE Emptied(t, wrote[t] + 1)
      BY <2>1, <3>1, EmptiedOne
    <3> QED BY <1>6, <3>1 DEF UploadWrite
  <2> QED BY <1>0, <2>1, <2>2, <2>3 DEF TypeOK
<1>7. CASE UploadClose(t)
  <2>1. /\ pc[t] \in WriteSteps /\ wrote[t] \in Nat /\ flushed[t] <= wrote[t]
        /\ wrote[t] <= Len(All(t)) /\ Emptied(t, wrote[t])
        /\ UNCHANGED dir /\ inode' = [inode EXCEPT ![t] = Absent]
    BY <1>0, <1>7 DEF UploadClose, At, TypeOK, OpenOK, WriteSteps
  <2>2. Keeps(t) /\ UNCHANGED reply
    BY <1>0, <1>7 DEF UploadClose, Goes, TypeOK, Keeps
  <2>3. \A i \in Inodes \ {inode[t]} : data'[i] = data[i]
    BY <2>1, EmptiedOne
  <2> QED BY <1>0, <2>1, <2>2, <2>3 DEF TypeOK
<1>8. CASE DownloadOpen(t)
  <2>1. File(t) \in uses[t] /\ File(t) \in Names
    BY <1>8, UsedNames DEF DownloadOpen, At
  <2>2. Keeps(t) /\ (\A u \in Sessions \ {t} : reply'[u] = reply[u]) /\ UNCHANGED <<dir, data>>
    BY <1>0, <1>8 DEF DownloadOpen, Goes, Answers, TypeOK, Keeps
  <2>3. inode'[t] = inode[t] \/ (Exists(File(t)) /\ inode'[t] = dir[File(t)])
    BY <1>0, <1>8 DEF DownloadOpen, TypeOK
  <2> QED BY <2>1, <2>2, <2>3 DEF IInv, OneNameEach
<1>9. CASE DownloadRead(t)
  <2>1. UNCHANGED <<dir, data, cmd, wrote, flushed, uses>>
    BY <1>9 DEF DownloadRead
  <2>2. /\ \A u \in Sessions \ {t} : copy'[u] = copy[u]
        /\ \/ UNCHANGED <<pc, reply, inode, size>>
           \/ /\ Answers(t, "downloaded") /\ inode' = [inode EXCEPT ![t] = Absent]
              /\ size' = [size EXCEPT ![t] = 0]
    <3>1. PICK new : copy' = [copy EXCEPT ![t] = new] \/ copy' = copy
      BY <1>9 DEF DownloadRead
    <3>2. \A u \in Sessions \ {t} : copy'[u] = copy[u]
      BY <1>0, <3>1 DEF TypeOK
    <3> QED BY <1>9, <3>2, ReadFacts
  <2>3. Keeps(t) /\ \A u \in Sessions \ {t} : reply'[u] = reply[u]
    BY <1>0, <2>1, <2>2 DEF Answers, Goes, TypeOK, Keeps
  <2>4. inode'[t] \in {inode[t], Absent}
    BY <1>0, <2>2 DEF TypeOK
  <2> QED BY <2>1, <2>3, <2>4
<1>10. CASE RenameMove(t) \/ DeleteRemove(t)
  <2>1. /\ File(t) \in uses[t] /\ cmd[t].new \in uses[t]
        /\ File(t) \in Names /\ cmd[t].new \in Names
    BY <1>10, UsedNames DEF RenameMove, DeleteRemove, At
  <2>2. Keeps(t) /\ (\A u \in Sessions \ {t} : reply'[u] = reply[u]) /\ UNCHANGED <<data, inode>>
    BY <1>0, <1>10 DEF RenameMove, DeleteRemove, Goes, Answers, TypeOK, Keeps
  <2>3. \A n \in Names \ uses[t] : dir'[n] = dir[n]
    BY <1>0, <1>10, <2>1 DEF RenameMove, DeleteRemove, TypeOK
  <2> QED BY <2>2, <2>3
<1> QED
  BY <1>1, <1>2, <1>3, <1>4, <1>5, <1>6, <1>7, <1>8, <1>9, <1>10 DEF ClientStep, WorkerStep

LEMMA OthersOwn ==
    ASSUME IInv, NEW t \in Sessions, ClientStep(t) \/ WorkerStep(t),
           NEW s \in Sessions \ {t}, ReplyOK(s), Own(s) => OwnOK(s)
    PROVE  ReplyOK(s)' /\ (Own(s)' => OwnOK(s)')
<1>1. /\ Keeps(t) /\ reply'[s] = reply[s]
      /\ \A n \in Names \ uses[t] :
            /\ dir'[n] = dir[n]
            /\ dir[n] # Absent /\ inode[t] # dir[n] =>
                  data'[dir[n]] = data[dir[n]] /\ inode'[t] # dir[n]
  BY Frame
<1>2. /\ pc'[s] = pc[s] /\ cmd'[s] = cmd[s] /\ inode'[s] = inode[s]
      /\ wrote'[s] = wrote[s] /\ flushed'[s] = flushed[s] /\ uses' = uses
      /\ \A u \in Sessions \ {t} : inode'[u] = inode[u]
  BY <1>1 DEF Keeps
<1>3. /\ File(s)' = File(s) /\ All(s)' = All(s) /\ (Own(s)' <=> Own(s))
      /\ File(s) \in Names /\ cmd[s].new \in Names
  BY <1>2, CommandType DEF IInv, File, All, Own, Private
<1>4. ReplyOK(s)'
  BY <1>1, <1>2, <1>3 DEF ReplyOK
<1>5. ASSUME Own(s) PROVE OwnOK(s)'
  <2>1. OwnOK(s)
    BY <1>5
  <2>2. File(s) \notin uses[t] /\ cmd[s].new \notin uses[t]
    BY <1>5 DEF Own, Private
  <2>3. dir'[File(s)] = dir[File(s)] /\ dir'[cmd[s].new] = dir[cmd[s].new]
    BY <1>1, <1>3, <2>2
  <2>4. pc[s] \in WriteSteps \/ (pc[s] = "idle" /\ reply[s] = "uploaded") =>
           /\ Exists(File(s)) /\ data'[dir[File(s)]] = data[dir[File(s)]]
           /\ \A u \in Sessions \ {s} : inode'[u] # dir[File(s)]
    <3> SUFFICES ASSUME pc[s] \in WriteSteps \/ (pc[s] = "idle" /\ reply[s] = "uploaded")
                 PROVE  /\ Exists(File(s)) /\ data'[dir[File(s)]] = data[dir[File(s)]]
                        /\ \A u \in Sessions \ {s} : inode'[u] # dir[File(s)]
      OBVIOUS
    <3>1. Exists(File(s)) /\ \A u \in Sessions \ {s} : inode[u] # dir[File(s)]
      BY <2>1 DEF OwnOK, Told
    <3>2. data'[dir[File(s)]] = data[dir[File(s)]] /\ inode'[t] # dir[File(s)]
      BY <1>1, <1>3, <2>2, <3>1 DEF Exists
    <3> QED BY <1>2, <3>1, <3>2
  <2>5. pc[s] = "idle" => Told(s)'
    BY <1>1, <1>2, <1>3, <2>1, <2>3, <2>4 DEF OwnOK, Told, Exists
  <2> QED BY <1>1, <1>2, <1>3, <2>1, <2>3, <2>4, <2>5 DEF OwnOK, Exists, WriteSteps
<1> QED BY <1>3, <1>4, <1>5

-----------------------------------------------------------------------------
(* The session's own steps.  Most of them only look.                       *)
LEMMA QuietOwn ==
    ASSUME IInv, OwnInv, NEW s \in Sessions,
           \/ Return(s) \/ UploadBreaks(s) \/ UploadCheck(s) \/ UploadCreate(s)
           \/ UploadTaken(s) \/ UploadVerdict(s)
           \/ DownloadMissing(s) \/ DownloadCheck(s) \/ DownloadSize(s)
           \/ RenameFrom(s) \/ RenameTo(s) \/ DeleteCheck(s) \/ ListLook(s) \/ ListEnd(s)
    PROVE  ReplyOK(s)' /\ (Own(s)' => OwnOK(s)')
<1>0. TypeOK /\ ReplyOK(s) /\ (Own(s) => OwnOK(s))
  BY DEF IInv, OwnInv
<1>1. UNCHANGED <<dir, data, cmd, inode, wrote, flushed, uses>>
  BY DEF Return, UploadBreaks, UploadCheck, UploadCreate, UploadTaken, UploadVerdict,
     DownloadMissing, DownloadCheck, DownloadSize, RenameFrom, RenameTo, DeleteCheck,
     ListLook, ListEnd
<1>2. /\ File(s)' = File(s) /\ All(s)' = All(s) /\ (Own(s)' <=> Own(s))
      /\ Exists(File(s))' = Exists(File(s)) /\ Exists(cmd[s].new)' = Exists(cmd[s].new)
  BY <1>1 DEF File, All, Own, Private, Exists
<1>3. CASE Return(s) \/ UploadBreaks(s) \/ UploadCheck(s)
  BY <1>0, <1>1, <1>2, <1>3 DEF Return, UploadBreaks, UploadCheck, At, Goes, Answers, TypeOK,
     ReplyOK, OwnOK, Told, WriteSteps
<1>4. CASE UploadCreate(s) \/ UploadTaken(s) \/ UploadVerdict(s)
  BY <1>0, <1>1, <1>2, <1>4 DEF UploadCreate, UploadTaken, UploadVerdict, At, Goes, Answers,
     TypeOK, ReplyOK, OwnOK, Told, WriteSteps
<1>5. CASE DownloadMissing(s) \/ DownloadCheck(s) \/ DownloadSize(s)
  BY <1>0, <1>1, <1>2, <1>5 DEF DownloadMissing, DownloadCheck, DownloadSize, At, Goes, Answers,
     TypeOK, ReplyOK, OwnOK, Told, WriteSteps
<1>6. CASE RenameFrom(s) \/ RenameTo(s)
  BY <1>0, <1>1, <1>2, <1>6 DEF RenameFrom, RenameTo, At, Goes, Answers, TypeOK,
     ReplyOK, OwnOK, Told, WriteSteps
<1>7. CASE DeleteCheck(s) \/ ListLook(s) \/ ListEnd(s)
  BY <1>0, <1>1, <1>2, <1>7 DEF DeleteCheck, ListLook, ListEnd, At, Goes, Answers, TypeOK,
     ReplyOK, OwnOK, Told, WriteSteps
<1> QED BY <1>3, <1>4, <1>5, <1>6, <1>7

LEMMA AskOwn ==
    ASSUME IInv, OwnInv, NEW s \in Sessions, Ask(s)
    PROVE  ReplyOK(s)' /\ (Own(s)' => OwnOK(s)')
<1>1. PICK c \in Commands : pc' = [pc EXCEPT ![s] = c.op]
  BY DEF Ask, Goes
<1>2. pc'[s] = c.op /\ c.op \in {"upload", "download", "list", "rename", "delete"}
  BY <1>1 DEF IInv, TypeOK, Commands
<1>3. reply'[s] = "none"
  BY DEF Ask, IInv, TypeOK
<1> QED BY <1>2, <1>3 DEF ReplyOK, OwnOK, WriteSteps

(* A file that was made for an upload is nobody else's.                    *)
LEMMA UploadOpenOwn ==
    ASSUME IInv, OwnInv, NEW s \in Sessions, UploadOpen(s)
    PROVE  ReplyOK(s)' /\ (Own(s)' => OwnOK(s)')
<1>0. TypeOK /\ OpenOK(s) /\ ReplyOK(s) /\ (Own(s) => OwnOK(s)) /\ Absent \notin Inodes
  BY SharedAssumption DEF IInv, OwnInv, SharedAssumption
<1>1. PICK i \in IF Exists(File(s)) THEN {dir[File(s)]} ELSE NextFree :
         /\ dir' = [dir EXCEPT ![File(s)] = i]
         /\ data' = [data EXCEPT ![i] = <<>>]
         /\ IF pc[s] = "upOpen"
            THEN Goes(s, "upWrite") /\ inode' = [inode EXCEPT ![s] = i]
            ELSE Goes(s, "astray") /\ UNCHANGED inode
  BY DEF UploadOpen
<1>2. UNCHANGED <<cmd, wrote, flushed, reply, uses>> /\ pc[s] \in {"upOpen", "upLate"}
  BY DEF UploadOpen, At
<1>3. pc'[s] \in {"upWrite", "astray"} /\ (pc[s] = "upOpen" => pc'[s] = "upWrite")
  BY <1>0, <1>1 DEF Goes, TypeOK
<1>4. File(s) \in Names /\ All(s) \in Seq(Chunks)
  BY <1>0, CommandType
<1>5. ReplyOK(s)'
  BY <1>0, <1>2, <1>3 DEF ReplyOK
<1>6. ASSUME Own(s)' PROVE OwnOK(s)'
  <2>1. Own(s) /\ File(s)' = File(s) /\ All(s)' = All(s)
    BY <1>2, <1>6 DEF Own, Private, File, All
  <2>2. pc[s] = "upOpen" /\ ~Exists(File(s))
    BY <1>0, <1>2, <2>1 DEF OwnOK
  <2>3. i \in Inodes /\ \A t \in Sessions : inode[t] # i
    BY <1>1, <2>2 DEF NextFree, Free
  <2>4. /\ dir'[File(s)] = i /\ data'[i] = <<>> /\ inode'[s] = i
        /\ \A t \in Sessions \ {s} : inode'[t] # i
    BY <1>0, <1>1, <1>4, <2>2, <2>3 DEF TypeOK
  <2>5. flushed'[s] = 0 /\ SubSeq(All(s), 1, 0) = <<>>
    BY <1>0, <1>2, <1>4, <2>2 DEF OpenOK, WriteSteps
  <2> QED BY <1>0, <1>3, <2>1, <2>2, <2>3, <2>4, <2>5 DEF OwnOK, Exists, WriteSteps
<1> QED BY <1>5, <1>6

LEMMA UploadWriteOwn ==
    ASSUME IInv, OwnInv, NEW s \in Sessions, UploadWrite(s)
    PROVE  ReplyOK(s)' /\ (Own(s)' => OwnOK(s)')
<1>0. TypeOK /\ OpenOK(s) /\ ReplyOK(s) /\ (Own(s) => OwnOK(s))
  BY DEF IInv, OwnInv
<1>1. /\ pc[s] = "upWrite" /\ UNCHANGED <<dir, pc, cmd, inode, reply, uses>>
      /\ wrote[s] < Len(All(s))
  BY DEF UploadWrite, At
<1>2. /\ wrote[s] + 1 \in Nat /\ flushed[s] <= wrote[s] + 1 /\ wrote[s] + 1 <= Len(All(s))
  <2>1. wrote[s] \in Nat /\ flushed[s] \in Nat /\ flushed[s] <= wrote[s] /\ All(s) \in Seq(Chunks)
    BY <1>0, <1>1, CommandType DEF TypeOK, OpenOK, WriteSteps
  <2>2. Len(All(s)) \in Nat
    BY <2>1
  <2> QED BY <1>1, <2>1, <2>2
<1>3. /\ File(s)' = File(s) /\ All(s)' = All(s) /\ (Own(s)' <=> Own(s))
      /\ Exists(File(s))' = Exists(File(s))
  BY <1>1 DEF File, All, Own, Private, Exists
<1>4. data[inode[s]] = SubSeq(All(s), 1, flushed[s])
        => data'[inode[s]] = SubSeq(All(s), 1, flushed'[s])
  <2>1. CASE Emptied(s, wrote[s] + 1) /\ flushed' = [flushed EXCEPT ![s] = wrote[s] + 1]
    <3>1. flushed'[s] = wrote[s] + 1
      BY <1>0, <2>1 DEF TypeOK
    <3> QED BY <1>1, <1>2, <2>1, <3>1, EmptiedOne DEF WriteSteps
  <2>2. CASE UNCHANGED <<flushed, data>>
    BY <2>2
  <2> QED BY <2>1, <2>2 DEF UploadWrite
<1>5. ReplyOK(s)'
  BY <1>0, <1>1 DEF ReplyOK
<1> QED BY <1>0, <1>1, <1>3, <1>4, <1>5 DEF OwnOK, WriteSteps

LEMMA UploadCloseOwn ==
    ASSUME IInv, OwnInv, NEW s \in Sessions, UploadClose(s)
    PROVE  ReplyOK(s)' /\ (Own(s)' => OwnOK(s)')
<1>0. TypeOK /\ OpenOK(s) /\ ReplyOK(s) /\ (Own(s) => OwnOK(s)) /\ All(s) \in Content
  BY CommandType DEF IInv, OwnInv
<1>1. /\ pc[s] \in {"upClose", "upLost"} /\ UNCHANGED <<dir, cmd, reply, uses>>
      /\ pc'[s] = IF pc[s] = "upLost" THEN "gone" ELSE "idle"
      /\ \A t \in Sessions \ {s} : inode'[t] = inode[t]
      /\ Emptied(s, wrote[s])
  BY <1>0 DEF UploadClose, At, Goes, TypeOK
<1>2. wrote[s] \in Nat /\ flushed[s] <= wrote[s] /\ wrote[s] <= Len(All(s))
  BY <1>0, <1>1 DEF TypeOK, OpenOK, WriteSteps
<1>3. /\ File(s)' = File(s) /\ All(s)' = All(s) /\ (Own(s)' <=> Own(s))
      /\ Exists(File(s))' = Exists(File(s))
  BY <1>1 DEF File, All, Own, Private, Exists
<1>4. data[inode[s]] = SubSeq(All(s), 1, flushed[s])
        => data'[inode[s]] = SubSeq(All(s), 1, wrote[s])
  BY <1>1, <1>2, EmptiedOne DEF WriteSteps
<1>5. ReplyOK(s)'
  BY <1>0, <1>1 DEF ReplyOK
<1>6. ASSUME Own(s)', pc[s] = "upClose" PROVE Told(s)' /\ reply'[s] = "uploaded"
  <2>1. OwnOK(s) /\ reply[s] = "uploaded" /\ wrote[s] = Len(All(s))
    BY <1>0, <1>3, <1>6 DEF ReplyOK
  <2>2. Exists(File(s)) /\ dir[File(s)] = inode[s]
        /\ data'[inode[s]] = SubSeq(All(s), 1, Len(All(s)))
    BY <1>4, <1>6, <2>1 DEF OwnOK, WriteSteps
  <2>3. SubSeq(All(s), 1, Len(All(s))) = All(s)
    BY <1>0 DEF Content
  <2> QED BY <1>1, <1>3, <2>1, <2>2, <2>3 DEF Told
<1>7. ASSUME Own(s)' PROVE OwnOK(s)'
  BY <1>0, <1>1, <1>3, <1>6, <1>7 DEF OwnOK, WriteSteps
<1> QED BY <1>5, <1>7

LEMMA DownloadOpenOwn ==
    ASSUME IInv, OwnInv, NEW s \in Sessions, DownloadOpen(s)
    PROVE  ReplyOK(s)' /\ (Own(s)' => OwnOK(s)')
<1>0. TypeOK /\ ReplyOK(s) /\ (Own(s) => OwnOK(s))
  BY DEF IInv, OwnInv
<1>1. /\ pc[s] = "dlOpen" /\ UNCHANGED <<dir, data, cmd, uses>>
      /\ \/ pc'[s] = "idle" /\ reply'[s] = "notOnCloud"
         \/ pc'[s] \in {"dlOpen", "dlRead"} /\ UNCHANGED reply
  BY <1>0 DEF DownloadOpen, At, Goes, Answers, TypeOK
<1>2. File(s)' = File(s) /\ (Own(s)' <=> Own(s)) /\ Exists(File(s))' = Exists(File(s))
  BY <1>1 DEF File, Own, Private, Exists
<1> QED BY <1>0, <1>1, <1>2 DEF ReplyOK, OwnOK, Told, WriteSteps

LEMMA DownloadReadOwn ==
    ASSUME IInv, OwnInv, NEW s \in Sessions, DownloadRead(s)
    PROVE  ReplyOK(s)' /\ (Own(s)' => OwnOK(s)')
<1>0. TypeOK /\ ReplyOK(s) /\ (Own(s) => OwnOK(s))
  BY DEF IInv, OwnInv
<1>1. UNCHANGED <<dir, data, cmd, uses>>
  BY DEF DownloadRead
<1>2. /\ pc[s] = "dlRead"
      /\ \/ pc'[s] = "idle" /\ reply'[s] = "downloaded"
         \/ pc'[s] = "dlRead" /\ UNCHANGED reply
  <2>1. pc[s] = "dlRead" /\ (Answers(s, "downloaded") \/ UNCHANGED <<pc, reply>>)
    BY ReadFacts
  <2> QED BY <1>0, <2>1 DEF Answers, Goes, TypeOK
<1>3. File(s)' = File(s) /\ (Own(s)' <=> Own(s)) /\ Exists(File(s))' = Exists(File(s))
  BY <1>1 DEF File, Own, Private, Exists
<1> QED BY <1>0, <1>1, <1>2, <1>3 DEF ReplyOK, OwnOK, Told, WriteSteps

LEMMA RenameMoveOwn ==
    ASSUME IInv, OwnInv, NEW s \in Sessions, RenameMove(s)
    PROVE  ReplyOK(s)' /\ (Own(s)' => OwnOK(s)')
<1>0. /\ TypeOK /\ (Own(s) => OwnOK(s))
      /\ File(s) \in Names /\ cmd[s].new \in Names
  BY CommandType DEF IInv, OwnInv
<1>1. pc[s] = "rnMove" /\ pc'[s] = "idle" /\ UNCHANGED <<cmd, uses>>
  BY <1>0 DEF RenameMove, At, Goes, Answers, TypeOK
<1>2. File(s)' = File(s) /\ (Own(s)' <=> Own(s))
  BY <1>1 DEF File, Own, Private
<1>3. ReplyOK(s)'
  BY <1>1 DEF ReplyOK
<1>4. ASSUME Own(s)' PROVE OwnOK(s)'
  <2>1. Exists(File(s)) /\ ~Exists(cmd[s].new)
    BY <1>0, <1>1, <1>2, <1>4 DEF OwnOK
  <2>2. /\ dir' = [dir EXCEPT ![File(s)] = Absent, ![cmd[s].new] = dir[File(s)]]
        /\ reply'[s] = "renamed"
    BY <1>0, <2>1 DEF RenameMove, Answers, TypeOK
  <2>3. dir'[File(s)] = Absent /\ dir'[cmd[s].new] # Absent
    BY <1>0, <2>1, <2>2 DEF Exists, TypeOK
  <2> QED BY <1>1, <1>2, <2>2, <2>3 DEF OwnOK, Told, Exists, WriteSteps
<1> QED BY <1>3, <1>4

LEMMA DeleteRemoveOwn ==
    ASSUME IInv, OwnInv, NEW s \in Sessions, DeleteRemove(s)
    PROVE  ReplyOK(s)' /\ (Own(s)' => OwnOK(s)')
<1>0. TypeOK /\ (Own(s) => OwnOK(s)) /\ File(s) \in Names
  BY CommandType DEF IInv, OwnInv
<1>1. /\ pc[s] = "rmRemove" /\ pc'[s] = "idle" /\ UNCHANGED <<cmd, uses>>
      /\ reply'[s] = (IF Exists(File(s)) THEN "deleted" ELSE "deleteFailed")
      /\ dir'[File(s)] = Absent
  BY <1>0 DEF DeleteRemove, At, Goes, Answers, TypeOK
<1>2. File(s)' = File(s) /\ (Own(s)' <=> Own(s))
  BY <1>1 DEF File, Own, Private
<1> QED BY <1>0, <1>1, <1>2 DEF ReplyOK, OwnOK, Told, Exists, WriteSteps

-----------------------------------------------------------------------------
LEMMA OwnStep == IInv /\ OwnInv /\ [Next]_vars => OwnInv'
<1> SUFFICES ASSUME IInv, OwnInv, [Next]_vars PROVE OwnInv'
  OBVIOUS
<1>1. CASE UNCHANGED vars
  BY <1>1 DEF vars, OwnInv, ReplyOK, Own, Private, OwnOK, Told, Exists, File, All
<1>2. ASSUME NEW t \in Sessions, ClientStep(t) \/ WorkerStep(t) PROVE OwnInv'
  <2>1. ReplyOK(t)' /\ (Own(t)' => OwnOK(t)')
    BY <1>2, QuietOwn, AskOwn, UploadOpenOwn, UploadWriteOwn, UploadCloseOwn, DownloadOpenOwn,
       DownloadReadOwn, RenameMoveOwn, DeleteRemoveOwn DEF ClientStep, WorkerStep
  <2>2. \A s \in Sessions \ {t} : ReplyOK(s)' /\ (Own(s)' => OwnOK(s)')
    BY <1>2, OthersOwn DEF OwnInv
  <2> QED BY <2>1, <2>2 DEF OwnInv
<1> QED BY <1>1, <1>2 DEF Next

(* Nothing locks the folder, yet a command about names that no other       *)
(* session uses ends as its client was told: each handler looks, opens,    *)
(* renames and removes in system calls of their own, and none of the other *)
(* workers' comes between them to such a name, or to the file that it      *)
(* stands for while that is written.                                       *)
THEOREM OwnNamesAreSafe == Spec => []PrivateOutcomes
<1>1. Init => OwnInv
  BY DEF Init, OwnInv, ReplyOK, OwnOK, Told, WriteSteps
<1>2. OwnInv => PrivateOutcomes
  BY DEF OwnInv, Own, OwnOK, Told, PrivateOutcomes
<1> QED BY <1>1, <1>2, OwnStep, InvAlways, PTL DEF Spec
=============================================================================

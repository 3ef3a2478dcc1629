---------------------------- MODULE SharedFolder -----------------------------
(***************************************************************************)
(* Several sessions of one user, each with its own worker thread, on the   *)
(* one folder ../data/<user>.  Nothing locks the folder: a handler checks  *)
(* a name, and then opens, renames or removes it in another system call.   *)
(*                                                                         *)
(* Each system call of a handler on the folder is a step, with the code up *)
(* to the next one.  The messages of a command are those of module Session *)
(* and are left out, up to the acknowledgement of an upload, on which the  *)
(* client and its worker part ways.  A file is its inode, which outlives   *)
(* its name while a worker has it open.                                    *)
(***************************************************************************)
EXTENDS Integers, Sequences, FiniteSets

CONSTANTS
    Sessions,   \* the sessions of the user
    Names,      \* file names
    Chunks,     \* what files are made of, a chunk of the protocol each
    Hole,       \* the zeros before a write past the end of a file
    Absent,     \* no file
    Local,      \* the files that each session may upload, by name
    MaxInodes,  \* the most files, with a name or open, at a time
    InitialDirs,\* the names and their inodes that there may be at first
    InitialData,\* and the content of those inodes
    MaxCommands,\* the most commands of a session
    Sharings    \* the names that each session may use: one of these

Bytes == Chunks \cup {Hole}
Content == Seq(Bytes)
Inodes == 1..MaxInodes

(* The directories in which no file has two names: nothing makes links.    *)
OneNameEach ==
    {d \in [Names -> Inodes \cup {Absent}] :
        \A m, n \in Names : d[m] = d[n] /\ d[m] # Absent => m = n}

ASSUME SharedAssumption ==
    /\ Names # {}
    /\ MaxInodes \in Nat /\ MaxCommands \in Nat
    /\ Absent \notin Inodes /\ Absent \notin Content
    /\ Local \in [Sessions -> [Names -> Seq(Chunks)]]
    /\ InitialDirs \subseteq OneNameEach
    /\ InitialData \in [Inodes -> Seq(Chunks)]
    /\ Sharings \subseteq [Sessions -> SUBSET Names]

VARIABLES
    dir,        \* ../data/<user>: the inode of each name
    data,       \* the content of each inode
    pc,         \* the next system call of each worker
    cmd,        \* the command in progress, or the last one
    inode,      \* the file that the worker has open
    wrote,      \* chunks written to the output stream of an upload
    flushed,    \* those of them that have reached the file
    size,       \* file_size of a download
    copy,       \* what the download has sent so far
    seen,       \* the names found by the listing
    unseen,     \* the names that the iteration has not come to
    reply,      \* what the client was told
    asked,      \* the number of commands of each session so far
    server,     \* the server process
    uses        \* the names that each session uses

vars == <<dir, data, pc, cmd, inode, wrote, flushed, size, copy, seen, unseen,
          reply, asked, server, uses>>

-----------------------------------------------------------------------------
Commands ==
    [op : {"upload", "download", "list", "rename", "delete"},
     file : Names, new : Names]

Steps ==
    {"idle", "gone",        \* between commands; the client has gone
     "astray",              \* client and worker have parted ways
     "upload", "upCreate", "upOpen", "upWrite", "upClose", "upLost",
     "upTaken", "upLate",   \* upload_file has answered that the name is taken
     "download", "dlSize", "dlOpen", "dlRead",
     "rename", "rnTo", "rnMove",
     "delete", "rmRemove",
     "list"}
Replies ==
    {"none", "exists", "uploaded", "notOnCloud", "downloaded",
     "renamed", "renameFailed", "renameMissing",
     "deleted", "deleteFailed", "deleteMissing", "listed"}

(* The type of every variable.                                             *)
TypeOK ==
    /\ dir \in [Names -> Inodes \cup {Absent}]
    /\ data \in [Inodes -> Content]
    /\ pc \in [Sessions -> Steps]
    /\ cmd \in [Sessions -> Commands]
    /\ inode \in [Sessions -> Inodes \cup {Absent}]
    /\ wrote \in [Sessions -> Nat]
    /\ flushed \in [Sessions -> Nat]
    /\ size \in [Sessions -> Nat]
    /\ copy \in [Sessions -> Content]
    /\ seen \in [Sessions -> SUBSET Names]
    /\ unseen \in [Sessions -> SUBSET Names]
    /\ reply \in [Sessions -> Replies]
    /\ asked \in [Sessions -> Nat]
    /\ server \in {"up", "aborted"}
    /\ uses \in Sharings

(* The sessions have just logged in.                                       *)
Init ==
    /\ dir \in InitialDirs
    /\ data = InitialData
    /\ pc = [s \in Sessions |-> "idle"]
    /\ LET n == CHOOSE n \in Names : TRUE IN
          cmd = [s \in Sessions |-> [op |-> "list", file |-> n, new |-> n]]
    /\ inode = [s \in Sessions |-> Absent]
    /\ wrote = [s \in Sessions |-> 0]
    /\ flushed = [s \in Sessions |-> 0]
    /\ size = [s \in Sessions |-> 0]
    /\ copy = [s \in Sessions |-> <<>>]
    /\ seen = [s \in Sessions |-> {}]
    /\ unseen = [s \in Sessions |-> {}]
    /\ reply = [s \in Sessions |-> "none"]
    /\ asked = [s \in Sessions |-> 0]
    /\ server = "up"
    /\ uses \in Sharings

-----------------------------------------------------------------------------
(* The file system.                                                        *)

Exists(n) == dir[n] # Absent

Free == Inodes \ ({dir[n] : n \in Names} \cup {inode[s] : s \in Sessions})

(* One stands for all of them.                                             *)
NextFree == {i \in Free : \A j \in Free : i <= j}

(* A write of those chunks after the first k, wherever the file ends now.  *)
WrittenAt(content, k, chunks) ==
    [i \in 1..(IF k + Len(chunks) > Len(content) THEN k + Len(chunks) ELSE Len(content)) |->
        IF i > k /\ i <= k + Len(chunks) THEN chunks[i - k]
        ELSE IF i <= Len(content) THEN content[i]
        ELSE Hole]

(* The output stream of s is emptied after k chunks.                       *)
Emptied(s, k) ==
    data' = [data EXCEPT ![inode[s]] =
                WrittenAt(@, flushed[s],
                          SubSeq(Local[s][cmd[s].file], flushed[s] + 1, k))]

-----------------------------------------------------------------------------
File(s) == cmd[s].file
All(s) == Local[s][File(s)]

At(s, step) == server = "up" /\ pc[s] = step

Goes(s, step) == pc' = [pc EXCEPT ![s] = step]

(* The last call of a command, and the answer.                             *)
Answers(s, outcome) ==
    /\ Goes(s, "idle")
    /\ reply' = [reply EXCEPT ![s] = outcome]

(* A new login after the client of a session has gone.                     *)
Return(s) ==
    /\ At(s, "gone") \/ At(s, "astray")
    /\ Goes(s, "idle")
    /\ UNCHANGED <<dir, data, cmd, inode, wrote, flushed, size, copy, seen, unseen,
                   reply, asked, server, uses>>

(* The next command.  A listing is about no name and keeps the last one.   *)
Ask(s) ==
    /\ At(s, "idle")
    /\ asked[s] < MaxCommands
    /\ asked' = [asked EXCEPT ![s] = @ + 1]
    /\ \E c \in Commands :
          /\ IF c.op = "list" THEN c.file = File(s)
                              ELSE c.file \in uses[s] /\ c.new \in uses[s]
          /\ c.op # "rename" => c.new = c.file
          /\ cmd' = [cmd EXCEPT ![s] = c]
          /\ Goes(s, c.op)
    /\ reply' = [reply EXCEPT ![s] = "none"]
    /\ copy' = [copy EXCEPT ![s] = <<>>]
    /\ seen' = [seen EXCEPT ![s] = {}]
    /\ unseen' = [unseen EXCEPT ![s] = IF cmd'[s].op = "list" THEN Names ELSE {}]
    /\ UNCHANGED <<dir, data, inode, wrote, flushed, size, server, uses>>

-----------------------------------------------------------------------------
(* upload_file tells the client whether the name is taken, and goes on to  *)
(* create() in both cases.                                                 *)
UploadCheck(s) ==
    /\ At(s, "upload")
    /\ Goes(s, IF Exists(File(s)) THEN "upTaken" ELSE "upCreate")
    /\ UNCHANGED <<dir, data, cmd, inode, wrote, flushed, size, copy, seen, unseen,
                   reply, asked, server, uses>>

(* A variant: the failure of create() is answered with a code of its own.  *)
UploadCreateAnswered(s) ==
    /\ At(s, "upCreate")
    /\ IF Exists(File(s)) THEN Answers(s, "notCreated")
                          ELSE Goes(s, "upOpen") /\ UNCHANGED reply
    /\ UNCHANGED <<dir, data, cmd, inode, wrote, flushed, size, copy, seen, unseen,
                   asked, server, uses>>

(* create() looks again.  It throws when another session has made the name *)
(* meanwhile, and nothing will answer the chunks that the client sends.    *)
UploadCreate(s) ==
    /\ At(s, "upCreate")
    /\ Goes(s, IF Exists(File(s)) THEN "astray" ELSE "upOpen")
    /\ UNCHANGED <<dir, data, cmd, inode, wrote, flushed, size, copy, seen, unseen,
                   reply, asked, server, uses>>

(* It throws, as it should, for the name that was taken; but that name may *)
(* be gone.                                                                *)
UploadTaken(s) ==
    /\ At(s, "upTaken")
    /\ IF Exists(File(s)) THEN Answers(s, "exists")
                          ELSE Goes(s, "upLate") /\ UNCHANGED reply
    /\ UNCHANGED <<dir, data, cmd, inode, wrote, flushed, size, copy, seen, unseen,
                   asked, server, uses>>

(* open with O_CREAT and O_TRUNC.  A worker whose client was told that the *)
(* name is taken waits for chunks that never come.                         *)
UploadOpen(s) ==
    /\ At(s, "upOpen") \/ At(s, "upLate")
    /\ \E i \in IF Exists(File(s)) THEN {dir[File(s)]} ELSE NextFree :
          /\ dir' = [dir EXCEPT ![File(s)] = i]
          /\ data' = [data EXCEPT ![i] = <<>>]
          /\ IF pc[s] = "upOpen"
             THEN Goes(s, "upWrite") /\ inode' = [inode EXCEPT ![s] = i]
             ELSE Goes(s, "astray") /\ UNCHANGED inode
    /\ UNCHANGED <<cmd, wrote, flushed, size, copy, seen, unseen, reply, asked, server, uses>>

(* A variant: the last chunk of the file is not read.                      *)
UploadWriteFullOnly(s) ==
    /\ At(s, "upWrite")
    /\ wrote[s] + 1 < Len(All(s))
    /\ wrote' = [wrote EXCEPT ![s] = @ + 1]
    /\ UNCHANGED <<dir, data, pc, cmd, inode, flushed, size, copy, seen, unseen,
                   reply, asked, server, uses>>

(* writeChunk: the stream keeps the chunk, or empties its buffer.          *)
UploadWrite(s) ==
    /\ At(s, "upWrite")
    /\ wrote[s] < Len(All(s))
    /\ wrote' = [wrote EXCEPT ![s] = @ + 1]
    /\ \/ Emptied(s, wrote[s] + 1) /\ flushed' = [flushed EXCEPT ![s] = wrote[s] + 1]
       \/ UNCHANGED <<flushed, data>>
    /\ UNCHANGED <<dir, pc, cmd, inode, size, copy, seen, unseen, reply, asked, server, uses>>

(* A variant: the verdict does not wait for the last chunk.                *)
UploadVerdictEarly(s) ==
    /\ At(s, "upWrite")
    /\ Goes(s, "upClose")
    /\ reply' = [reply EXCEPT ![s] = "uploaded"]
    /\ UNCHANGED <<dir, data, cmd, inode, wrote, flushed, size, copy, seen, unseen,
                   asked, server, uses>>

(* The last acknowledgement, before the stream is closed.                  *)
UploadVerdict(s) ==
    /\ At(s, "upWrite")
    /\ wrote[s] = Len(All(s))
    /\ Goes(s, "upClose")
    /\ reply' = [reply EXCEPT ![s] = "uploaded"]
    /\ UNCHANGED <<dir, data, cmd, inode, wrote, flushed, size, copy, seen, unseen,
                   asked, server, uses>>

(* The client goes before its last chunk is read.                          *)
UploadBreaks(s) ==
    /\ At(s, "upWrite")
    /\ Goes(s, "upLost")
    /\ UNCHANGED <<dir, data, cmd, inode, wrote, flushed, size, copy, seen, unseen,
                   reply, asked, server, uses>>

(* File::~File empties the buffer and closes the file.                     *)
UploadClose(s) ==
    /\ At(s, "upClose") \/ At(s, "upLost")
    /\ Emptied(s, wrote[s])
    /\ wrote' = [wrote EXCEPT ![s] = 0]
    /\ flushed' = [flushed EXCEPT ![s] = 0]
    /\ Goes(s, IF pc[s] = "upLost" THEN "gone" ELSE "idle")
    /\ inode' = [inode EXCEPT ![s] = Absent]
    /\ UNCHANGED <<dir, cmd, size, copy, seen, unseen, reply, asked, server, uses>>

-----------------------------------------------------------------------------
(* download_file.  A name that is not there when it is looked for, or when *)
(* its size is asked for, leaves the size unset: the answer is the end of  *)
(* it, or the reading of the chunks throws and ends the process.           *)
DownloadMissing(s) ==
    /\ At(s, "download") \/ At(s, "dlSize")
    /\ ~Exists(File(s))
    /\ \/ Answers(s, "notOnCloud") /\ UNCHANGED server
       \/ server' = "aborted" /\ UNCHANGED <<pc, reply>>
    /\ UNCHANGED <<dir, data, cmd, inode, wrote, flushed, size, copy, seen, unseen, asked, uses>>

DownloadCheck(s) ==
    /\ At(s, "download")
    /\ Exists(File(s))
    /\ Goes(s, "dlSize")
    /\ UNCHANGED <<dir, data, cmd, inode, wrote, flushed, size, copy, seen, unseen,
                   reply, asked, server, uses>>

DownloadSize(s) ==
    /\ At(s, "dlSize")
    /\ Exists(File(s))
    /\ size' = [size EXCEPT ![s] = Len(data[dir[File(s)]])]
    /\ Goes(s, "dlOpen")
    /\ UNCHANGED <<dir, data, cmd, inode, wrote, flushed, copy, seen, unseen,
                   reply, asked, server, uses>>

(* An empty file is refused.  One that is gone by now is refused too, but  *)
(* the size is set, and the reading of the chunks throws.                  *)
DownloadOpen(s) ==
    /\ At(s, "dlOpen")
    /\ \/ /\ size[s] = 0
          /\ Answers(s, "notOnCloud")
          /\ UNCHANGED <<inode, server>>
       \/ /\ size[s] > 0 /\ ~Exists(File(s))
          /\ server' = "aborted"
          /\ UNCHANGED <<pc, reply, inode>>
       \/ /\ size[s] > 0 /\ Exists(File(s))
          /\ inode' = [inode EXCEPT ![s] = dir[File(s)]]
          /\ Goes(s, "dlRead")
          /\ UNCHANGED <<reply, server>>
    /\ UNCHANGED <<dir, data, cmd, wrote, flushed, size, copy, seen, unseen, asked, uses>>

(* readChunk: the input stream reads ahead as far as its buffer goes; past *)
(* the end of a file that has become shorter it throws.                    *)
DownloadRead(s) ==
    LET content == data[inode[s]]
        got == Len(copy[s])
    IN
    /\ At(s, "dlRead")
    /\ \/ \E k \in got + 1..size[s] :
             /\ k <= Len(content)
             /\ copy' = [copy EXCEPT ![s] = @ \o SubSeq(content, got + 1, k)]
             /\ IF k = size[s]
                THEN /\ Answers(s, "downloaded")
                     /\ inode' = [inode EXCEPT ![s] = Absent]
                     /\ size' = [size EXCEPT ![s] = 0]
                ELSE UNCHANGED <<pc, reply, inode, size>>
             /\ UNCHANGED server
       \/ /\ Len(content) <= got
          /\ server' = "aborted"
          /\ UNCHANGED <<pc, reply, inode, copy, size>>
    /\ UNCHANGED <<dir, data, cmd, wrote, flushed, seen, unseen, asked, uses>>

-----------------------------------------------------------------------------
(* rename_file: the old name, the new one, and rename(2), which replaces   *)
(* a file that has got the new name since.                                 *)
RenameFrom(s) ==
    /\ At(s, "rename")
    /\ IF Exists(File(s)) THEN Goes(s, "rnTo") /\ UNCHANGED reply
                          ELSE Answers(s, "renameMissing")
    /\ UNCHANGED <<dir, data, cmd, inode, wrote, flushed, size, copy, seen, unseen,
                   asked, server, uses>>

(* A variant: the new name is not looked for.                              *)
RenameToUnchecked(s) ==
    /\ At(s, "rnTo")
    /\ Goes(s, "rnMove")
    /\ UNCHANGED <<dir, data, cmd, inode, wrote, flushed, size, copy, seen, unseen,
                   reply, asked, server, uses>>

RenameTo(s) ==
    /\ At(s, "rnTo")
    /\ IF Exists(cmd[s].new) THEN Answers(s, "renameFailed")
                             ELSE Goes(s, "rnMove") /\ UNCHANGED reply
    /\ UNCHANGED <<dir, data, cmd, inode, wrote, flushed, size, copy, seen, unseen,
                   asked, server, uses>>

RenameMove(s) ==
    /\ At(s, "rnMove")
    /\ IF Exists(File(s))
       THEN /\ dir' = [dir EXCEPT ![File(s)] = Absent, ![cmd[s].new] = dir[File(s)]]
            /\ Answers(s, "renamed")
       ELSE UNCHANGED dir /\ Answers(s, "renameFailed")
    /\ UNCHANGED <<data, cmd, inode, wrote, flushed, size, copy, seen, unseen,
                   asked, server, uses>>

(* delete_file: the name, and remove(3).                                   *)
DeleteCheck(s) ==
    /\ At(s, "delete")
    /\ IF Exists(File(s)) THEN Goes(s, "rmRemove") /\ UNCHANGED reply
                          ELSE Answers(s, "deleteMissing")
    /\ UNCHANGED <<dir, data, cmd, inode, wrote, flushed, size, copy, seen, unseen,
                   asked, server, uses>>

DeleteRemove(s) ==
    /\ At(s, "rmRemove")
    /\ Answers(s, IF Exists(File(s)) THEN "deleted" ELSE "deleteFailed")
    /\ dir' = [dir EXCEPT ![File(s)] = Absent]
    /\ UNCHANGED <<data, cmd, inode, wrote, flushed, size, copy, seen, unseen,
                   asked, server, uses>>

(* list_files: directory_iterator comes to the names one by one, and finds *)
(* each of them there or not when it does.                                 *)
ListLook(s) ==
    /\ At(s, "list")
    /\ \E n \in unseen[s] :
          /\ unseen' = [unseen EXCEPT ![s] = @ \ {n}]
          /\ seen' = [seen EXCEPT ![s] = IF Exists(n) THEN @ \cup {n} ELSE @]
    /\ UNCHANGED <<dir, data, pc, cmd, inode, wrote, flushed, size, copy,
                   reply, asked, server, uses>>

ListEnd(s) ==
    /\ At(s, "list")
    /\ unseen[s] = {}
    /\ Answers(s, "listed")
    /\ UNCHANGED <<dir, data, cmd, inode, wrote, flushed, size, copy, seen, unseen,
                   asked, server, uses>>

-----------------------------------------------------------------------------
(* What the worker does on its own; a client that is there goes on sending.*)
WorkerStep(s) ==
    \/ UploadCheck(s) \/ UploadCreate(s) \/ UploadTaken(s) \/ UploadOpen(s)
    \/ UploadWrite(s) \/ UploadVerdict(s) \/ UploadClose(s)
    \/ DownloadMissing(s) \/ DownloadCheck(s) \/ DownloadSize(s)
    \/ DownloadOpen(s) \/ DownloadRead(s)
    \/ RenameFrom(s) \/ RenameTo(s) \/ RenameMove(s)
    \/ DeleteCheck(s) \/ DeleteRemove(s)
    \/ ListLook(s) \/ ListEnd(s)

ClientStep(s) == Return(s) \/ Ask(s) \/ UploadBreaks(s)

Next == \E s \in Sessions : ClientStep(s) \/ WorkerStep(s)

(* Every thread gets its turn; nothing obliges a client to ask, to go or   *)
(* to return.                                                              *)
Spec == Init /\ [][Next]_vars /\ \A s \in Sessions : WF_vars(WorkerStep(s))

-----------------------------------------------------------------------------
(* What the folder looks like to the sessions: an upload in progress has   *)
(* what was written, though some of it is in the worker's memory.          *)

Uploading(s) == server = "up" /\ pc[s] \in {"upWrite", "upClose", "upLost"}

Uploader(n) == {s \in Sessions : Uploading(s) /\ File(s) = n}

CloudFile(n) ==
    IF Uploader(n) # {}
    THEN LET s == CHOOSE s \in Uploader(n) : TRUE IN SubSeq(All(s), 1, wrote[s])
    ELSE IF Exists(n) THEN data[dir[n]] ELSE Absent

CloudState(s) ==
    CASE pc[s] \in {"idle", "upClose"} -> "idle"
      [] pc[s] \in {"gone", "upLost", "astray"} -> "gone"
      [] pc[s] = "upWrite" -> "uploading"
      [] OTHER -> "asked"

(* A download counts when all of it has been sent.                         *)
CloudCopy(s) == IF pc[s] = "dlRead" THEN <<>> ELSE copy[s]

folder == [n \in Names |-> CloudFile(n)]
state == [s \in Sessions |-> CloudState(s)]
copies == [s \in Sessions |-> CloudCopy(s)]
up == server = "up"

Cloud == INSTANCE CloudFolder WITH Chunks <- Bytes, copy <- copies

(* No name is used by two sessions.                                        *)
Apart == \A s, t \in Sessions : s # t => uses[s] \cap uses[t] = {}

(* Sessions that use different names of the same folder, whatever their    *)
(* workers do at the same time, are served as module CloudFolder says.     *)
Implements ==
    /\ Apart => Cloud!CloudInit
    /\ [][Apart => [Cloud!CloudNext]_(Cloud!cloudVars)]_vars

(* A name that one session alone uses.                                     *)
Private(s, n) == \A t \in Sessions : n \in uses[t] => t = s

(* Whatever happens to other names, a command about names that are the     *)
(* session's own ends as its client was told: the two never part ways, an  *)
(* uploaded file is there whole, and a rename or a removal took place or   *)
(* did not.  (The content of a download is another matter: the file may    *)
(* have had a shared name, and another worker may still write to it.)      *)
PrivateOutcomes ==
    \A s \in Sessions :
        LET from == File(s)  to == cmd[s].new IN
        server = "up" /\ Private(s, from) /\ Private(s, to) =>
            /\ pc[s] # "astray"
            /\ pc[s] = "idle" =>
                  /\ reply[s] = "uploaded" => Exists(from) /\ data[dir[from]] = All(s)
                  /\ reply[s] = "downloaded" => Exists(from)
                  /\ reply[s] = "renamed" => ~Exists(from) /\ Exists(to)
                  /\ reply[s] \in {"renameMissing", "deleted", "deleteMissing"} => ~Exists(from)
                  /\ reply[s] = "renameFailed" => Exists(from) /\ Exists(to)
                  /\ reply[s] = "exists" => Exists(from)
                  /\ reply[s] # "deleteFailed"

(* Every command comes to an end, unless the process does, or it uploads a *)
(* name that another session uses too.                                     *)
Served ==
    \A s \in Sessions :
        pc[s] \notin {"idle", "gone"} /\ (cmd[s].op = "upload" => Private(s, File(s)))
            ~> pc[s] \in {"idle", "gone"} \/ server = "aborted"

-----------------------------------------------------------------------------
(* Claims of the repository that the code does not keep.                   *)

(* "in case of error" there is an answer (worker.cpp:441): an upload that  *)
(* the worker has begun comes to an end, whoever else is in the folder.    *)
UploadsEnd ==
    \A s \in Sessions :
        pc[s] \in {"upCreate", "upOpen", "upWrite"}
            ~> pc[s] \in {"idle", "gone"} \/ server = "aborted"

=============================================================================

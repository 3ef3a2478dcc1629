----------------------------- MODULE CloudFolder -----------------------------
(***************************************************************************)
(* What the server promises the sessions of one user about the files of    *)
(* that user, when no two sessions use the same name: an upload makes its  *)
(* name and then only grows, every other command happens at one moment,    *)
(* and a listing looks at each name once.  Module SharedFolder is shown to *)
(* keep the promise.                                                       *)
(***************************************************************************)
EXTENDS Integers, Sequences, FiniteSets

CONSTANTS
    Sessions,   \* the sessions of one user
    Names,      \* file names
    Chunks,     \* what files are made of
    Absent,     \* no file of that name
    Local       \* the files that each session may upload, by name

Content == Seq(Chunks)

VARIABLES
    folder,     \* the files of the user, by name
    cmd,        \* the command in progress of each session, or its last one
    state,      \* how far each session is with it
    reply,      \* the outcome of the last command
    copy,       \* what the last download brought
    seen,       \* what the listing has found so far
    unseen,     \* the names it has not looked for yet
    up          \* the server has not ended

cloudVars == <<folder, cmd, state, reply, copy, seen, unseen, up>>

(* rename has two names, the others one; that of a listing means nothing.  *)
Commands ==
    [op : {"upload", "download", "list", "rename", "delete"},
     file : Names, new : Names]

CloudInit ==
    /\ folder \in [Names -> Content \cup {Absent}]
    /\ cmd \in [Sessions -> Commands]
    /\ state = [s \in Sessions |-> "idle"]
    /\ reply = [s \in Sessions |-> "none"]
    /\ copy = [s \in Sessions |-> <<>>]
    /\ seen = [s \in Sessions |-> {}]
    /\ unseen = [s \in Sessions |-> {}]
    /\ up = TRUE

Stored(n) == folder[n] # Absent
Longer(t, s) == Len(s) < Len(t) /\ s = SubSeq(t, 1, Len(s))

-----------------------------------------------------------------------------
(* A new login after the client of a session has gone.                     *)
Return(s) ==
    /\ state[s] = "gone"
    /\ state' = [state EXCEPT ![s] = "idle"]
    /\ UNCHANGED <<folder, cmd, reply, copy, seen, unseen, up>>

Ask(s) ==
    /\ state[s] = "idle"
    /\ \E c \in Commands : cmd' = [cmd EXCEPT ![s] = c]
    /\ state' = [state EXCEPT ![s] = "asked"]
    /\ reply' = [reply EXCEPT ![s] = "none"]
    /\ copy' = [copy EXCEPT ![s] = <<>>]
    /\ seen' = [seen EXCEPT ![s] = {}]
    /\ unseen' = [unseen EXCEPT ![s] = IF cmd'[s].op = "list" THEN Names ELSE {}]
    /\ UNCHANGED <<folder, up>>

Asked(s, op) == state[s] = "asked" /\ cmd[s].op = op

Answer(s, outcome) ==
    /\ state' = [state EXCEPT ![s] = "idle"]
    /\ reply' = [reply EXCEPT ![s] = outcome]

RefuseUpload(s) ==
    /\ Asked(s, "upload")
    /\ Stored(cmd[s].file)
    /\ Answer(s, "exists")
    /\ UNCHANGED <<folder, cmd, copy, seen, unseen, up>>

StartUpload(s) ==
    /\ Asked(s, "upload")
    /\ ~Stored(cmd[s].file)
    /\ folder' = [folder EXCEPT ![cmd[s].file] = <<>>]
    /\ state' = [state EXCEPT ![s] = "uploading"]
    /\ UNCHANGED <<cmd, reply, copy, seen, unseen, up>>

Grow(s) ==
    /\ state[s] = "uploading"
    /\ LET n == cmd[s].file
           all == Local[s][n]
       IN \E k \in 1..Len(all) :
             /\ Longer(SubSeq(all, 1, k), folder[n])
             /\ folder' = [folder EXCEPT ![n] = SubSeq(all, 1, k)]
    /\ UNCHANGED <<cmd, state, reply, copy, seen, unseen, up>>

EndUpload(s) ==
    /\ state[s] = "uploading"
    /\ folder[cmd[s].file] = Local[s][cmd[s].file]
    /\ Answer(s, "uploaded")
    /\ UNCHANGED <<folder, cmd, copy, seen, unseen, up>>

(* The client goes in the middle of an upload: what has come stays there.  *)
BreakUpload(s) ==
    /\ state[s] = "uploading"
    /\ state' = [state EXCEPT ![s] = "gone"]
    /\ UNCHANGED <<folder, cmd, reply, copy, seen, unseen, up>>

(* Nothing to download: no file, or an empty one.                          *)
RefuseDownload(s) ==
    /\ Asked(s, "download")
    /\ folder[cmd[s].file] \in {Absent, <<>>}
    /\ Answer(s, "notOnCloud")
    /\ UNCHANGED <<folder, cmd, copy, seen, unseen, up>>

Download(s) ==
    /\ Asked(s, "download")
    /\ folder[cmd[s].file] \notin {Absent, <<>>}
    /\ copy' = [copy EXCEPT ![s] = folder[cmd[s].file]]
    /\ Answer(s, "downloaded")
    /\ UNCHANGED <<folder, cmd, seen, unseen, up>>

(* The same for the download of a missing name, the one command that may   *)
(* end the server.  The file that a session uploaded last is cut short     *)
(* when it was not closed yet.                                             *)
Crash ==
    /\ \E s \in Sessions : Asked(s, "download") /\ ~Stored(cmd[s].file)
    /\ up' = FALSE
    /\ folder' \in [Names -> Content \cup {Absent}]
    /\ \A n \in Names : folder'[n] # folder[n] =>
          /\ Longer(folder[n], folder'[n])
          /\ \E s \in Sessions : cmd[s].op = "upload" /\ cmd[s].file = n
    /\ UNCHANGED <<cmd, state, reply, copy, seen, unseen>>

Rename(s) ==
    LET from == cmd[s].file  to == cmd[s].new IN
    /\ Asked(s, "rename")
    /\ \/ /\ ~Stored(from)
          /\ Answer(s, "renameMissing")
          /\ UNCHANGED folder
       \/ /\ Stored(from) /\ Stored(to)
          /\ Answer(s, "renameFailed")
          /\ UNCHANGED folder
       \/ /\ Stored(from) /\ ~Stored(to)
          /\ Answer(s, "renamed")
          /\ folder' = [folder EXCEPT ![from] = Absent, ![to] = folder[from]]
    /\ UNCHANGED <<cmd, copy, seen, unseen, up>>

Delete(s) ==
    /\ Asked(s, "delete")
    /\ Answer(s, IF Stored(cmd[s].file) THEN "deleted" ELSE "deleteMissing")
    /\ folder' = [folder EXCEPT ![cmd[s].file] = Absent]
    /\ UNCHANGED <<cmd, copy, seen, unseen, up>>

Look(s) ==
    /\ Asked(s, "list")
    /\ \E n \in unseen[s] :
          /\ unseen' = [unseen EXCEPT ![s] = @ \ {n}]
          /\ seen' = [seen EXCEPT ![s] = IF Stored(n) THEN @ \cup {n} ELSE @]
    /\ UNCHANGED <<folder, cmd, state, reply, copy, up>>

EndList(s) ==
    /\ Asked(s, "list")
    /\ unseen[s] = {}
    /\ Answer(s, "listed")
    /\ UNCHANGED <<folder, cmd, copy, seen, unseen, up>>

CloudNext ==
    /\ up
    /\ \/ Crash
       \/ \E s \in Sessions :
             \/ Return(s) \/ Ask(s)
             \/ RefuseUpload(s) \/ StartUpload(s) \/ Grow(s)
             \/ EndUpload(s) \/ BreakUpload(s)
             \/ RefuseDownload(s) \/ Download(s)
             \/ Rename(s) \/ Delete(s)
             \/ Look(s) \/ EndList(s)

CloudSpec == CloudInit /\ [][CloudNext]_cloudVars
=============================================================================

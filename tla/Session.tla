------------------------------ MODULE Session -------------------------------
(***************************************************************************)
(* One logged-in client (Client::start and its six commands) and the       *)
(* worker thread that serves it (Worker::start and its six handlers), over *)
(* the two byte streams of their connection, from the end of the login to  *)
(* the end of both.                                                        *)
(*                                                                         *)
(* Each blocking call (send, recv) of either side, together with the code  *)
(* up to the next one, is a step.  The user decides what to ask and may    *)
(* stop the client at any moment; the server process may be stopped at any *)
(* moment.  No other session touches the user's folder.                    *)
(***************************************************************************)
EXTENDS Wire

CONSTANTS
    Absent,         \* no file of that name; no file open
    Junk,           \* what is printed for a name when a listing is garbled
    Local,          \* the user's own files, by name; <<>> is an empty one
    InitialFolders, \* the contents the folder may have when the session starts
    Faults          \* what the environment may do wrong, from FaultKinds

FaultKinds ==
    {"clientKilled",    \* the client process ends at any moment: a signal, an
                        \* exception (its disk is full)
     "serverKilled",    \* so does the server: a signal, or another worker's exit
     "noFolder",        \* ../data/<user> may be missing while it has no file
     "noDownloads",     \* ../downloads may be missing
     "diskFull",        \* a write to the user's folder fails
     "downloadsFull",   \* so does one to ../downloads
     "listFails",       \* the user's folder is there but cannot be read
     "syscallFails",    \* rename and remove fail
     "cryptoFails"}     \* a packet cannot be encrypted

ASSUME SessionAssumption ==
    /\ Absent \notin Content
    /\ Junk \notin Names
    /\ Local \in [Names -> Content]
    /\ InitialFolders \subseteq [Names -> Content \cup {Absent}]
    /\ Faults \subseteq FaultKinds

VARIABLES
    c2s,        \* client to worker, in flight
    s2c,        \* worker to client, in flight
    (* the client *)
    cpc,        \* which call of the client blocks
    cS, cR,     \* Client::s_counter and r_counter
    req,        \* the command in progress, or the last one
    cRest,      \* bytes of the file still to be uploaded
    cTodo,      \* bytes still to be downloaded, or to be listed
    cError,     \* error_occured in download_file
    downloads,  \* ../downloads, as the file system holds it
    cBuf,       \* bytes written to the output stream of the download
    shown,      \* the last outcome printed to the user
    listed,     \* the names printed by the last list command
    (* the worker *)
    wpc,        \* which call of the worker blocks
    wS, wR,     \* Worker::s_counter and r_counter
    wFile,      \* the file of the transfer in progress
    wTodo,      \* bytes of it still to be received
    wRest,      \* bytes of it still to be sent
    wNames,     \* the names still to be sent
    wBuf,       \* bytes written to the output stream of the upload
    wError,     \* error_occured in upload_file
    wResult,    \* what upload_file returns
    (* the server *)
    folder,     \* ../data/<user>, as the file system holds it
    server      \* the server process

clientData == <<cS, cR, req, cRest, cTodo, cError, downloads, cBuf, listed>>
clientVars == <<cpc, clientData, shown>>
transfer == <<wFile, wTodo, wRest, wNames, wBuf, wError, wResult>>
workerVars == <<wpc, wS, wR, transfer, folder, server>>
vars == <<c2s, s2c, clientVars, workerVars>>

-----------------------------------------------------------------------------
ClientWaits ==
    {"upAck", "upFinal", "dlAck", "dlChunk", "lsAck", "lsData",
     "rnAck", "rmAck", "loAck"}
ClientStates == ClientWaits \cup {"menu", "upSend", "dlClose", "exited"}
WorkerStates ==
    {"idle", "upCreate", "upChunk", "upAck", "upClose", "dlSend", "lsSend",
     "closed"}
ServerStates == {"up", "exited", "aborted"}
Outcomes ==
    {"none", "invalid", "connectionError",
     "exists", "uploaded", "uploadFailed",
     "notOnCloud", "downloaded", "downloadFailed", "noDownloads",
     "listed", "noFolder",
     "renamed", "renameFailed", "renameMissing",
     "deleted", "deleteFailed", "deleteMissing",
     "loggedOut", "logoutFailed"}

Commands == [op : Requests, args : Seq(Names)]
Counters == -1..MaxCounter

ClientTypeOK ==
    /\ cpc \in ClientStates
    /\ cS \in Counters /\ cR \in Counters
    /\ req \in Commands
    /\ cRest \in Content
    /\ cTodo \in Nat
    /\ cError \in BOOLEAN
    /\ downloads \in [Names -> Content \cup {Absent}]
    /\ cBuf \in Content \cup {Absent}
    /\ shown \in Outcomes
    /\ listed \in SUBSET (Names \cup {Junk})

WorkerTypeOK ==
    /\ wpc \in WorkerStates
    /\ wS \in Counters /\ wR \in Counters
    /\ wFile \in Names \cup {Absent}
    /\ wTodo \in Nat
    /\ wRest \in Content
    /\ wNames \in SUBSET Names
    /\ wBuf \in Content
    /\ wError \in BOOLEAN
    /\ wResult \in {-1, 0, 1}
    /\ folder \in [Names -> Content \cup {Absent}]
    /\ server \in ServerStates

(* The type of every variable.                                             *)
TypeOK == c2s \in Streams /\ s2c \in Streams /\ ClientTypeOK /\ WorkerTypeOK

Init ==
    /\ c2s = EmptyStream /\ s2c = EmptyStream
    /\ cpc = "menu"
    /\ cS = 0 /\ cR = 0
    /\ req = [op |-> "list", args |-> <<>>]
    /\ cRest = <<>> /\ cTodo = 0 /\ cError = FALSE
    /\ downloads = [n \in Names |-> Absent] /\ cBuf = Absent
    /\ shown = "none" /\ listed = {}
    /\ wpc = "idle"
    /\ wS = 0 /\ wR = 0
    /\ wFile = Absent
    /\ wTodo = 0 /\ wRest = <<>> /\ wNames = {}
    /\ wBuf = <<>> /\ wError = FALSE /\ wResult = 0
    /\ folder \in InitialFolders
    /\ server = "up"

ClientOpen == cpc # "exited"
WorkerOpen == server = "up" /\ wpc # "closed"

Shorter(n) == IF n < ChunkSize THEN n ELSE ChunkSize
Stored == {n \in Names : folder[n] # Absent}

(* No file can be made or listed: the folder is missing, and so are all    *)
(* its files.                                                              *)
FolderMissing == "noFolder" \in Faults /\ Stored = {}

(* What sendData may leave in a stream.  A send to a closed socket is      *)
(* lost.  When the encryption fails serialize returns an empty buffer,     *)
(* and the handlers send that: no bytes, without an error.                 *)
AfterSend(st, p, peerOpen) ==
    {IF peerOpen THEN Sent(st, p) ELSE st}
        \cup (IF "cryptoFails" \in Faults THEN {st} ELSE {})

-----------------------------------------------------------------------------
(* The client sends.                                                       *)

(* Back from a command to the menu; the loop of start() ends once the      *)
(* choice was Logout, whatever logout() returned.                          *)
ClientReturns(outcome) ==
    /\ cpc' = IF req'.op = "logout" THEN "exited" ELSE "menu"
    /\ shown' = outcome

(* A variant: the send is not counted.                                     *)
ClientSendsUncounted(p, next) ==
    /\ WorkerOpen
    /\ c2s' = Sent(c2s, p)
    /\ cpc' = next
    /\ UNCHANGED <<cS, shown>>

(* sendData, then incrementCounter, which ends the session at its maximum. *)
(* A send to a closed socket may fail instead.                             *)
ClientSends(p, next) ==
    \/ /\ c2s' \in AfterSend(c2s, p, WorkerOpen)
       /\ cS' = Incremented(cS)
       /\ cpc' = IF cS = MaxCounter THEN "exited" ELSE next
       /\ shown' = "none"
    \/ /\ ~WorkerOpen
       /\ ClientReturns("connectionError")
       /\ UNCHANGED <<c2s, cS>>

Ask(op, args, amount, next) ==
    /\ cpc = "menu"
    /\ req' = [op |-> op, args |-> args]
    /\ ClientSends(Request(op, cS, args, amount), next)
    /\ UNCHANGED <<s2c, cR, cTodo, cError, downloads, cBuf, listed, workerVars>>

Uploadable(f) == Len(Local[f]) # 0 /\ Len(Local[f]) < MaxFileSize

(* upload_file, up to the first acknowledgement.                           *)
AskUpload(f) ==
    /\ Uploadable(f)
    /\ Ask("upload", <<f>>, Len(Local[f]), "upAck")
    /\ cRest' = Local[f]

(* A local file that is missing, empty or too large is refused before      *)
(* anything is sent.                                                       *)
RefuseUpload(f) ==
    /\ cpc = "menu"
    /\ ~Uploadable(f)
    /\ shown' = "invalid"
    /\ UNCHANGED <<c2s, s2c, cpc, clientData, workerVars>>

AskDownload(f) == Ask("download", <<f>>, 0, "dlAck") /\ UNCHANGED cRest
AskList == Ask("list", <<>>, 0, "lsAck") /\ UNCHANGED cRest
AskRename(f, g) == Ask("rename", <<f, g>>, 0, "rnAck") /\ UNCHANGED cRest
AskDelete(f) == Ask("delete", <<f>>, 0, "rmAck") /\ UNCHANGED cRest
AskLogout == Ask("logout", <<>>, 0, "loAck") /\ UNCHANGED cRest

(* One round of the chunk loop of upload_file, or its last chunk.          *)
SendChunk ==
    LET n == Shorter(Len(cRest)) IN
    /\ cpc = "upSend"
    /\ cRest' = SubSeq(cRest, n + 1, Len(cRest))
    /\ UNCHANGED req
    /\ ClientSends(Chunk(cS, SubSeq(cRest, 1, n)),
                   IF cRest' = <<>> THEN "upFinal" ELSE "upSend")
    /\ UNCHANGED <<s2c, cR, cTodo, cError, downloads, cBuf, listed, workerVars>>

-----------------------------------------------------------------------------
(* The client receives.                                                    *)

(* A variant: the last chunk of a download is read like the others.        *)
AwaitedFullChunk ==
    CASE cpc \in {"dlAck", "lsAck"} -> SizedAckSize
      [] cpc = "dlChunk"            -> ChunkPacketSize(ChunkSize)
      [] cpc = "lsData"             -> ListingSize(cTodo)
      [] OTHER                      -> AckSize

(* The size of the buffer that the blocked recv has to fill.               *)
Awaited ==
    CASE cpc \in {"dlAck", "lsAck"} -> SizedAckSize
      [] cpc = "dlChunk"            -> ChunkPacketSize(Shorter(cTodo))
      [] cpc = "lsData"             -> ListingSize(cTodo)
      [] OTHER                      -> AckSize

(* download_file prints its outcome, and leaves through the destructor of  *)
(* its File, at DownloadClose.                                             *)
DownloadLeaves(outcome) == cpc' = "dlClose" /\ shown' = outcome

(* A variant: the loop ends at the first error.                            *)
DownloadStopsAtError(left, failed) ==
    /\ cTodo' = left
    /\ cError' = failed
    /\ IF left > 0 /\ ~failed
       THEN cpc' = "dlChunk" /\ UNCHANGED shown
       ELSE DownloadLeaves(IF failed THEN "downloadFailed" ELSE "downloaded")

(* After a round of the chunk loop of download_file: another round, or the *)
(* verdict.                                                                *)
DownloadGoesOn(left, failed) ==
    /\ cTodo' = left
    /\ cError' = failed
    /\ IF left > 0
       THEN cpc' = "dlChunk" /\ UNCHANGED shown
       ELSE DownloadLeaves(IF failed THEN "downloadFailed" ELSE "downloaded")

(* File::~File empties the buffer of the output stream, if a file is open, *)
(* and an error goes unnoticed.                                            *)
CloseDownload ==
    /\ \/ downloads' = IF cBuf = Absent THEN downloads
                       ELSE [downloads EXCEPT ![req.args[1]] = cBuf]
       \/ "downloadsFull" \in Faults /\ UNCHANGED downloads
    /\ cBuf' = Absent

DownloadClose ==
    /\ cpc = "dlClose"
    /\ CloseDownload
    /\ cpc' = "menu"
    /\ UNCHANGED <<c2s, s2c, cS, cR, req, cRest, cTodo, cError, shown, listed, workerVars>>

(* receiveData or deserialize fails.  Every command gives up, except that  *)
(* the loop over the full chunks of a download notes the error and goes on *)
(* with the next one.                                                      *)
ReplyUnreadable ==
    /\ cpc \in ClientWaits
    /\ Misread(s2c, Awaited, WorkerOpen, s2c')
    /\ UNCHANGED req
    /\ IF cpc = "dlChunk" /\ cTodo >= ChunkSize
       THEN DownloadGoesOn(cTodo - ChunkSize, TRUE)
       ELSE /\ IF cpc = "dlChunk" THEN DownloadLeaves("connectionError")
               ELSE ClientReturns("connectionError")
            /\ UNCHANGED <<cTodo, cError>>
    /\ UNCHANGED <<c2s, cS, cR, cRest, downloads, cBuf, listed, workerVars>>

(* A packet with an unexpected counter, or r_counter at its maximum: the   *)
(* command returns -1, which closes the file of a download, and start()    *)
(* exits.                                                                  *)
ReplyRejected ==
    /\ cpc \in ClientWaits
    /\ \E p \in Whole(s2c, Awaited) : 
          \/ p.counter # cR
          \/ cR = MaxCounter /\ cpc # "lsData"
    /\ s2c' = Drop(s2c, Awaited)
    /\ cpc' = "exited"
    /\ CloseDownload
    /\ UNCHANGED <<c2s, cS, cR, req, cRest, cTodo, cError, shown, listed, workerVars>>

(* A variant: the packet is not counted.                                   *)
AcceptUncounted(state, p) ==
    /\ cpc = state
    /\ p \in Whole(s2c, Awaited)
    /\ p.counter = cR
    /\ s2c' = Drop(s2c, Awaited)
    /\ UNCHANGED <<cR, c2s, cS, req, workerVars>>

(* A packet that is accepted: the right one to the reader, whatever it is. *)
Accept(state, p) ==
    /\ cpc = state
    /\ p \in Whole(s2c, Awaited)
    /\ p.counter = cR
    /\ cR # MaxCounter
    /\ s2c' = Drop(s2c, Awaited)
    /\ cR' = cR + 1
    /\ UNCHANGED <<c2s, cS, req, workerVars>>

ReceiveUploadAck ==
    /\ \E p \in s2c.pkts :
          /\ Accept("upAck", p)
          /\ \E code \in AckCodes(p) :
                IF code = 0
                THEN ClientReturns("exists")
                ELSE cpc' = "upSend" /\ UNCHANGED shown
    /\ UNCHANGED <<cRest, cTodo, cError, downloads, cBuf, listed>>

ReceiveUploadVerdict ==
    /\ \E p \in s2c.pkts :
          /\ Accept("upFinal", p)
          /\ \E code \in AckCodes(p) :
                ClientReturns(IF code = 0 THEN "uploadFailed" ELSE "uploaded")
    /\ UNCHANGED <<cRest, cTodo, cError, downloads, cBuf, listed>>

(* download_file creates ../downloads where it is missing: an error is an  *)
(* exception that ends the client, and if another client has just created  *)
(* it the function returns and leaves the chunks in the stream.  Then it   *)
(* creates the file; if it is there already it reads the chunks and throws *)
(* them away.                                                              *)
ReceiveDownloadAck ==
    LET f == req.args[1]
        new == downloads[f] = Absent
    IN
    /\ \E p \in s2c.pkts :
          /\ Accept("dlAck", p)
          /\ \E code \in AckCodes(p) :
                \/ /\ code # 0
                   /\ ClientReturns("notOnCloud")
                   /\ UNCHANGED <<cTodo, cError, downloads, cBuf>>
                \/ /\ code = 0
                   /\ "noDownloads" \in Faults
                   /\ \/ ClientReturns("noDownloads")
                      \/ cpc' = "exited" /\ UNCHANGED shown
                   /\ UNCHANGED <<cTodo, cError, downloads, cBuf>>
                \/ /\ code = 0
                   /\ \E size \in AckAmounts(p) : DownloadGoesOn(size, ~new)
                   /\ IF new THEN downloads' = [downloads EXCEPT ![f] = <<>>] /\ cBuf' = <<>>
                      ELSE UNCHANGED <<downloads, cBuf>>
    /\ UNCHANGED <<cRest, listed>>

(* A chunk: the output stream keeps it in its buffer, or empties the       *)
(* buffer into the file; a failing write is an exception that nothing      *)
(* catches, and ends the client with the buffer lost.                      *)
ReceiveChunk ==
    /\ \E p \in s2c.pkts :
          /\ Accept("dlChunk", p)
          /\ \/ /\ DownloadGoesOn(cTodo - Shorter(cTodo), cError)
                /\ IF cError THEN UNCHANGED <<downloads, cBuf>>
                   ELSE /\ cBuf' = cBuf \o p.data
                        /\ downloads' \in {downloads, [downloads EXCEPT ![req.args[1]] = cBuf']}
             \/ /\ "downloadsFull" \in Faults /\ ~cError
                /\ cpc' = "exited"
                /\ UNCHANGED <<cTodo, cError, downloads, cBuf, shown>>
    /\ UNCHANGED <<cRest, listed>>

ReceiveListAck ==
    /\ \E p \in s2c.pkts :
          /\ Accept("lsAck", p)
          /\ \E code \in AckCodes(p) :
                IF code = 1
                THEN ClientReturns("noFolder") /\ UNCHANGED cTodo
                ELSE cpc' = "lsData" /\ cTodo' \in AckAmounts(p) /\ UNCHANGED shown
    /\ UNCHANGED <<cRest, cError, downloads, cBuf, listed>>

(* What is printed for a listing of these names.  The buffer has no        *)
(* terminator, so what the allocator left behind it may be printed too: as *)
(* a part of the last name, or after it where a comma comes first.         *)
Printed(names) == {names} \cup {(names \ {n}) \cup {Junk} : n \in Names}

(* list_files prints the names and only then counts the packet.            *)
ReceiveListing ==
    /\ \E p \in Whole(s2c, Awaited) :
          /\ cpc = "lsData"
          /\ p.counter = cR
          /\ listed' \in Printed(p.names)
    /\ s2c' = Drop(s2c, Awaited)
    /\ cR' = Incremented(cR)
    /\ cTodo' = 0
    /\ cpc' = IF cR = MaxCounter THEN "exited" ELSE "menu"
    /\ shown' = "listed"
    /\ UNCHANGED <<c2s, cS, req, cRest, cError, downloads, cBuf, workerVars>>

(* rename_file and delete_file print one of three outcomes, or nothing.    *)
RenameOutcome ==
    [code \in 0..3 |-> CASE code = 0 -> "renamed"
                         [] code = 1 -> "renameFailed"
                         [] code = 2 -> "renameMissing"
                         [] code = 3 -> "none"]
DeleteOutcome ==
    [code \in 0..3 |-> CASE code = 0 -> "deleted"
                         [] code = 1 -> "deleteFailed"
                         [] code = 2 -> "deleteMissing"
                         [] code = 3 -> "none"]

ReceiveRenameAck ==
    /\ \E p \in s2c.pkts :
          /\ Accept("rnAck", p)
          /\ \E code \in AckCodes(p) :
                ClientReturns(RenameOutcome[code])
    /\ UNCHANGED <<cRest, cTodo, cError, downloads, cBuf, listed>>

ReceiveDeleteAck ==
    /\ \E p \in s2c.pkts :
          /\ Accept("rmAck", p)
          /\ \E code \in AckCodes(p) :
                ClientReturns(DeleteOutcome[code])
    /\ UNCHANGED <<cRest, cTodo, cError, downloads, cBuf, listed>>

ReceiveLogoutAck ==
    /\ \E p \in s2c.pkts :
          /\ Accept("loAck", p)
          /\ \E code \in AckCodes(p) :
                ClientReturns(IF code = 0 THEN "loggedOut" ELSE "logoutFailed")
    /\ UNCHANGED <<cRest, cTodo, cError, downloads, cBuf, listed>>

(* The client process ends: the user interrupts it, or it crashes.         *)
ClientKilled ==
    /\ "clientKilled" \in Faults
    /\ ClientOpen
    /\ cpc' = "exited"
    /\ UNCHANGED <<c2s, s2c, clientData, shown, workerVars>>

-----------------------------------------------------------------------------
(* The worker.                                                             *)

(* A handler returns to start(): -1 ends the whole server process, and the *)
(* command loop ends after a logout.                                       *)
WorkerReturns(result, next) ==
    /\ wpc' = IF result = -1 THEN "closed" ELSE next
    /\ server' = IF result = -1 THEN "exited" ELSE server

(* sendData, then incrementCounter.  A handler whose send fails returns 0, *)
(* and one whose counter was at its maximum returns -1 after the send.     *)
WorkerSends(p, next, failed) ==
    \/ /\ s2c' \in AfterSend(s2c, p, ClientOpen)
       /\ wS' = Incremented(wS)
       /\ WorkerReturns(IF wS = MaxCounter THEN -1 ELSE 1, next)
    \/ /\ ~ClientOpen
       /\ WorkerReturns(0, failed)
       /\ UNCHANGED <<s2c, wS>>

(* The command loop of start(): a whole request with the expected counter. *)
TakeRequest(op, p) ==
    /\ WorkerOpen
    /\ wpc = "idle"
    /\ p \in Whole(c2s, RequestSize)
    /\ p.kind = op
    /\ p.counter = wR
    /\ wR # MaxCounter
    /\ c2s' = Drop(c2s, RequestSize)
    /\ wR' = wR + 1
    /\ UNCHANGED clientVars

(* Anything else makes start() return: no bytes, bytes that do not         *)
(* decrypt, a wrong counter ("Replay attack detected"), the last counter.  *)
RequestRefused ==
    /\ WorkerOpen
    /\ wpc = "idle"
    /\ \/ Misread(c2s, RequestSize, ClientOpen, c2s')
       \/ /\ \E p \in Whole(c2s, RequestSize) : p.counter # wR \/ wR = MaxCounter
          /\ c2s' = Drop(c2s, RequestSize)
    /\ wpc' = "closed"
    /\ UNCHANGED <<s2c, clientVars, wS, wR, transfer, folder, server>>

(* upload_file answers whether the name is free ...                        *)
UploadRequest ==
    /\ \E p \in c2s.pkts :
          /\ TakeRequest("upload", p)
          /\ wFile' = p.args[1]
          /\ wTodo' = p.amount
          /\ WorkerSends(Ack(wS, IF folder[p.args[1]] = Absent THEN 1 ELSE 0),
                         "upCreate", "idle")
    /\ wBuf' = <<>> /\ wError' = FALSE
    /\ UNCHANGED <<wRest, wNames, wResult, folder>>

(* A variant: the file is created over one that is there.                  *)
UploadCreateOver ==
    /\ WorkerOpen
    /\ wpc = "upCreate"
    /\ folder' = [folder EXCEPT ![wFile] = <<>>]
    /\ wpc' = "upChunk"
    /\ UNCHANGED <<c2s, s2c, clientVars, wS, wR, transfer, server>>

(* ... and then creates the file: this is where an upload of an existing   *)
(* name ends, and one that cannot be created, with nothing said about it.  *)
UploadCreate ==
    /\ WorkerOpen
    /\ wpc = "upCreate"
    /\ \/ /\ folder[wFile] = Absent
          /\ folder' = [folder EXCEPT ![wFile] = <<>>]
          /\ wpc' = IF wTodo = 0 THEN "upAck" ELSE "upChunk"
       \/ /\ folder[wFile] # Absent \/ FolderMissing
          /\ wpc' = "idle"
          /\ UNCHANGED folder
    /\ UNCHANGED <<c2s, s2c, clientVars, wS, wR, transfer, server>>

(* upload_file leaves through the destructor of its File, at UploadClose.  *)
UploadLeaves(result) == wpc' = "upClose" /\ wResult' = result

(* A variant: no final acknowledgement.                                    *)
UploadUnacknowledged ==
    /\ wTodo' = wTodo - Shorter(wTodo)
    /\ wpc' = IF wTodo' = 0 THEN "idle" ELSE "upChunk"

(* The next round of the chunk loop, the last chunk, or the verdict.       *)
UploadGoesOn ==
    /\ wTodo' = wTodo - Shorter(wTodo)
    /\ wpc' = IF wTodo' = 0 THEN "upAck" ELSE "upChunk"

(* A chunk: the output stream keeps it in its buffer, or empties the       *)
(* buffer into the file; a failing write is an exception that nothing      *)
(* catches, and ends the process with the buffer lost.                     *)
UploadChunk ==
    /\ WorkerOpen
    /\ wpc = "upChunk"
    /\ \E p \in Whole(c2s, ChunkPacketSize(Shorter(wTodo))) :
          /\ p.counter = wR
          /\ wR # MaxCounter
          /\ wR' = wR + 1
          /\ \/ /\ wBuf' = wBuf \o p.data
                /\ folder' \in {folder, [folder EXCEPT ![wFile] = wBuf']}
                /\ UploadGoesOn
                /\ UNCHANGED server
             \/ /\ "diskFull" \in Faults
                /\ server' = "aborted"
                /\ wpc' = "closed"
                /\ UNCHANGED <<wBuf, folder, wTodo>>
    /\ c2s' = Drop(c2s, ChunkPacketSize(Shorter(wTodo)))
    /\ UNCHANGED <<s2c, clientVars, wS, wFile, wRest, wNames, wError, wResult>>

(* receiveData or deserialize fails: the loop over the full chunks goes on *)
(* with the next one, the last chunk ends the upload.                      *)
UploadUnreadable ==
    /\ WorkerOpen
    /\ wpc = "upChunk"
    /\ Misread(c2s, ChunkPacketSize(Shorter(wTodo)), ClientOpen, c2s')
    /\ wError' = TRUE
    /\ IF wTodo >= ChunkSize
       THEN UploadGoesOn /\ UNCHANGED wResult
       ELSE UploadLeaves(0) /\ UNCHANGED wTodo
    /\ UNCHANGED <<s2c, clientVars, wS, wR, wFile, wRest, wNames, wBuf,
                   folder, server>>

(* An unexpected counter, or r_counter at its maximum.                     *)
UploadRejected ==
    /\ WorkerOpen
    /\ wpc = "upChunk"
    /\ \E p \in Whole(c2s, ChunkPacketSize(Shorter(wTodo))) :
          p.counter # wR \/ wR = MaxCounter
    /\ c2s' = Drop(c2s, ChunkPacketSize(Shorter(wTodo)))
    /\ UploadLeaves(-1)
    /\ UNCHANGED <<s2c, clientVars, wS, wR, wFile, wTodo, wRest, wNames, wBuf,
                   wError, folder, server>>

(* The final acknowledgement is sent before the stream is closed.          *)
UploadVerdict ==
    /\ WorkerOpen
    /\ wpc = "upAck"
    /\ \/ /\ s2c' \in AfterSend(s2c, Ack(wS, IF wError THEN 0 ELSE 1), ClientOpen)
          /\ wS' = Incremented(wS)
          /\ UploadLeaves(IF wS = MaxCounter THEN -1 ELSE 1)
       \/ /\ ~ClientOpen
          /\ UploadLeaves(0)
          /\ UNCHANGED <<s2c, wS>>
    /\ UNCHANGED <<c2s, clientVars, wR, wFile, wTodo, wRest, wNames, wBuf,
                   wError, folder, server>>

(* A variant: the stream is not closed, and what its buffer holds is lost. *)
UploadCloseUnflushed ==
    /\ WorkerOpen
    /\ wpc = "upClose"
    /\ WorkerReturns(wResult, "idle")
    /\ wFile' = Absent /\ wTodo' = 0 /\ wBuf' = <<>> /\ wError' = FALSE
    /\ wResult' = 0
    /\ UNCHANGED <<c2s, s2c, clientVars, wS, wR, wRest, wNames, folder>>

(* File::~File empties the buffer, an error goes unnoticed, and then the   *)
(* handler's result is acted upon.                                         *)
UploadClose ==
    /\ WorkerOpen
    /\ wpc = "upClose"
    /\ \/ folder' = [folder EXCEPT ![wFile] = wBuf]
       \/ "diskFull" \in Faults /\ UNCHANGED folder
    /\ WorkerReturns(wResult, "idle")
    /\ wFile' = Absent /\ wTodo' = 0 /\ wBuf' = <<>> /\ wError' = FALSE
    /\ wResult' = 0
    /\ UNCHANGED <<c2s, s2c, clientVars, wS, wR, wRest, wNames>>

(* download_file answers with the size of the file, or that there is       *)
(* nothing to download, and goes on with the chunks in both cases.  For an *)
(* empty file there are none.  For a missing one the size was never set:   *)
(* either it gives no chunks, or reading one throws, and nothing catches.  *)
DownloadRequest ==
    /\ \E p \in c2s.pkts :
          LET content == folder[p.args[1]] IN
          /\ TakeRequest("download", p)
          /\ IF content \notin {Absent, <<>>}
             THEN /\ WorkerSends(SizedAck(wS, 0, Len(content)), "dlSend", "idle")
                  /\ wRest' = content
             ELSE /\ \/ WorkerSends(SizedAck(wS, 1, 0), "idle", "idle")
                     \/ /\ content = Absent
                        /\ s2c' \in AfterSend(s2c, SizedAck(wS, 1, 0), ClientOpen)
                        /\ wS # MaxCounter
                        /\ wS' = wS + 1
                        /\ wpc' = "closed" /\ server' = "aborted"
                  /\ UNCHANGED wRest
    /\ UNCHANGED <<wFile, wTodo, wNames, wBuf, wError, wResult, folder>>

DownloadChunk ==
    LET n == Shorter(Len(wRest)) IN
    /\ WorkerOpen
    /\ wpc = "dlSend"
    /\ wRest' = SubSeq(wRest, n + 1, Len(wRest))
    /\ WorkerSends(Chunk(wS, SubSeq(wRest, 1, n)),
                   IF wRest' = <<>> THEN "idle" ELSE "dlSend", "idle")
    /\ UNCHANGED <<c2s, clientVars, wR, wFile, wTodo, wNames, wBuf, wError,
                   wResult, folder>>

(* What getFileNames may return: an error of the directory iterator is     *)
(* caught there, and gives the empty string.                               *)
Listable == {Stored} \cup (IF "listFails" \in Faults THEN {{}} ELSE {})

(* list_files answers with the length of the joined names, then sends them.*)
ListRequest ==
    /\ \E p \in c2s.pkts :
          /\ TakeRequest("list", p)
          /\ \/ /\ FolderMissing
                /\ WorkerSends(SizedAck(wS, 1, 0), "idle", "idle")
                /\ UNCHANGED wNames
             \/ \E names \in Listable :
                   /\ WorkerSends(SizedAck(wS, 0, ListLength(names)), "lsSend", "idle")
                   /\ wNames' = names
    /\ UNCHANGED <<wFile, wTodo, wRest, wBuf, wError, wResult, folder>>

SendListing ==
    /\ WorkerOpen
    /\ wpc = "lsSend"
    /\ WorkerSends(Listing(wS, wNames), "idle", "idle")
    /\ wNames' = {}
    /\ UNCHANGED <<c2s, clientVars, wR, wFile, wTodo, wRest, wBuf, wError,
                   wResult, folder>>

(* A variant: the result of rename(2) is not looked at.                    *)
RenameAlwaysDone ==
    /\ \E p \in c2s.pkts :
          LET from == p.args[1]  to == p.args[2] IN
          /\ TakeRequest("rename", p)
          /\ \E code \in 0..2 :
                /\ WorkerSends(Ack(wS, code), "idle", "idle")
                /\ \/ /\ code = 0
                      /\ folder[from] # Absent /\ folder[to] = Absent
                      /\ \/ folder' = [folder EXCEPT ![from] = Absent,
                                                     ![to] = folder[from]]
                         \/ "syscallFails" \in Faults /\ UNCHANGED folder
                   \/ /\ code = 1
                      /\ folder[from] # Absent /\ folder[to] # Absent
                      /\ UNCHANGED folder
                   \/ /\ code = 2
                      /\ folder[from] = Absent
                      /\ UNCHANGED folder
    /\ UNCHANGED transfer

(* rename_file: 0 for done, 1 for a name that is taken or a failed rename, *)
(* 2 for a missing file.  rename_file and delete_file act, then answer.    *)
RenameRequest ==
    /\ \E p \in c2s.pkts :
          LET from == p.args[1]  to == p.args[2] IN
          /\ TakeRequest("rename", p)
          /\ \E code \in 0..2 :
                /\ WorkerSends(Ack(wS, code), "idle", "idle")
                /\ \/ /\ code = 0
                      /\ folder[from] # Absent /\ folder[to] = Absent
                      /\ folder' = [folder EXCEPT ![from] = Absent,
                                                  ![to] = folder[from]]
                   \/ /\ code = 1
                      /\ folder[from] # Absent
                      /\ folder[to] # Absent \/ "syscallFails" \in Faults
                      /\ UNCHANGED folder
                   \/ /\ code = 2
                      /\ folder[from] = Absent
                      /\ UNCHANGED folder
    /\ UNCHANGED transfer

DeleteRequest ==
    /\ \E p \in c2s.pkts :
          LET file == p.args[1] IN
          /\ TakeRequest("delete", p)
          /\ \E code \in 0..2 :
                /\ WorkerSends(Ack(wS, code), "idle", "idle")
                /\ \/ /\ code = 0
                      /\ folder[file] # Absent
                      /\ folder' = [folder EXCEPT ![file] = Absent]
                   \/ /\ code = 1
                      /\ folder[file] # Absent /\ "syscallFails" \in Faults
                      /\ UNCHANGED folder
                   \/ /\ code = 2
                      /\ folder[file] = Absent
                      /\ UNCHANGED folder
    /\ UNCHANGED transfer

(* logout answers; start() leaves its loop and closes the socket.          *)
LogoutRequest ==
    /\ \E p \in c2s.pkts :
          /\ TakeRequest("logout", p)
          /\ WorkerSends(Ack(wS, 0), "closed", "closed")
    /\ UNCHANGED <<transfer, folder>>

(* The server process ends from outside this session: a signal, or the     *)
(* exit() of another worker.                                               *)
ServerKilled ==
    /\ "serverKilled" \in Faults
    /\ server = "up"
    /\ server' = "exited"
    /\ UNCHANGED <<c2s, s2c, clientVars, wpc, wS, wR, transfer, folder>>

-----------------------------------------------------------------------------
User ==
    \/ \E f \in Names : AskUpload(f) \/ RefuseUpload(f)
    \/ \E f \in Names : AskDownload(f) \/ AskDelete(f)
    \/ AskList
    \/ \E f, g \in Names : AskRename(f, g)
    \/ AskLogout

ClientStep ==
    \/ SendChunk
    \/ ReplyUnreadable \/ ReplyRejected
    \/ ReceiveUploadAck \/ ReceiveUploadVerdict
    \/ ReceiveDownloadAck \/ ReceiveChunk \/ DownloadClose
    \/ ReceiveListAck \/ ReceiveListing
    \/ ReceiveRenameAck \/ ReceiveDeleteAck \/ ReceiveLogoutAck

WorkerStep ==
    \/ RequestRefused
    \/ UploadRequest \/ UploadCreate
    \/ UploadChunk \/ UploadUnreadable \/ UploadRejected
    \/ UploadVerdict \/ UploadClose
    \/ DownloadRequest \/ DownloadChunk
    \/ ListRequest \/ SendListing
    \/ RenameRequest \/ DeleteRequest \/ LogoutRequest

Next ==
    \/ User \/ ClientStep \/ WorkerStep
    \/ ClientKilled \/ ServerKilled

(* Both processes keep running while they can; nothing obliges the user to *)
(* ask for anything.                                                       *)
Spec == Init /\ [][Next]_vars /\ WF_vars(ClientStep) /\ WF_vars(WorkerStep)

-----------------------------------------------------------------------------
(* Properties.                                                             *)

AtRest == cpc = "menu" /\ wpc = "idle" /\ server = "up"

Settled == /\ c2s = EmptyStream /\ s2c = EmptyStream
           /\ cS = wR /\ wS = cR

IsPrefixOf(s, t) == Len(s) <= Len(t) /\ s = SubSeq(t, 1, Len(s))

(* A file that was copied to a disk that may be full.                      *)
CopyOf(copy, original, full) ==
    \/ copy = original
    \/ /\ full \in Faults
       /\ copy # Absent /\ original # Absent /\ IsPrefixOf(copy, original)

(* What a command printed is so, on both sides (the messages of the six    *)
(* commands of src/client/Client.cpp): an uploaded file is in the folder   *)
(* byte for byte, a downloaded one is a copy of the one in the folder, and *)
(* every refusal has its reason.  A listing names files that are there and *)
(* misses one at most, which was garbled.  Where a disk is full the copy   *)
(* may be cut short, and a folder that cannot be read is listed as empty.  *)
(* Whatever has put the two sides out of step before, it is so whenever    *)
(* they have nothing left to read and their counters agree.                *)
OutcomesTrue ==
    AtRest /\ Settled =>
        /\ shown = "uploaded" =>
              CopyOf(folder[req.args[1]], Local[req.args[1]], "diskFull")
        /\ shown = "exists" => folder[req.args[1]] # Absent
        /\ shown = "downloaded" =>
              CopyOf(downloads[req.args[1]], folder[req.args[1]], "downloadsFull")
        /\ shown = "notOnCloud" => folder[req.args[1]] \in {Absent, <<>>}
        /\ shown = "listed" =>
              \/ /\ listed \subseteq Stored \cup {Junk}
                 /\ \A m, n \in Stored \ listed : m = n
                 /\ Junk \notin listed => listed = Stored
              \/ "listFails" \in Faults /\ listed \subseteq {Junk}
        /\ shown = "renamed" =>
              folder[req.args[1]] = Absent /\ folder[req.args[2]] # Absent
        /\ shown \in {"deleted", "deleteMissing", "renameMissing"} =>
              folder[req.args[1]] = Absent
        /\ shown \in {"deleteFailed", "renameFailed"} =>
              folder[req.args[1]] # Absent

(* Between two commands nothing is left in either stream and each side     *)
(* expects the counter the other will send next, so the next command       *)
(* starts where the last one ended.                                        *)
InStep == AtRest => Settled

(* Over a connection that neither loses nor repeats bytes, the counter     *)
(* check of either side never finds a wrong counter: "Replay attack        *)
(* detected" is never printed about the honest peer.                       *)
NoFalseReplay ==
    /\ cpc \in ClientWaits => \A p \in Whole(s2c, Awaited) : p.counter = cR
    /\ WorkerOpen /\ wpc = "idle" =>
          \A p \in Whole(c2s, RequestSize) : p.counter = wR
    /\ WorkerOpen /\ wpc = "upChunk" =>
          \A p \in Whole(c2s, ChunkPacketSize(Shorter(wTodo))) : p.counter = wR

(* "Each encryption operation uses a unique value" (README.md:22): no two  *)
(* packets of a direction in flight have the same counter, their counters  *)
(* are ones the sender will not use again, and ones the receiver has not   *)
(* accepted before, whatever was killed, cut short or read out of step.    *)
CountersUsedOnce ==
    /\ Fresh(c2s, Used(wR), Used(cS))
    /\ Fresh(s2c, Used(cR), Used(wS))

(* Never do both sides block in recv, each on bytes that only the other    *)
(* could send.                                                             *)
NoMutualWait ==
    ~ /\ cpc \in ClientWaits /\ ~Readable(s2c, Awaited)
      /\ WorkerOpen
      /\ \/ wpc = "idle" /\ ~Readable(c2s, RequestSize)
         \/ wpc = "upChunk" /\ ~Readable(c2s, ChunkPacketSize(Shorter(wTodo)))

(* The folder changes only as the user asked: a deletion removes the named *)
(* file, a rename moves content without changing it, and an upload creates *)
(* a file and then only appends bytes of the local one to it (the last of  *)
(* them possibly when the user is at the next command already), so it      *)
(* never touches a file that was there before.                             *)
OnlyAsAsked ==
    [][\A n \in Names : folder'[n] # folder[n] =>
          \/ /\ req.op = "delete" /\ n = req.args[1]
             /\ folder'[n] = Absent
          \/ /\ req.op = "rename" /\ n = req.args[1]
             /\ folder'[n] = Absent /\ folder'[req.args[2]] = folder[n]
          \/ /\ req.op = "rename" /\ n = req.args[2]
             /\ folder[n] = Absent /\ folder'[n] = folder[req.args[1]]
          \/ /\ n = wFile
             /\ IF folder[n] = Absent
                THEN req = [op |-> "upload", args |-> <<n>>] /\ folder'[n] = <<>>
                ELSE IsPrefixOf(folder[n], folder'[n])
                     /\ IsPrefixOf(folder'[n], Local[n])]_vars

(* Every command comes to an end: the menu is back, or the client is gone. *)
Answered == cpc # "menu" ~> cpc \in {"menu", "exited"}

(* A worker does not outlive its client.                                   *)
WorkerEnds == cpc = "exited" ~> ~WorkerOpen

-----------------------------------------------------------------------------
(* A claim of the repository that the code does not keep.                  *)

(* The server "runs continuously" (README.md:44): nothing a user asks for  *)
(* ends its process.  download_file reads chunks of a file it could not    *)
(* open, as many as an uninitialised size says, and nothing catches the    *)
(* exception.                                                              *)
DownloadEndsNoServer == server # "aborted"
=============================================================================

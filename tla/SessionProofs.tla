--------------------------- MODULE SessionProofs ----------------------------
(* Theorems about Session, for every value of its constants.               *)
EXTENDS Session, WireProofs

(* A side that can still send or receive has counters left, and the final  *)
(* acknowledgement of an upload that used the last one is the last thing   *)
(* the worker does.                                                        *)
CountersUsable ==
    /\ cpc # "exited" => cS # -1 /\ cR # -1
    /\ WorkerOpen /\ wpc # "upClose" => wS # -1
    /\ wR # -1
    /\ WorkerOpen /\ wpc = "upClose" /\ wS = -1 => wResult = -1

(* A download has a name, and a file open unless an error was noted; no    *)
(* other command leaves one open.                                          *)
DownloadOpen ==
    /\ cpc \in {"dlAck", "dlChunk"} => req.args # <<>>
    /\ cpc = "dlChunk" /\ ~cError => cBuf # Absent
    /\ cBuf # Absent =>
          req.args # <<>> /\ cpc \in {"dlChunk", "dlClose", "exited"}

IInv == TypeOK /\ CountersUsable /\ DownloadOpen /\ CountersUsedOnce

-----------------------------------------------------------------------------
LEMMA ShorterType ==
    ASSUME NEW n \in Nat
    PROVE  Shorter(n) \in Nat /\ Shorter(n) <= n
BY WireAssumption DEF Shorter, WireAssumption

LEMMA UsedType ==
    ASSUME NEW counter \in Counters
    PROVE  /\ Used(counter) \in Nat
           /\ Used(counter) <= MaxCounter + 1
           /\ counter # -1 => Used(counter) = counter /\ counter \in 0..MaxCounter
BY WireAssumption DEF Used, Counters, WireAssumption

(* incrementCounter uses up one counter, the last one included.            *)
LEMMA IncrementedType ==
    ASSUME NEW counter \in 0..MaxCounter
    PROVE  /\ Incremented(counter) \in Counters
           /\ Used(Incremented(counter)) = counter + 1
           /\ counter # MaxCounter => Incremented(counter) # -1
BY WireAssumption DEF Used, Counters, Incremented, WireAssumption

LEMMA AwaitedType == TypeOK => Awaited \in Nat \ {0}
<1> SUFFICES ASSUME TypeOK PROVE Awaited \in Nat \ {0}
  OBVIOUS
<1>1. cTodo \in Nat /\ Shorter(cTodo) \in Nat
  BY ShorterType DEF TypeOK, ClientTypeOK
<1> QED BY <1>1, SizesType DEF Awaited

-----------------------------------------------------------------------------
(* The steps that several actions share.                                   *)

(* sendData and incrementCounter on the client's side.                     *)
LEMMA ClientSendsInv ==
    ASSUME IInv, cpc # "exited", req' \in Commands,
           NEW p \in Packets, p.counter = cS,
           NEW next \in ClientStates,
           ClientSends(p, next)
    PROVE  /\ c2s' \in Streams
           /\ cS' \in Counters
           /\ cpc' \in {next, "menu", "exited"}
           /\ shown' \in Outcomes
           /\ cpc' # "exited" => cS' # -1
           /\ Fresh(c2s', Used(wR), Used(cS'))
<1> USE DEF IInv, ClientTypeOK, WorkerTypeOK
<1>1. cS \in 0..MaxCounter /\ Used(cS) = cS /\ Used(wR) \in Nat
  BY UsedType DEF TypeOK, CountersUsable
<1>2. Fresh(c2s, Used(wR), cS)
  BY <1>1 DEF CountersUsedOnce
<1>3. CASE /\ c2s' \in AfterSend(c2s, p, WorkerOpen)
           /\ cS' = Incremented(cS)
           /\ cpc' = IF cS = MaxCounter THEN "exited" ELSE next
           /\ shown' = "none"
  <2>1. cS' \in Counters /\ Used(cS') = cS + 1 /\ (cpc' # "exited" => cS' # -1)
    BY <1>1, <1>3, IncrementedType
  <2>2. Sent(c2s, p) \in Streams /\ Fresh(Sent(c2s, p), Used(wR), cS + 1)
    BY <1>1, <1>2, SentType, FreshSent DEF TypeOK
  <2>3. Fresh(c2s, Used(wR), cS + 1)
    <3>1. \A q \in c2s.pkts : q.counter \in Nat
      BY WireAssumption DEF TypeOK, Streams, Packets, PacketFields, WireAssumption
    <3> QED BY <1>1, <1>2, <3>1 DEF Fresh
  <2> QED BY <1>3, <2>1, <2>2, <2>3 DEF TypeOK, Outcomes, AfterSend
<1>4. CASE /\ ~WorkerOpen
           /\ ClientReturns("connectionError")
           /\ UNCHANGED <<c2s, cS>>
  BY <1>1, <1>2, <1>4 DEF ClientReturns, TypeOK, Outcomes
<1> QED BY <1>3, <1>4 DEF ClientSends

(* sendData and incrementCounter on the worker's side.                     *)
LEMMA WorkerSendsInv ==
    ASSUME IInv, WorkerOpen, wpc # "upClose",
           NEW p \in Packets, p.counter = wS,
           NEW next \in WorkerStates \ {"upClose"},
           NEW failed \in WorkerStates \ {"upClose"},
           WorkerSends(p, next, failed)
    PROVE  /\ s2c' \in Streams
           /\ wS' \in Counters
           /\ wpc' \in WorkerStates \ {"upClose"}
           /\ server' \in ServerStates
           /\ WorkerOpen' => wS' # -1
           /\ Fresh(s2c', Used(cR), Used(wS'))
<1> USE DEF IInv, ClientTypeOK, WorkerTypeOK
<1>1. wS \in 0..MaxCounter /\ Used(wS) = wS /\ Used(cR) \in Nat
  BY UsedType DEF TypeOK, CountersUsable
<1>2. Fresh(s2c, Used(cR), wS)
  BY <1>1 DEF CountersUsedOnce
<1>3. CASE /\ s2c' \in AfterSend(s2c, p, ClientOpen)
           /\ wS' = Incremented(wS)
           /\ WorkerReturns(IF wS = MaxCounter THEN -1 ELSE 1, next)
  <2>1. /\ wS' \in Counters /\ Used(wS') = wS + 1
        /\ wS # MaxCounter => wS' # -1
    BY <1>1, <1>3, IncrementedType
  <2>2. Sent(s2c, p) \in Streams /\ Fresh(Sent(s2c, p), Used(cR), wS + 1)
    BY <1>1, <1>2, SentType, FreshSent DEF TypeOK
  <2>3. Fresh(s2c, Used(cR), wS + 1)
    <3>1. \A q \in s2c.pkts : q.counter \in Nat
      BY WireAssumption DEF TypeOK, Streams, Packets, PacketFields, WireAssumption
    <3> QED BY <1>1, <1>2, <3>1 DEF Fresh
  <2>4. /\ wpc' \in WorkerStates \ {"upClose"}
        /\ server' \in ServerStates
        /\ WorkerOpen' => wS # MaxCounter
    BY <1>3 DEF WorkerReturns, WorkerStates, ServerStates, TypeOK, WorkerOpen
  <2> QED BY <1>3, <2>1, <2>2, <2>3, <2>4 DEF TypeOK, AfterSend
<1>4. CASE ~ClientOpen /\ WorkerReturns(0, failed) /\ UNCHANGED <<s2c, wS>>
  BY <1>1, <1>2, <1>4 DEF WorkerReturns, TypeOK, ServerStates
<1> QED BY <1>3, <1>4 DEF WorkerSends

(* receiveData, deserialize and the counter check on the client's side.    *)
LEMMA AcceptInv ==
    ASSUME IInv, NEW state, NEW p, Accept(state, p)
    PROVE  /\ p \in Packets
           /\ s2c' \in Streams
           /\ cR' \in Counters /\ cR' # -1
           /\ Fresh(s2c', Used(cR'), Used(wS))
<1> USE DEF IInv, ClientTypeOK, WorkerTypeOK
<1>1. p \in Whole(s2c, Awaited) /\ p \in Packets /\ Readable(s2c, Awaited)
  BY DEF Accept, Whole, TypeOK, Streams
<1>2. p.counter = cR /\ cR \in 0..MaxCounter - 1 /\ cR' = cR + 1
  BY <1>1, WireAssumption
     DEF Accept, TypeOK, Counters, Packets, PacketFields, WireAssumption
<1>3. /\ Used(cR) = cR /\ Used(cR') = cR + 1 /\ cR' \in Counters /\ cR' # -1
      /\ Used(wS) \in Nat
  BY <1>2, UsedType, WireAssumption DEF Counters, Used, TypeOK, WireAssumption
<1>4. s2c' = Drop(s2c, Awaited) /\ Awaited \in Nat \ {0}
  BY AwaitedType DEF Accept
<1>5. s2c' \in Streams
  BY <1>1, <1>4, DropType DEF TypeOK
<1>6. Fresh(Drop(s2c, Awaited), cR + 1, Used(wS))
  <2>1. Fresh(s2c, cR, Used(wS))
    BY <1>3 DEF CountersUsedOnce
  <2> QED BY <2>1, <1>1, <1>2, <1>3, <1>4, FreshAccept DEF TypeOK
<1> QED BY <1>1, <1>3, <1>4, <1>5, <1>6

(* The same on the worker's side, in the command loop of start().          *)
LEMMA TakeRequestInv ==
    ASSUME IInv, NEW op \in Requests, NEW p, TakeRequest(op, p)
    PROVE  /\ p \in Packets
           /\ op \notin {"list", "logout"} => p.args[1] \in Names
           /\ c2s' \in Streams
           /\ wR' \in Counters /\ wR' # -1
           /\ Fresh(c2s', Used(wR'), Used(cS))
<1> USE DEF IInv, ClientTypeOK, WorkerTypeOK
<1>1. p \in Whole(c2s, RequestSize) /\ p \in Packets /\ Readable(c2s, RequestSize)
  BY DEF TakeRequest, Whole, TypeOK, Streams
<1>2. p.counter = wR /\ wR \in 0..MaxCounter - 1 /\ wR' = wR + 1
  BY <1>1, WireAssumption
     DEF TakeRequest, TypeOK, Counters, Packets, PacketFields, WireAssumption
<1>3. /\ Used(wR) = wR /\ Used(wR') = wR + 1 /\ wR' \in Counters /\ wR' # -1
      /\ Used(cS) \in Nat
  BY <1>2, UsedType, WireAssumption DEF Counters, Used, TypeOK, WireAssumption
<1>4. c2s' = Drop(c2s, RequestSize) /\ RequestSize \in Nat \ {0}
  BY SizesType DEF TakeRequest
<1>5. c2s' \in Streams
  BY <1>1, <1>4, DropType DEF TypeOK
<1>6. Fresh(Drop(c2s, RequestSize), wR + 1, Used(cS))
  <2>1. Fresh(c2s, wR, Used(cS))
    BY <1>3 DEF CountersUsedOnce
  <2> QED BY <2>1, <1>1, <1>2, <1>3, <1>4, FreshAccept DEF TypeOK
<1>7. op \notin {"list", "logout"} => p.args[1] \in Names
  <2>1. p.kind = op /\ p.args \in Seq(Names)
    BY <1>1 DEF TakeRequest, Packets, PacketFields
  <2>2. op \notin {"list", "logout"} => p.args # <<>>
    BY <1>1, <2>1 DEF Packets
  <2> QED BY <2>1, <2>2
<1> QED BY <1>1, <1>3, <1>4, <1>5, <1>6, <1>7

-----------------------------------------------------------------------------
(* The actions, one lemma each.                                            *)

(* What the client's steps leave alone of the worker, and the other way    *)
(* round.                                                                  *)
LEMMA WorkerKept ==
    ASSUME IInv, UNCHANGED workerVars
    PROVE  /\ WorkerTypeOK'
           /\ (WorkerOpen /\ wpc # "upClose" => wS # -1)'
           /\ (wR # -1)'
           /\ (WorkerOpen /\ wpc = "upClose" /\ wS = -1 => wResult = -1)'
BY DEF IInv, TypeOK, CountersUsable, WorkerTypeOK, WorkerOpen, workerVars, transfer

LEMMA ClientKept ==
    ASSUME IInv, UNCHANGED clientVars
    PROVE  /\ ClientTypeOK'
           /\ (cpc # "exited" => cS # -1 /\ cR # -1)'
           /\ DownloadOpen'
BY DEF IInv, TypeOK, CountersUsable, DownloadOpen, ClientTypeOK, clientVars, clientData

LEMMA AskInv ==
    ASSUME IInv,
           NEW op \in Requests, NEW args \in Seq(Names), NEW amount \in Nat,
           op \in Requests \ {"list", "logout"} => args # <<>>,
           NEW next \in ClientWaits \ {"dlChunk"},
           next = "dlAck" => args # <<>>,
           Ask(op, args, amount, next),
           cRest' \in Content
    PROVE  IInv'
<1>1. cpc # "exited" /\ cS \in 0..MaxCounter
  BY UsedType DEF Ask, IInv, TypeOK, ClientTypeOK, CountersUsable
<1>2. Request(op, cS, args, amount) \in Packets
      /\ Request(op, cS, args, amount).counter = cS
  BY <1>1, RequestType
<1>3. req' \in Commands /\ req'.args = args
  BY DEF Ask, Commands
<1>4. next \in ClientStates
  BY DEF ClientStates
<1>5. /\ c2s' \in Streams
      /\ cS' \in Counters
      /\ cpc' \in {next, "menu", "exited"}
      /\ shown' \in Outcomes
      /\ cpc' # "exited" => cS' # -1
      /\ Fresh(c2s', Used(wR), Used(cS'))
  BY <1>1, <1>2, <1>3, <1>4, ClientSendsInv DEF Ask
<1>6. UNCHANGED <<s2c, cR, cTodo, cError, downloads, cBuf, listed, workerVars>>
  BY DEF Ask
<1>7. ClientTypeOK'
  BY <1>3, <1>4, <1>5, <1>6 DEF IInv, TypeOK, ClientTypeOK, ClientStates
<1>8. TypeOK' /\ CountersUsable'
  BY <1>1, <1>5, <1>6, <1>7, WorkerKept DEF IInv, TypeOK, CountersUsable
<1>9. DownloadOpen'
  BY <1>3, <1>5, <1>6 DEF DownloadOpen, ClientWaits, Ask, IInv
<1>10. CountersUsedOnce'
  BY <1>5, <1>6 DEF IInv, CountersUsedOnce, workerVars
<1> QED BY <1>8, <1>9, <1>10 DEF IInv

LEMMA UserInv == IInv /\ User => IInv'
<1> SUFFICES ASSUME IInv, User PROVE IInv'
  OBVIOUS
<1>1. ASSUME NEW f \in Names, AskUpload(f) PROVE IInv'
  <2>1. Local[f] \in Content /\ Len(Local[f]) \in Nat
    BY SessionAssumption DEF SessionAssumption, Content
  <2>2. "upload" \in Requests /\ "upAck" \in ClientWaits \ {"dlChunk"}
        /\ <<f>> \in Seq(Names) /\ <<f>> # <<>>
    BY DEF Requests, ClientWaits
  <2> QED BY <1>1, <2>1, <2>2, AskInv DEF AskUpload
<1>2. ASSUME NEW f \in Names, RefuseUpload(f) PROVE IInv'
  <2>1. UNCHANGED <<c2s, s2c, cpc, clientData, workerVars>> /\ shown' = "invalid"
    BY <1>2 DEF RefuseUpload
  <2>2. ClientTypeOK' /\ DownloadOpen'
    BY <2>1 DEF IInv, TypeOK, ClientTypeOK, clientData, DownloadOpen, Outcomes
  <2>3. TypeOK' /\ CountersUsable'
    BY <2>1, <2>2, WorkerKept DEF IInv, TypeOK, CountersUsable, clientData
  <2>4. CountersUsedOnce'
    BY <2>1 DEF IInv, CountersUsedOnce, workerVars, clientData
  <2> QED BY <2>2, <2>3, <2>4 DEF IInv
<1>3. ASSUME NEW f \in Names, AskDownload(f) \/ AskDelete(f) PROVE IInv'
  <2>1. {"download", "delete"} \subseteq Requests
        /\ {"dlAck", "rmAck"} \subseteq ClientWaits \ {"dlChunk"}
        /\ <<f>> \in Seq(Names) /\ <<f>> # <<>>
    BY DEF Requests, ClientWaits
  <2>2. cRest' \in Content
    BY <1>3 DEF AskDownload, AskDelete, IInv, TypeOK, ClientTypeOK
  <2> QED BY <1>3, <2>1, <2>2, AskInv DEF AskDownload, AskDelete
<1>4. ASSUME AskList \/ AskLogout PROVE IInv'
  <2>1. {"list", "logout"} \subseteq Requests
        /\ {"lsAck", "loAck"} \subseteq ClientWaits \ {"dlChunk", "dlAck"}
        /\ <<>> \in Seq(Names)
    BY DEF Requests, ClientWaits
  <2>2. cRest' \in Content
    BY <1>4 DEF AskList, AskLogout, IInv, TypeOK, ClientTypeOK
  <2> QED BY <1>4, <2>1, <2>2, AskInv DEF AskList, AskLogout
<1>5. ASSUME NEW f \in Names, NEW g \in Names, AskRename(f, g) PROVE IInv'
  <2>1. "rename" \in Requests /\ "rnAck" \in ClientWaits \ {"dlChunk"}
        /\ <<f, g>> \in Seq(Names) /\ <<f, g>> # <<>>
    BY DEF Requests, ClientWaits
  <2>2. cRest' \in Content
    BY <1>5 DEF AskRename, IInv, TypeOK, ClientTypeOK
  <2> QED BY <1>5, <2>1, <2>2, AskInv DEF AskRename
<1> QED BY <1>1, <1>2, <1>3, <1>4, <1>5 DEF User

LEMMA SubSeqType ==
    ASSUME NEW s \in Content, NEW n \in Nat, n <= Len(s)
    PROVE  SubSeq(s, 1, n) \in Content /\ SubSeq(s, n + 1, Len(s)) \in Content
BY DEF Content

LEMMA SendChunkInv == IInv /\ SendChunk => IInv'
<1> SUFFICES ASSUME IInv, SendChunk PROVE IInv'
  OBVIOUS
<1> DEFINE n == Shorter(Len(cRest))
           p == Chunk(cS, SubSeq(cRest, 1, n))
           next == IF cRest' = <<>> THEN "upFinal" ELSE "upSend"
<1>1. cpc # "exited" /\ cS \in 0..MaxCounter /\ cRest \in Content
  BY UsedType DEF SendChunk, IInv, TypeOK, ClientTypeOK, CountersUsable
<1>2. SubSeq(cRest, 1, n) \in Content /\ cRest' \in Content
  <2>1. Len(cRest) \in Nat
    BY <1>1 DEF Content
  <2>2. n \in Nat /\ n <= Len(cRest)
    BY <2>1, ShorterType
  <2> QED BY <1>1, <2>2, SubSeqType DEF SendChunk
<1>3. p \in Packets /\ p.counter = cS
  BY <1>1, <1>2, ChunkType
<1>4. req' \in Commands /\ next \in ClientStates
  BY DEF SendChunk, IInv, TypeOK, ClientTypeOK, ClientStates, ClientWaits
<1>5. ClientSends(p, next)
  BY DEF SendChunk
<1> HIDE DEF n, p
<1>6. /\ c2s' \in Streams
      /\ cS' \in Counters
      /\ cpc' \in {next, "menu", "exited"}
      /\ shown' \in Outcomes
      /\ cpc' # "exited" => cS' # -1
      /\ Fresh(c2s', Used(wR), Used(cS'))
  BY <1>1, <1>3, <1>4, <1>5, ClientSendsInv
<1>7. UNCHANGED <<req, s2c, cR, cTodo, cError, downloads, cBuf, listed, workerVars>>
  BY DEF SendChunk
<1>8. ClientTypeOK'
  BY <1>2, <1>4, <1>6, <1>7 DEF IInv, TypeOK, ClientTypeOK, ClientStates
<1>9. TypeOK' /\ CountersUsable'
  BY <1>1, <1>6, <1>7, <1>8, WorkerKept DEF IInv, TypeOK, CountersUsable
<1>10. DownloadOpen'
  BY <1>6, <1>7 DEF DownloadOpen, SendChunk, IInv
<1>11. CountersUsedOnce'
  BY <1>6, <1>7 DEF IInv, CountersUsedOnce, workerVars
<1> QED BY <1>9, <1>10, <1>11 DEF IInv

(* A step that only reads s2c: what remains to show is the client's own    *)
(* data.                                                                   *)
LEMMA ClientReadsInv ==
    ASSUME IInv,
           UNCHANGED <<c2s, cS, workerVars>>,
           s2c' \in Streams,
           ClientTypeOK',
           cpc' # "exited" => cpc # "exited" /\ cR' # -1,
           DownloadOpen',
           Fresh(s2c', Used(cR'), Used(wS))
    PROVE  IInv'
<1>1. TypeOK' /\ CountersUsable'
  BY WorkerKept DEF IInv, TypeOK, CountersUsable
<1>2. CountersUsedOnce'
  BY DEF IInv, CountersUsedOnce, workerVars
<1> QED BY <1>1, <1>2 DEF IInv

LEMMA ReplyUnreadableInv == IInv /\ ReplyUnreadable => IInv'
<1> SUFFICES ASSUME IInv, ReplyUnreadable PROVE IInv'
  OBVIOUS
<1>1. /\ UNCHANGED <<c2s, cS, cR, req, cRest, downloads, cBuf, listed, workerVars>>
      /\ Misread(s2c, Awaited, WorkerOpen, s2c')
      /\ cpc \in ClientWaits
  BY DEF ReplyUnreadable
<1>2. Used(cR) \in Nat /\ Used(wS) \in Nat /\ Fresh(s2c, Used(cR), Used(wS))
  BY UsedType DEF IInv, TypeOK, ClientTypeOK, WorkerTypeOK, CountersUsedOnce
<1>3. WorkerOpen \in BOOLEAN /\ Awaited \in Nat
  BY AwaitedType DEF IInv, WorkerOpen
<1>4. s2c' \in Streams /\ Fresh(s2c', Used(cR'), Used(wS))
  BY <1>1, <1>2, <1>3, MisreadType, FreshMisread DEF IInv, TypeOK
<1>5. cpc # "exited" /\ cR' # -1
  BY <1>1 DEF ClientWaits, IInv, CountersUsable
<1>6. CASE cpc = "dlChunk" /\ cTodo >= ChunkSize
  <2>1. cTodo \in Nat /\ ChunkSize \in Nat /\ cTodo - ChunkSize \in Nat
    BY <1>6, WireAssumption DEF WireAssumption, IInv, TypeOK, ClientTypeOK
  <2>2. DownloadGoesOn(cTodo - ChunkSize, TRUE)
    BY <1>6 DEF ReplyUnreadable
  <2>3. ClientTypeOK' /\ DownloadOpen'
    BY <1>1, <1>6, <2>1, <2>2
       DEF DownloadGoesOn, DownloadLeaves, IInv, TypeOK, ClientTypeOK, ClientStates,
           ClientWaits, Outcomes, DownloadOpen
  <2> QED BY <1>1, <1>4, <1>5, <2>3, ClientReadsInv
<1>7. CASE ~(cpc = "dlChunk" /\ cTodo >= ChunkSize)
  <2>1. /\ cpc' \in IF cpc = "dlChunk" THEN {"dlClose"} ELSE {"menu", "exited"}
        /\ shown' = "connectionError"
        /\ UNCHANGED <<cTodo, cError>>
    BY <1>7 DEF ReplyUnreadable, DownloadLeaves, ClientReturns
  <2>2. ClientTypeOK'
    BY <1>1, <2>1 DEF IInv, TypeOK, ClientTypeOK, ClientStates, Outcomes
  <2>3. DownloadOpen'
    BY <1>1, <2>1 DEF IInv, DownloadOpen, ClientWaits
  <2> QED BY <1>1, <1>4, <1>5, <2>2, <2>3, ClientReadsInv
<1> QED BY <1>6, <1>7

(* File::~File of the client.                                              *)
LEMMA CloseDownloadType ==
    ASSUME IInv, CloseDownload
    PROVE  cBuf' = Absent /\ downloads' \in [Names -> Content \cup {Absent}]
<1>1. cBuf # Absent => req.args[1] \in Names /\ cBuf \in Content
  BY DEF IInv, DownloadOpen, TypeOK, ClientTypeOK, Commands
<1> QED BY <1>1 DEF CloseDownload, IInv, TypeOK, ClientTypeOK

LEMMA DownloadCloseInv == IInv /\ DownloadClose => IInv'
<1> SUFFICES ASSUME IInv, DownloadClose PROVE IInv'
  OBVIOUS
<1>1. /\ UNCHANGED <<c2s, s2c, cS, cR, req, cRest, cTodo, cError, shown, listed,
                     workerVars>>
      /\ cpc = "dlClose" /\ cpc' = "menu"
  BY DEF DownloadClose
<1>2. cBuf' = Absent /\ downloads' \in [Names -> Content \cup {Absent}]
  BY CloseDownloadType DEF DownloadClose
<1>3. ClientTypeOK' /\ DownloadOpen'
  BY <1>1, <1>2 DEF IInv, TypeOK, ClientTypeOK, ClientStates, DownloadOpen
<1>4. s2c' \in Streams /\ cR' # -1 /\ Fresh(s2c', Used(cR'), Used(wS))
  BY <1>1 DEF IInv, TypeOK, CountersUsable, CountersUsedOnce
<1> QED BY <1>1, <1>3, <1>4, ClientReadsInv

LEMMA ReplyRejectedInv == IInv /\ ReplyRejected => IInv'
<1> SUFFICES ASSUME IInv, ReplyRejected PROVE IInv'
  OBVIOUS
<1>1. /\ UNCHANGED <<c2s, cS, cR, req, cRest, cTodo, cError, shown, listed, workerVars>>
      /\ s2c' = Drop(s2c, Awaited) /\ Readable(s2c, Awaited)
      /\ cpc' = "exited"
  BY DEF ReplyRejected, Whole
<1>2. Used(cR) \in Nat /\ Used(wS) \in Nat /\ Fresh(s2c, Used(cR), Used(wS))
  BY UsedType DEF IInv, TypeOK, ClientTypeOK, WorkerTypeOK, CountersUsedOnce
<1>3. s2c' \in Streams /\ Fresh(s2c', Used(cR), Used(wS))
  BY <1>1, <1>2, AwaitedType, DropType, FreshDrop DEF IInv, TypeOK
<1>4. cBuf' = Absent /\ downloads' \in [Names -> Content \cup {Absent}]
  BY CloseDownloadType DEF ReplyRejected
<1>5. ClientTypeOK' /\ DownloadOpen'
  BY <1>1, <1>4 DEF IInv, TypeOK, ClientTypeOK, ClientStates, DownloadOpen
<1> QED BY <1>1, <1>3, <1>5, ClientReadsInv

(* The six commands on an accepted packet.                                 *)
LEMMA ReceiveAckInv ==
    ASSUME IInv,
           ReceiveUploadAck \/ ReceiveUploadVerdict \/ ReceiveRenameAck
              \/ ReceiveDeleteAck \/ ReceiveLogoutAck
    PROVE  IInv'
<1>1. PICK state \in ClientWaits, p \in s2c.pkts : Accept(state, p)
  BY DEF ReceiveUploadAck, ReceiveUploadVerdict, ReceiveRenameAck,
         ReceiveDeleteAck, ReceiveLogoutAck, ClientWaits
<1>2. /\ p \in Packets
      /\ s2c' \in Streams
      /\ cR' \in Counters /\ cR' # -1
      /\ Fresh(s2c', Used(cR'), Used(wS))
  BY <1>1, AcceptInv
<1>3. UNCHANGED <<c2s, cS, req, workerVars>> /\ cpc # "exited"
  BY <1>1 DEF Accept, ClientWaits
<1>4. UNCHANGED <<cRest, cTodo, cError, downloads, cBuf, listed>>
  BY DEF ReceiveUploadAck, ReceiveUploadVerdict, ReceiveRenameAck,
         ReceiveDeleteAck, ReceiveLogoutAck
<1>5. \A q \in s2c.pkts : AckCodes(q) \subseteq 0..3
  BY DEF IInv, TypeOK, Streams, Packets, PacketFields, AckCodes
<1>6. \A code \in 0..3 : RenameOutcome[code] \in Outcomes /\ DeleteOutcome[code] \in Outcomes
  BY DEF RenameOutcome, DeleteOutcome, Outcomes
<1>7. shown' \in Outcomes /\ cpc' \in {"menu", "exited", "upSend"}
  BY <1>5, <1>6
     DEF ReceiveUploadAck, ReceiveUploadVerdict, ReceiveRenameAck, ReceiveDeleteAck,
         ReceiveLogoutAck, ClientReturns, IInv, TypeOK, ClientTypeOK, Outcomes
<1>8. cpc \notin {"dlChunk", "dlClose"}
  BY DEF ReceiveUploadAck, ReceiveUploadVerdict, ReceiveRenameAck, ReceiveDeleteAck,
         ReceiveLogoutAck, Accept
<1>9. ClientTypeOK' /\ DownloadOpen'
  BY <1>2, <1>3, <1>4, <1>7, <1>8
     DEF IInv, TypeOK, ClientTypeOK, ClientStates, DownloadOpen
<1> QED BY <1>2, <1>3, <1>9, ClientReadsInv

LEMMA ReceiveDownloadAckInv == IInv /\ ReceiveDownloadAck => IInv'
<1> SUFFICES ASSUME IInv, ReceiveDownloadAck PROVE IInv'
  OBVIOUS
<1> DEFINE f == req.args[1]
<1>1. PICK p \in s2c.pkts :
         /\ Accept("dlAck", p)
         /\ \/ /\ \/ ClientReturns("notOnCloud")
                  \/ ClientReturns("noDownloads")
                  \/ cpc' = "exited" /\ UNCHANGED shown
               /\ UNCHANGED <<cTodo, cError, downloads, cBuf>>
            \/ LET new == downloads[f] = Absent IN
               /\ \E size \in AckAmounts(p) : DownloadGoesOn(size, ~new)
               /\ downloads' = IF new THEN [downloads EXCEPT ![f] = <<>>]
                               ELSE downloads
               /\ cBuf' = IF new THEN <<>> ELSE cBuf
  BY DEF ReceiveDownloadAck
<1>2. /\ p \in Packets
      /\ s2c' \in Streams
      /\ cR' \in Counters /\ cR' # -1
      /\ Fresh(s2c', Used(cR'), Used(wS))
  BY <1>1, AcceptInv
<1>3. UNCHANGED <<c2s, cS, req, workerVars>> /\ cpc = "dlAck"
  BY <1>1 DEF Accept
<1>4. UNCHANGED <<cRest, listed>>
  BY DEF ReceiveDownloadAck
<1>5. AckAmounts(p) \subseteq Nat
  BY <1>2, WireAssumption DEF AckAmounts, Packets, PacketFields, WireAssumption
<1>6. /\ f \in Names /\ req.args # <<>> /\ cBuf = Absent
      /\ <<>> \in Content /\ <<>> # Absent
  <2>1. <<>> \in Content
    BY DEF Content
  <2>2. <<>> # Absent
    BY <2>1, SessionAssumption DEF SessionAssumption
  <2> QED BY <1>3, <2>1, <2>2 DEF IInv, DownloadOpen, TypeOK, ClientTypeOK, Commands
<1>7. CASE /\ \/ ClientReturns("notOnCloud")
              \/ ClientReturns("noDownloads")
              \/ cpc' = "exited" /\ UNCHANGED shown
           /\ UNCHANGED <<cTodo, cError, downloads, cBuf>>
  <2>1. ClientTypeOK' /\ DownloadOpen'
    BY <1>2, <1>3, <1>4, <1>6, <1>7
       DEF ClientReturns, IInv, TypeOK, ClientTypeOK, ClientStates, Outcomes, DownloadOpen
  <2> QED BY <1>2, <1>3, <2>1, ClientReadsInv
<1>8. ASSUME NEW size \in AckAmounts(p), DownloadGoesOn(size, ~(downloads[f] = Absent)),
             downloads' = IF downloads[f] = Absent THEN [downloads EXCEPT ![f] = <<>>]
                          ELSE downloads,
             cBuf' = IF downloads[f] = Absent THEN <<>> ELSE cBuf
      PROVE  IInv'
  <2>1. downloads' \in [Names -> Content \cup {Absent}]
    BY <1>6, <1>8 DEF IInv, TypeOK, ClientTypeOK
  <2>2. /\ cBuf' \in Content \cup {Absent}
        /\ downloads[f] = Absent => cBuf' # Absent
    BY <1>6, <1>8
  <2>3. cTodo' = size /\ size \in Nat /\ cError' = ~(downloads[f] = Absent)
        /\ cpc' \in {"dlChunk", "dlClose"} /\ shown' \in Outcomes
    BY <1>5, <1>8
       DEF DownloadGoesOn, DownloadLeaves, IInv, TypeOK, ClientTypeOK, Outcomes
  <2>4. ClientTypeOK'
    BY <1>2, <1>3, <1>4, <2>1, <2>2, <2>3
       DEF IInv, TypeOK, ClientTypeOK, ClientStates, ClientWaits
  <2>5. DownloadOpen'
    BY <1>3, <1>6, <2>2, <2>3 DEF DownloadOpen
  <2> QED BY <1>2, <1>3, <2>4, <2>5, ClientReadsInv
<1> QED BY <1>1, <1>7, <1>8

LEMMA ReceiveChunkInv == IInv /\ ReceiveChunk => IInv'
<1> SUFFICES ASSUME IInv, ReceiveChunk PROVE IInv'
  OBVIOUS
<1> DEFINE f == req.args[1]
<1>1. PICK p \in s2c.pkts :
         /\ Accept("dlChunk", p)
         /\ \/ /\ DownloadGoesOn(cTodo - Shorter(cTodo), cError)
               /\ cBuf' = IF cError THEN cBuf ELSE cBuf \o p.data
               /\ \/ downloads' = downloads
                  \/ ~cError /\ downloads' = [downloads EXCEPT ![f] = cBuf']
            \/ /\ cpc' = "exited"
               /\ UNCHANGED <<cTodo, cError, downloads, cBuf, shown>>
  BY DEF ReceiveChunk
<1>2. /\ p \in Packets
      /\ s2c' \in Streams
      /\ cR' \in Counters /\ cR' # -1
      /\ Fresh(s2c', Used(cR'), Used(wS))
  BY <1>1, AcceptInv
<1>3. UNCHANGED <<c2s, cS, req, workerVars>> /\ cpc = "dlChunk"
  BY <1>1 DEF Accept
<1>4. UNCHANGED <<cRest, listed>>
  BY DEF ReceiveChunk
<1>5. f \in Names /\ (~cError => cBuf \in Content) /\ req.args # <<>>
  BY <1>3 DEF IInv, DownloadOpen, TypeOK, ClientTypeOK, Commands
<1>6. ~cError => cBuf \o p.data \in Content /\ cBuf \o p.data # Absent
  <2>1. ~cError => cBuf \o p.data \in Content
    BY <1>2, <1>5 DEF Content, Packets, PacketFields
  <2> QED BY <2>1, SessionAssumption DEF SessionAssumption
<1>7. CASE /\ DownloadGoesOn(cTodo - Shorter(cTodo), cError)
           /\ cBuf' = IF cError THEN cBuf ELSE cBuf \o p.data
           /\ \/ downloads' = downloads
              \/ ~cError /\ downloads' = [downloads EXCEPT ![f] = cBuf']
  <2>1. /\ downloads' \in [Names -> Content \cup {Absent}]
        /\ cBuf' \in Content \cup {Absent}
        /\ ~cError => cBuf' # Absent
    BY <1>5, <1>6, <1>7 DEF IInv, TypeOK, ClientTypeOK
  <2>2. /\ cTodo' \in Nat /\ cError' = cError
        /\ cpc' \in {"dlChunk", "dlClose"} /\ shown' \in Outcomes
    <3>1. cTodo - Shorter(cTodo) \in Nat
      BY ShorterType DEF IInv, TypeOK, ClientTypeOK
    <3> QED
      BY <1>7, <3>1 DEF DownloadGoesOn, DownloadLeaves, IInv, TypeOK, ClientTypeOK, Outcomes
  <2>3. ClientTypeOK'
    BY <1>2, <1>3, <1>4, <2>1, <2>2
       DEF IInv, TypeOK, ClientTypeOK, ClientStates, ClientWaits
  <2>4. DownloadOpen'
    BY <1>3, <1>5, <2>1, <2>2 DEF DownloadOpen
  <2> QED BY <1>2, <1>3, <2>3, <2>4, ClientReadsInv
<1>8. CASE cpc' = "exited" /\ UNCHANGED <<cTodo, cError, downloads, cBuf, shown>>
  <2>1. ClientTypeOK' /\ DownloadOpen'
    BY <1>2, <1>3, <1>4, <1>5, <1>8
       DEF IInv, TypeOK, ClientTypeOK, ClientStates, DownloadOpen
  <2> QED BY <1>2, <1>3, <2>1, ClientReadsInv
<1> QED BY <1>1, <1>7, <1>8

LEMMA ReceiveListAckInv == IInv /\ ReceiveListAck => IInv'
<1> SUFFICES ASSUME IInv, ReceiveListAck PROVE IInv'
  OBVIOUS
<1>1. PICK p \in s2c.pkts :
         /\ Accept("lsAck", p)
         /\ \/ ClientReturns("noFolder") /\ UNCHANGED cTodo
            \/ cpc' = "lsData" /\ cTodo' \in AckAmounts(p) /\ UNCHANGED shown
  BY DEF ReceiveListAck
<1>2. /\ p \in Packets
      /\ s2c' \in Streams
      /\ cR' \in Counters /\ cR' # -1
      /\ Fresh(s2c', Used(cR'), Used(wS))
  BY <1>1, AcceptInv
<1>3. UNCHANGED <<c2s, cS, req, workerVars>> /\ cpc = "lsAck"
  BY <1>1 DEF Accept
<1>4. UNCHANGED <<cRest, cError, downloads, cBuf, listed>>
  BY DEF ReceiveListAck
<1>5. AckAmounts(p) \subseteq Nat
  BY <1>2, WireAssumption DEF AckAmounts, Packets, PacketFields, WireAssumption
<1>6. cTodo' \in Nat /\ shown' \in Outcomes /\ cpc' \in {"menu", "exited", "lsData"}
  BY <1>1, <1>5 DEF ClientReturns, IInv, TypeOK, ClientTypeOK, Outcomes
<1>7. ClientTypeOK' /\ DownloadOpen'
  BY <1>2, <1>3, <1>4, <1>6
     DEF IInv, TypeOK, ClientTypeOK, ClientStates, ClientWaits, DownloadOpen
<1> QED BY <1>2, <1>3, <1>7, ClientReadsInv

LEMMA ReceiveListingInv == IInv /\ ReceiveListing => IInv'
<1> SUFFICES ASSUME IInv, ReceiveListing PROVE IInv'
  OBVIOUS
<1>1. PICK p \in Whole(s2c, Awaited) : p.counter = cR /\ listed' \in Printed(p.names)
  BY DEF ReceiveListing
<1>2. p \in Packets /\ Readable(s2c, Awaited)
  BY <1>1 DEF Whole, IInv, TypeOK, Streams
<1>3. /\ s2c' = Drop(s2c, Awaited) /\ cR' = Incremented(cR)
      /\ cTodo' = 0
      /\ cpc = "lsData"
      /\ cpc' = IF cR = MaxCounter THEN "exited" ELSE "menu"
      /\ shown' = "listed"
      /\ UNCHANGED <<c2s, cS, req, cRest, cError, downloads, cBuf, workerVars>>
  BY DEF ReceiveListing
<1>4. cR \in 0..MaxCounter /\ Used(cR) = cR /\ Used(wS) \in Nat
  BY <1>3, UsedType DEF IInv, TypeOK, ClientTypeOK, WorkerTypeOK, CountersUsable
<1>5. cR' \in Counters /\ Used(cR') = cR + 1 /\ (cpc' # "exited" => cR' # -1)
  BY <1>3, <1>4, IncrementedType
<1>6. Awaited \in Nat \ {0} /\ s2c' \in Streams
  BY <1>2, <1>3, AwaitedType, DropType DEF IInv, TypeOK
<1>7. Fresh(s2c', Used(cR'), Used(wS))
  <2>1. Fresh(s2c, cR, Used(wS)) /\ cR \in Nat
    BY <1>4, WireAssumption DEF IInv, CountersUsedOnce, WireAssumption
  <2>2. Fresh(Drop(s2c, Awaited), cR + 1, Used(wS))
    BY <2>1, <1>1, <1>4, <1>6, FreshAccept DEF IInv, TypeOK
  <2> QED BY <2>2, <1>3, <1>5
<1>8. ClientTypeOK' /\ DownloadOpen'
  BY <1>1, <1>2, <1>3, <1>5
     DEF IInv, TypeOK, ClientTypeOK, ClientStates, Outcomes, DownloadOpen,
         Printed, Packets, PacketFields
<1> QED BY <1>3, <1>5, <1>6, <1>7, <1>8, ClientReadsInv

LEMMA ClientStepInv == IInv /\ ClientStep => IInv'
BY SendChunkInv, ReplyUnreadableInv, ReplyRejectedInv, ReceiveAckInv,
   ReceiveDownloadAckInv, ReceiveChunkInv, DownloadCloseInv, ReceiveListAckInv,
   ReceiveListingInv
   DEF ClientStep

-----------------------------------------------------------------------------
(* A step of the worker or of the server: what remains to show is the      *)
(* worker's own data.                                                      *)
LEMMA WorkerActsInv ==
    ASSUME IInv,
           UNCHANGED clientVars,
           c2s' \in Streams, s2c' \in Streams,
           WorkerTypeOK',
           (WorkerOpen /\ wpc # "upClose" => wS # -1)',
           wR' # -1,
           (WorkerOpen /\ wpc = "upClose" /\ wS = -1 => wResult = -1)',
           Fresh(c2s', Used(wR'), Used(cS)),
           Fresh(s2c', Used(cR), Used(wS'))
    PROVE  IInv'
<1>1. TypeOK' /\ CountersUsable' /\ DownloadOpen'
  BY ClientKept DEF TypeOK, CountersUsable
<1>2. CountersUsedOnce'
  BY DEF CountersUsedOnce, clientVars, clientData
<1> QED BY <1>1, <1>2 DEF IInv

(* A handler of a request that ends with a send.                           *)
LEMMA HandlerInv ==
    ASSUME IInv,
           NEW op \in Requests, NEW p \in c2s.pkts, TakeRequest(op, p),
           NEW reply \in Packets, reply.counter = wS,
           NEW next \in WorkerStates \ {"upClose"},
           NEW failed \in WorkerStates \ {"upClose"},
           WorkerSends(reply, next, failed),
           wFile' \in Names \cup {Absent}, wTodo' \in Nat, wRest' \in Content,
           wNames' \in SUBSET Names, wBuf' \in Content, wError' \in BOOLEAN,
           wResult' \in {-1, 0, 1}, folder' \in [Names -> Content \cup {Absent}]
    PROVE  IInv'
<1>1. WorkerOpen /\ wpc = "idle" /\ UNCHANGED clientVars
  BY DEF TakeRequest
<1>2. /\ c2s' \in Streams
      /\ wR' \in Counters /\ wR' # -1
      /\ Fresh(c2s', Used(wR'), Used(cS))
  BY TakeRequestInv
<1>3. /\ s2c' \in Streams
      /\ wS' \in Counters
      /\ wpc' \in WorkerStates \ {"upClose"}
      /\ server' \in ServerStates
      /\ WorkerOpen' => wS' # -1
      /\ Fresh(s2c', Used(cR), Used(wS'))
  BY <1>1, WorkerSendsInv
<1>4. WorkerTypeOK'
  BY <1>2, <1>3 DEF WorkerTypeOK
<1> QED BY <1>1, <1>2, <1>3, <1>4, WorkerActsInv

(* Facts that every action of an open worker starts from.                  *)
LEMMA WorkerFacts ==
    ASSUME IInv
    PROVE  /\ WorkerOpen /\ wpc # "upClose" => wS \in 0..MaxCounter
           /\ wS \in Counters /\ wR \in Counters /\ wR # -1
           /\ Used(wS) \in Nat /\ Used(wR) \in Nat
           /\ Used(cS) \in Nat /\ Used(cR) \in Nat
           /\ Fresh(c2s, Used(wR), Used(cS)) /\ Fresh(s2c, Used(cR), Used(wS))
           /\ ClientOpen \in BOOLEAN
BY UsedType
   DEF IInv, TypeOK, ClientTypeOK, WorkerTypeOK, CountersUsable, CountersUsedOnce,
       ClientOpen

LEMMA RequestRefusedInv == IInv /\ RequestRefused => IInv'
<1> SUFFICES ASSUME IInv, RequestRefused PROVE IInv'
  OBVIOUS
<1>1. /\ UNCHANGED <<s2c, clientVars, wS, wR, transfer, folder, server>>
      /\ wpc' = "closed"
  BY DEF RequestRefused
<1>2. c2s' \in Streams /\ Fresh(c2s', Used(wR), Used(cS))
  <2>1. CASE Misread(c2s, RequestSize, ClientOpen, c2s')
    BY <2>1, WorkerFacts, SizesType, MisreadType, FreshMisread DEF IInv, TypeOK
  <2>2. CASE c2s' = Drop(c2s, RequestSize) /\ Readable(c2s, RequestSize)
    BY <2>2, WorkerFacts, SizesType, DropType, FreshDrop DEF IInv, TypeOK
  <2> QED BY <2>1, <2>2 DEF RequestRefused, Whole
<1>3. WorkerTypeOK' /\ s2c' \in Streams
  BY <1>1 DEF IInv, TypeOK, WorkerTypeOK, WorkerStates, transfer
<1>4. ~WorkerOpen'
  BY <1>1 DEF WorkerOpen
<1> QED BY <1>1, <1>2, <1>3, <1>4, WorkerFacts, WorkerActsInv

LEMMA UploadRequestInv == IInv /\ UploadRequest => IInv'
<1> SUFFICES ASSUME IInv, UploadRequest PROVE IInv'
  OBVIOUS
<1>1. PICK p \in c2s.pkts :
         /\ TakeRequest("upload", p)
         /\ wFile' = p.args[1]
         /\ wTodo' = p.amount
         /\ WorkerSends(Ack(wS, IF folder[p.args[1]] = Absent THEN 1 ELSE 0),
                        "upCreate", "idle")
  BY DEF UploadRequest
<1>2. "upload" \in Requests \ {"list", "logout"}
  BY DEF Requests
<1>3. p \in Packets /\ p.args[1] \in Names /\ p.amount \in Nat
  BY <1>1, <1>2, TakeRequestInv DEF Packets, PacketFields
<1>4. wS \in 0..MaxCounter
  BY <1>1, WorkerFacts DEF TakeRequest
<1>5. \A code \in 0..2 : Ack(wS, code) \in Packets /\ Ack(wS, code).counter = wS
  BY <1>4, AckType
<1>6. /\ wRest' \in Content /\ wNames' \in SUBSET Names /\ wBuf' \in Content
      /\ wError' \in BOOLEAN /\ wResult' \in {-1, 0, 1}
      /\ folder' \in [Names -> Content \cup {Absent}]
  <2>1. <<>> \in Content
    BY DEF Content
  <2>2. /\ wBuf' = <<>> /\ wError' = FALSE
        /\ wRest' = wRest /\ wNames' = wNames /\ wResult' = wResult
        /\ folder' = folder
    BY DEF UploadRequest
  <2> QED BY <2>1, <2>2 DEF IInv, TypeOK, WorkerTypeOK
<1>7. {"upCreate", "idle"} \subseteq WorkerStates \ {"upClose"}
  BY DEF WorkerStates
<1>8. PICK code \in 0..2 : WorkerSends(Ack(wS, code), "upCreate", "idle")
  BY <1>1
<1> QED BY <1>1, <1>2, <1>3, <1>5, <1>6, <1>7, <1>8, HandlerInv

LEMMA DownloadRequestInv == IInv /\ DownloadRequest => IInv'
<1> SUFFICES ASSUME IInv, DownloadRequest PROVE IInv'
  OBVIOUS
<1>1. PICK p \in c2s.pkts :
         LET content == folder[p.args[1]] IN
         /\ TakeRequest("download", p)
         /\ IF content \notin {Absent, <<>>}
            THEN /\ WorkerSends(SizedAck(wS, 0, Len(content)), "dlSend", "idle")
                 /\ wRest' = content
            ELSE /\ \/ WorkerSends(SizedAck(wS, 1, 0), "idle", "idle")
                    \/ /\ content = Absent
                       /\ s2c' \in AfterSend(s2c, SizedAck(wS, 1, 0), ClientOpen)
                       /\ wS # MaxCounter
                       /\ wS' = wS + 1
                       /\ wpc' = "closed" /\ server' = "aborted"
                 /\ UNCHANGED wRest
  BY DEF DownloadRequest
<1> DEFINE content == folder[p.args[1]]
<1>2. "download" \in Requests \ {"list", "logout"}
  BY DEF Requests
<1>3. content \in Content \cup {Absent}
  BY <1>1, <1>2, TakeRequestInv DEF IInv, TypeOK, WorkerTypeOK
<1>4. wS \in 0..MaxCounter /\ WorkerOpen
  BY <1>1, WorkerFacts DEF TakeRequest
<1>5. \A code \in 0..2, n \in Nat :
         SizedAck(wS, code, n) \in Packets /\ SizedAck(wS, code, n).counter = wS
  BY <1>4, SizedAckType
<1>6. /\ wFile' \in Names \cup {Absent} /\ wTodo' \in Nat
      /\ wNames' \in SUBSET Names /\ wBuf' \in Content
      /\ wError' \in BOOLEAN /\ wResult' \in {-1, 0, 1}
      /\ folder' \in [Names -> Content \cup {Absent}]
  BY DEF DownloadRequest, IInv, TypeOK, WorkerTypeOK
<1>7. {"dlSend", "idle"} \subseteq WorkerStates \ {"upClose"}
  BY DEF WorkerStates
<1>8. CASE content \notin {Absent, <<>>}
  <2>1. content \in Content /\ Len(content) \in Nat
    BY <1>3, <1>8 DEF Content
  <2>2. WorkerSends(SizedAck(wS, 0, Len(content)), "dlSend", "idle") /\ wRest' = content
    BY <1>1, <1>8
  <2>3. /\ SizedAck(wS, 0, Len(content)) \in Packets
        /\ SizedAck(wS, 0, Len(content)).counter = wS
    BY <1>5, <2>1
  <2> HIDE DEF content
  <2> QED BY <1>1, <1>2, <1>6, <1>7, <2>1, <2>2, <2>3, HandlerInv
<1>9. CASE content \in {Absent, <<>>}
  <2>1. wRest' \in Content
    BY <1>1, <1>9 DEF IInv, TypeOK, WorkerTypeOK
  <2>2. SizedAck(wS, 1, 0) \in Packets /\ SizedAck(wS, 1, 0).counter = wS
    BY <1>5
  <2>3. CASE WorkerSends(SizedAck(wS, 1, 0), "idle", "idle")
    BY <2>3, <1>1, <1>2, <1>6, <1>7, <2>1, <2>2, HandlerInv
  <2>4. CASE /\ s2c' \in AfterSend(s2c, SizedAck(wS, 1, 0), ClientOpen)
             /\ wS # MaxCounter
             /\ wS' = wS + 1
             /\ wpc' = "closed" /\ server' = "aborted"
    (* The send succeeded, and an exception ends the process: this is a    *)
    (* send that leaves the worker closed.                                 *)
    <3>1. /\ wS' = Incremented(wS) /\ wS' \in Counters /\ Used(wS') = wS + 1
          /\ Used(wS) = wS
      BY <1>4, <2>4, IncrementedType, UsedType, WireAssumption
         DEF Incremented, Counters, WireAssumption
    <3>2. Fresh(s2c, Used(cR), wS) /\ Used(cR) \in Nat
      BY <3>1, WorkerFacts
    <3>3. /\ Sent(s2c, SizedAck(wS, 1, 0)) \in Streams
          /\ Fresh(Sent(s2c, SizedAck(wS, 1, 0)), Used(cR), wS + 1)
      BY <2>2, <3>2, SentType, FreshSent DEF IInv, TypeOK
    <3>4. Fresh(s2c, Used(cR), wS + 1)
      <4>1. \A q \in s2c.pkts : q.counter \in Nat
        BY WireAssumption
           DEF IInv, TypeOK, Streams, Packets, PacketFields, WireAssumption
      <4> QED BY <1>4, <3>2, <4>1 DEF Fresh
    <3>5. s2c' \in Streams /\ Fresh(s2c', Used(cR), Used(wS'))
      BY <2>4, <3>1, <3>3, <3>4 DEF IInv, TypeOK, AfterSend
    <3>6. /\ c2s' \in Streams
          /\ wR' \in Counters /\ wR' # -1
          /\ Fresh(c2s', Used(wR'), Used(cS))
      BY <1>1, <1>2, TakeRequestInv
    <3>7. WorkerTypeOK' /\ ~WorkerOpen'
      BY <1>6, <2>1, <2>4, <3>1, <3>6
         DEF WorkerTypeOK, WorkerStates, ServerStates, WorkerOpen
    <3>8. UNCHANGED clientVars
      BY <1>1 DEF TakeRequest
    <3> QED BY <3>5, <3>6, <3>7, <3>8, WorkerActsInv
  <2> QED BY <1>1, <1>9, <2>3, <2>4
<1> QED BY <1>8, <1>9

LEMMA ListRequestInv == IInv /\ ListRequest => IInv'
<1> SUFFICES ASSUME IInv, ListRequest PROVE IInv'
  OBVIOUS
<1>1. PICK p \in c2s.pkts :
         /\ TakeRequest("list", p)
         /\ \/ /\ WorkerSends(SizedAck(wS, 1, 0), "idle", "idle")
               /\ UNCHANGED wNames
            \/ \E names \in Listable :
                  /\ WorkerSends(SizedAck(wS, 0, ListLength(names)), "lsSend", "idle")
                  /\ wNames' = names
  BY DEF ListRequest
<1>2. "list" \in Requests
  BY DEF Requests
<1>3. wS \in 0..MaxCounter
  BY <1>1, WorkerFacts DEF TakeRequest
<1>4. \A names \in Listable : names \in SUBSET Names /\ ListLength(names) \in Nat
  BY ListLengthType DEF Stored, Listable
<1>5. \A code \in 0..2, n \in Nat :
         SizedAck(wS, code, n) \in Packets /\ SizedAck(wS, code, n).counter = wS
  BY <1>3, SizedAckType
<1>6. /\ wFile' \in Names \cup {Absent} /\ wTodo' \in Nat /\ wRest' \in Content
      /\ wBuf' \in Content /\ wError' \in BOOLEAN /\ wResult' \in {-1, 0, 1}
      /\ folder' \in [Names -> Content \cup {Absent}]
  BY DEF ListRequest, IInv, TypeOK, WorkerTypeOK
<1>7. wNames' \in SUBSET Names
  BY <1>1, <1>4 DEF IInv, TypeOK, WorkerTypeOK
<1>8. {"lsSend", "idle"} \subseteq WorkerStates \ {"upClose"}
  BY DEF WorkerStates
<1>9. PICK code \in 0..2, n \in Nat, next \in {"lsSend", "idle"} :
         WorkerSends(SizedAck(wS, code, n), next, "idle")
  BY <1>1, <1>4
<1> QED BY <1>1, <1>2, <1>5, <1>6, <1>7, <1>8, <1>9, HandlerInv

LEMMA RenameOrDeleteInv == IInv /\ (RenameRequest \/ DeleteRequest) => IInv'
<1> SUFFICES ASSUME IInv, RenameRequest \/ DeleteRequest PROVE IInv'
  OBVIOUS
<1>1. PICK op \in {"rename", "delete"}, p \in c2s.pkts, code \in 0..2 :
         /\ TakeRequest(op, p)
         /\ WorkerSends(Ack(wS, code), "idle", "idle")
         /\ \/ UNCHANGED folder
            \/ folder' = [folder EXCEPT ![p.args[1]] = Absent,
                                        ![p.args[2]] = folder[p.args[1]]]
            \/ folder' = [folder EXCEPT ![p.args[1]] = Absent]
  BY DEF RenameRequest, DeleteRequest
<1>2. op \in Requests \ {"list", "logout"}
  BY DEF Requests
<1>3. p.args[1] \in Names
  BY <1>1, <1>2, TakeRequestInv
<1>4. wS \in 0..MaxCounter
  BY <1>1, WorkerFacts DEF TakeRequest
<1>5. Ack(wS, code) \in Packets /\ Ack(wS, code).counter = wS
  BY <1>4, AckType
<1>6. folder' \in [Names -> Content \cup {Absent}]
  BY <1>1, <1>3 DEF IInv, TypeOK, WorkerTypeOK
<1>7. /\ wFile' \in Names \cup {Absent} /\ wTodo' \in Nat /\ wRest' \in Content
      /\ wNames' \in SUBSET Names /\ wBuf' \in Content
      /\ wError' \in BOOLEAN /\ wResult' \in {-1, 0, 1}
  BY DEF RenameRequest, DeleteRequest, transfer, IInv, TypeOK, WorkerTypeOK
<1>8. "idle" \in WorkerStates \ {"upClose"}
  BY DEF WorkerStates
<1> QED BY <1>1, <1>2, <1>5, <1>6, <1>7, <1>8, HandlerInv

LEMMA LogoutRequestInv == IInv /\ LogoutRequest => IInv'
<1> SUFFICES ASSUME IInv, LogoutRequest PROVE IInv'
  OBVIOUS
<1>1. PICK p \in c2s.pkts :
         TakeRequest("logout", p) /\ WorkerSends(Ack(wS, 0), "closed", "closed")
  BY DEF LogoutRequest
<1>2. "logout" \in Requests /\ "closed" \in WorkerStates \ {"upClose"}
  BY DEF Requests, WorkerStates
<1>3. Ack(wS, 0) \in Packets /\ Ack(wS, 0).counter = wS
  BY <1>1, WorkerFacts, AckType DEF TakeRequest
<1>4. /\ wFile' \in Names \cup {Absent} /\ wTodo' \in Nat /\ wRest' \in Content
      /\ wNames' \in SUBSET Names /\ wBuf' \in Content
      /\ wError' \in BOOLEAN /\ wResult' \in {-1, 0, 1}
      /\ folder' \in [Names -> Content \cup {Absent}]
  BY DEF LogoutRequest, transfer, IInv, TypeOK, WorkerTypeOK
<1> QED BY <1>1, <1>2, <1>3, <1>4, HandlerInv

(* A step of an upload that receives nothing and sends nothing.            *)
LEMMA UploadCreateInv == IInv /\ UploadCreate => IInv'
<1> SUFFICES ASSUME IInv, UploadCreate PROVE IInv'
  OBVIOUS
<1>1. /\ UNCHANGED <<c2s, s2c, clientVars, wS, wR, transfer, server>>
      /\ wpc' \in {"upAck", "upChunk", "idle"}
      /\ WorkerOpen /\ wpc = "upCreate"
  BY DEF UploadCreate
<1>2. folder' \in [Names -> Content \cup {Absent}]
  <2>1. <<>> \in Content
    BY DEF Content
  <2>2. folder' = folder \/ folder' = [folder EXCEPT ![wFile] = <<>>]
    BY DEF UploadCreate
  <2> QED BY <2>1, <2>2 DEF IInv, TypeOK, WorkerTypeOK
<1>3. WorkerTypeOK'
  BY <1>1, <1>2 DEF IInv, TypeOK, WorkerTypeOK, WorkerStates, transfer
<1>4. wS' # -1 /\ wR' # -1 /\ wpc' # "upClose"
  BY <1>1 DEF IInv, CountersUsable
<1>5. c2s' \in Streams /\ s2c' \in Streams
  BY <1>1 DEF IInv, TypeOK
<1> QED BY <1>1, <1>3, <1>4, <1>5, WorkerFacts, WorkerActsInv

(* The buffer that the next chunk of an upload has to fill.                *)
LEMMA ChunkAwaited ==
    ASSUME IInv
    PROVE  /\ Shorter(wTodo) \in Nat /\ wTodo - Shorter(wTodo) \in Nat
           /\ ChunkPacketSize(Shorter(wTodo)) \in Nat \ {0}
<1>1. wTodo \in Nat
  BY DEF IInv, TypeOK, WorkerTypeOK
<1>2. Shorter(wTodo) \in Nat /\ Shorter(wTodo) <= wTodo
  BY <1>1, ShorterType
<1> QED BY <1>1, <1>2, SizesType

LEMMA UploadChunkInv == IInv /\ UploadChunk => IInv'
<1> SUFFICES ASSUME IInv, UploadChunk PROVE IInv'
  OBVIOUS
<1> DEFINE size == ChunkPacketSize(Shorter(wTodo))
<1>1. PICK p \in Whole(c2s, size) :
         /\ p.counter = wR
         /\ wR # MaxCounter
         /\ wR' = wR + 1
         /\ \/ /\ wBuf' = wBuf \o p.data
               /\ folder' \in {folder, [folder EXCEPT ![wFile] = wBuf']}
               /\ UploadGoesOn
               /\ UNCHANGED server
            \/ /\ server' = "aborted"
               /\ wpc' = "closed"
               /\ UNCHANGED <<wBuf, folder, wTodo>>
  BY DEF UploadChunk
<1>2. /\ WorkerOpen /\ wpc = "upChunk"
      /\ c2s' = Drop(c2s, size)
      /\ UNCHANGED <<s2c, clientVars, wS, wFile, wRest, wNames, wError, wResult>>
  BY DEF UploadChunk
<1>3. size \in Nat \ {0} /\ wTodo - Shorter(wTodo) \in Nat
  BY ChunkAwaited
<1>4. p \in Packets /\ Readable(c2s, size)
  BY <1>1 DEF Whole, IInv, TypeOK, Streams
<1>5. p.data \in Content /\ p.counter \in 0..MaxCounter
  BY <1>4 DEF Packets, PacketFields
<1> HIDE DEF size
<1>6. /\ wR' \in Counters /\ wR' # -1 /\ Used(wR) = wR /\ Used(wR') = wR + 1
      /\ wR \in Nat
  BY <1>1, <1>5, WireAssumption DEF Counters, Used, WireAssumption
<1>7. c2s' \in Streams
  BY <1>2, <1>3, <1>4, DropType DEF IInv, TypeOK
<1>8. Fresh(c2s', Used(wR'), Used(cS))
  <2>1. Fresh(c2s, wR, Used(cS)) /\ Used(cS) \in Nat
    BY <1>6, WorkerFacts
  <2> QED BY <2>1, <1>1, <1>2, <1>3, <1>6, FreshAccept DEF IInv, TypeOK
<1>9. wBuf' \in Content
  <2>1. wBuf \in Content
    BY DEF IInv, TypeOK, WorkerTypeOK
  <2>2. wBuf \o p.data \in Content
    BY <2>1, <1>5 DEF Content
  <2> QED BY <1>1, <2>1, <2>2
<1>10. folder' \in [Names -> Content \cup {Absent}]
  <2>1. folder' = folder \/ folder' = [folder EXCEPT ![wFile] = wBuf']
    BY <1>1
  <2> QED BY <2>1, <1>9 DEF IInv, TypeOK, WorkerTypeOK
<1>11. wTodo' \in Nat
  BY <1>1, <1>3 DEF UploadGoesOn, IInv, TypeOK, WorkerTypeOK
<1>12. wpc' \in {"upAck", "upChunk", "closed"} /\ server' \in ServerStates
  BY <1>1 DEF UploadGoesOn, ServerStates, IInv, TypeOK, WorkerTypeOK
<1>13. WorkerTypeOK'
  BY <1>2, <1>6, <1>9, <1>10, <1>11, <1>12
     DEF IInv, TypeOK, WorkerTypeOK, WorkerStates
<1>14. wS' # -1 /\ wpc' # "upClose"
  BY <1>2, <1>12 DEF IInv, CountersUsable
<1>15. s2c' \in Streams /\ Fresh(s2c', Used(cR), Used(wS'))
  BY <1>2, WorkerFacts DEF IInv, TypeOK
<1> QED BY <1>2, <1>6, <1>7, <1>8, <1>13, <1>14, <1>15, WorkerActsInv

LEMMA UploadUnreadableInv == IInv /\ UploadUnreadable => IInv'
<1> SUFFICES ASSUME IInv, UploadUnreadable PROVE IInv'
  OBVIOUS
<1>1. /\ WorkerOpen /\ wpc = "upChunk"
      /\ Misread(c2s, ChunkPacketSize(Shorter(wTodo)), ClientOpen, c2s')
      /\ wError' = TRUE
      /\ UNCHANGED <<s2c, clientVars, wS, wR, wFile, wRest, wNames, wBuf,
                     folder, server>>
  BY DEF UploadUnreadable
<1>2. /\ wTodo' \in Nat /\ wResult' \in {-1, 0, 1}
      /\ wpc' \in {"upAck", "upChunk", "upClose"}
  <2>1. CASE UploadGoesOn /\ UNCHANGED wResult
    BY <2>1, ChunkAwaited DEF UploadGoesOn, IInv, TypeOK, WorkerTypeOK
  <2>2. CASE UploadLeaves(0) /\ UNCHANGED wTodo
    BY <2>2 DEF UploadLeaves, IInv, TypeOK, WorkerTypeOK
  <2> QED BY <2>1, <2>2 DEF UploadUnreadable
<1>3. c2s' \in Streams /\ Fresh(c2s', Used(wR), Used(cS))
  BY <1>1, ChunkAwaited, WorkerFacts, MisreadType, FreshMisread DEF IInv, TypeOK
<1>4. WorkerTypeOK'
  BY <1>1, <1>2 DEF IInv, TypeOK, WorkerTypeOK, WorkerStates
<1>5. wS' # -1 /\ wR' # -1
  BY <1>1 DEF IInv, CountersUsable
<1>6. s2c' \in Streams
  BY <1>1 DEF IInv, TypeOK
<1> QED BY <1>1, <1>3, <1>4, <1>5, <1>6, WorkerFacts, WorkerActsInv

LEMMA UploadRejectedInv == IInv /\ UploadRejected => IInv'
<1> SUFFICES ASSUME IInv, UploadRejected PROVE IInv'
  OBVIOUS
<1> DEFINE size == ChunkPacketSize(Shorter(wTodo))
<1>1. /\ WorkerOpen /\ wpc = "upChunk"
      /\ c2s' = Drop(c2s, size) /\ Readable(c2s, size)
      /\ wpc' = "upClose" /\ wResult' = -1
      /\ UNCHANGED <<s2c, clientVars, wS, wR, wFile, wTodo, wRest, wNames, wBuf,
                     wError, folder, server>>
  BY DEF UploadRejected, UploadLeaves, Whole
<1>2. c2s' \in Streams /\ Fresh(c2s', Used(wR), Used(cS))
  BY <1>1, ChunkAwaited, WorkerFacts, DropType, FreshDrop DEF IInv, TypeOK
<1>3. WorkerTypeOK'
  BY <1>1 DEF IInv, TypeOK, WorkerTypeOK, WorkerStates
<1>4. wS' # -1 /\ wR' # -1
  BY <1>1 DEF IInv, CountersUsable
<1>5. s2c' \in Streams
  BY <1>1 DEF IInv, TypeOK
<1> QED BY <1>1, <1>2, <1>3, <1>4, <1>5, WorkerFacts, WorkerActsInv

LEMMA UploadVerdictInv == IInv /\ UploadVerdict => IInv'
<1> SUFFICES ASSUME IInv, UploadVerdict PROVE IInv'
  OBVIOUS
<1>1. /\ WorkerOpen /\ wpc = "upAck" /\ wpc' = "upClose"
      /\ UNCHANGED <<c2s, clientVars, wR, wFile, wTodo, wRest, wNames, wBuf,
                     wError, folder, server>>
  BY DEF UploadVerdict, UploadLeaves
<1>2. wS \in 0..MaxCounter /\ Used(wS) = wS /\ wS # -1
  BY <1>1, WorkerFacts, UsedType DEF IInv, CountersUsable
<1> DEFINE code == IF wError THEN 0 ELSE 1
<1>3. \/ /\ s2c' \in AfterSend(s2c, Ack(wS, code), ClientOpen)
         /\ wS' = Incremented(wS)
         /\ wResult' = IF wS = MaxCounter THEN -1 ELSE 1
      \/ wResult' = 0 /\ UNCHANGED <<s2c, wS>>
  BY DEF UploadVerdict, UploadLeaves
<1> HIDE DEF code
<1>4. /\ s2c' \in Streams /\ wS' \in Counters /\ wResult' \in {-1, 0, 1}
      /\ Fresh(s2c', Used(cR), Used(wS'))
      /\ wS' = -1 => wResult' = -1
  <2>1. CASE /\ s2c' \in AfterSend(s2c, Ack(wS, code), ClientOpen)
             /\ wS' = Incremented(wS)
             /\ wResult' = IF wS = MaxCounter THEN -1 ELSE 1
    <3>1. wS' \in Counters /\ Used(wS') = wS + 1 /\ (wS # MaxCounter => wS' # -1)
      BY <1>2, <2>1, IncrementedType
    <3>2. Ack(wS, code) \in Packets /\ Ack(wS, code).counter = wS
      BY <1>2, AckType DEF code
    <3>3. Fresh(s2c, Used(cR), wS) /\ Used(cR) \in Nat
      BY <1>2, WorkerFacts
    <3>4. /\ Sent(s2c, Ack(wS, code)) \in Streams
          /\ Fresh(Sent(s2c, Ack(wS, code)), Used(cR), wS + 1)
      BY <1>2, <3>2, <3>3, SentType, FreshSent DEF IInv, TypeOK
    <3>5. Fresh(s2c, Used(cR), wS + 1)
      <4>1. \A q \in s2c.pkts : q.counter \in Nat
        BY WireAssumption
           DEF IInv, TypeOK, Streams, Packets, PacketFields, WireAssumption
      <4> QED BY <1>2, <3>3, <4>1 DEF Fresh
    <3>6. s2c' \in Streams /\ Fresh(s2c', Used(cR), Used(wS'))
      BY <2>1, <3>1, <3>4, <3>5 DEF IInv, TypeOK, AfterSend
    <3>7. wResult' \in {-1, 0, 1} /\ (wS' = -1 => wResult' = -1)
      BY <2>1, <3>1
    <3> QED BY <3>1, <3>6, <3>7
  <2>2. CASE wResult' = 0 /\ UNCHANGED <<s2c, wS>>
    BY <2>2, <1>2, WorkerFacts DEF IInv, TypeOK
  <2> QED BY <1>3, <2>1, <2>2
<1>5. WorkerTypeOK'
  BY <1>1, <1>4 DEF IInv, TypeOK, WorkerTypeOK, WorkerStates
<1>6. wR' # -1 /\ c2s' \in Streams /\ Fresh(c2s', Used(wR'), Used(cS))
  BY <1>1, WorkerFacts DEF IInv, TypeOK
<1> QED BY <1>1, <1>4, <1>5, <1>6, WorkerActsInv

LEMMA UploadCloseInv == IInv /\ UploadClose => IInv'
<1> SUFFICES ASSUME IInv, UploadClose PROVE IInv'
  OBVIOUS
<1>1. /\ WorkerOpen /\ wpc = "upClose"
      /\ folder' = [folder EXCEPT ![wFile] = wBuf] \/ folder' = folder
      /\ wpc' = IF wResult = -1 THEN "closed" ELSE "idle"
      /\ server' = IF wResult = -1 THEN "exited" ELSE server
      /\ wFile' = Absent /\ wTodo' = 0 /\ wBuf' = <<>> /\ wError' = FALSE
      /\ wResult' = 0
      /\ UNCHANGED <<c2s, s2c, clientVars, wS, wR, wRest, wNames>>
  BY DEF UploadClose, WorkerReturns
<1>2. folder' \in [Names -> Content \cup {Absent}] /\ wBuf' \in Content
  <2>1. wBuf \in Content /\ <<>> \in Content
    BY DEF IInv, TypeOK, WorkerTypeOK, Content
  <2> QED BY <1>1, <2>1 DEF IInv, TypeOK, WorkerTypeOK
<1>3. WorkerTypeOK'
  BY <1>1, <1>2 DEF IInv, TypeOK, WorkerTypeOK, WorkerStates, ServerStates
<1>4. (WorkerOpen /\ wpc # "upClose" => wS # -1)'
  BY <1>1 DEF IInv, CountersUsable, WorkerOpen
<1>5. wR' # -1 /\ wpc' # "upClose" /\ c2s' \in Streams /\ s2c' \in Streams
  BY <1>1, WorkerFacts DEF IInv, TypeOK
<1> QED BY <1>1, <1>3, <1>4, <1>5, WorkerFacts, WorkerActsInv

LEMMA DownloadChunkInv == IInv /\ DownloadChunk => IInv'
<1> SUFFICES ASSUME IInv, DownloadChunk PROVE IInv'
  OBVIOUS
<1> DEFINE n == Shorter(Len(wRest))
           p == Chunk(wS, SubSeq(wRest, 1, n))
           next == IF wRest' = <<>> THEN "idle" ELSE "dlSend"
<1>1. WorkerOpen /\ wpc = "dlSend" /\ WorkerSends(p, next, "idle")
  BY DEF DownloadChunk
<1>2. SubSeq(wRest, 1, n) \in Content /\ wRest' \in Content
  <2>1. wRest \in Content /\ Len(wRest) \in Nat
    BY DEF IInv, TypeOK, WorkerTypeOK, Content
  <2>2. n \in Nat /\ n <= Len(wRest)
    BY <2>1, ShorterType
  <2> QED BY <2>1, <2>2, SubSeqType DEF DownloadChunk
<1>3. p \in Packets /\ p.counter = wS
  BY <1>1, <1>2, WorkerFacts, ChunkType
<1>4. next \in WorkerStates \ {"upClose"} /\ "idle" \in WorkerStates \ {"upClose"}
  BY DEF WorkerStates
<1> HIDE DEF n, p, next
<1>5. /\ s2c' \in Streams
      /\ wS' \in Counters
      /\ wpc' \in WorkerStates \ {"upClose"}
      /\ server' \in ServerStates
      /\ WorkerOpen' => wS' # -1
      /\ Fresh(s2c', Used(cR), Used(wS'))
  BY <1>1, <1>3, <1>4, WorkerSendsInv
<1>6. UNCHANGED <<c2s, clientVars, wR, wFile, wTodo, wNames, wBuf, wError,
                  wResult, folder>>
  BY DEF DownloadChunk
<1>7. WorkerTypeOK'
  BY <1>2, <1>5, <1>6 DEF IInv, TypeOK, WorkerTypeOK
<1>8. wR' # -1 /\ c2s' \in Streams /\ Fresh(c2s', Used(wR'), Used(cS))
  BY <1>6, WorkerFacts DEF IInv, TypeOK
<1> QED BY <1>5, <1>6, <1>7, <1>8, WorkerActsInv

LEMMA SendListingInv == IInv /\ SendListing => IInv'
<1> SUFFICES ASSUME IInv, SendListing PROVE IInv'
  OBVIOUS
<1>1. /\ WorkerOpen /\ wpc = "lsSend"
      /\ WorkerSends(Listing(wS, wNames), "idle", "idle")
      /\ wNames' = {}
      /\ UNCHANGED <<c2s, clientVars, wR, wFile, wTodo, wRest, wBuf, wError,
                     wResult, folder>>
  BY DEF SendListing
<1>2. wNames \in SUBSET Names
  BY DEF IInv, TypeOK, WorkerTypeOK
<1>3. Listing(wS, wNames) \in Packets /\ Listing(wS, wNames).counter = wS
  BY <1>1, <1>2, WorkerFacts, ListingType
<1>4. "idle" \in WorkerStates \ {"upClose"}
  BY DEF WorkerStates
<1>5. /\ s2c' \in Streams
      /\ wS' \in Counters
      /\ wpc' \in WorkerStates \ {"upClose"}
      /\ server' \in ServerStates
      /\ WorkerOpen' => wS' # -1
      /\ Fresh(s2c', Used(cR), Used(wS'))
  BY <1>1, <1>3, <1>4, WorkerSendsInv
<1>6. WorkerTypeOK'
  BY <1>1, <1>5 DEF IInv, TypeOK, WorkerTypeOK
<1>7. wR' # -1 /\ c2s' \in Streams /\ Fresh(c2s', Used(wR'), Used(cS))
  BY <1>1, WorkerFacts DEF IInv, TypeOK
<1> QED BY <1>1, <1>5, <1>6, <1>7, WorkerActsInv

LEMMA WorkerStepInv == IInv /\ WorkerStep => IInv'
BY RequestRefusedInv, UploadRequestInv, UploadCreateInv, UploadChunkInv,
   UploadUnreadableInv, UploadRejectedInv, UploadVerdictInv, UploadCloseInv,
   DownloadRequestInv, DownloadChunkInv, ListRequestInv, SendListingInv,
   RenameOrDeleteInv, LogoutRequestInv
   DEF WorkerStep

(* The end of a process changes nothing but that it is there.              *)
LEMMA KilledInv == IInv /\ (ClientKilled \/ ServerKilled) => IInv'
<1> SUFFICES ASSUME IInv, ClientKilled \/ ServerKilled PROVE IInv'
  OBVIOUS
<1>1. CASE ClientKilled
  <2>1. cpc' = "exited" /\ UNCHANGED <<c2s, s2c, clientData, shown, workerVars>>
    BY <1>1 DEF ClientKilled
  <2>2. ClientTypeOK' /\ DownloadOpen'
    BY <2>1 DEF IInv, TypeOK, ClientTypeOK, clientData, DownloadOpen, ClientStates
  <2>3. TypeOK' /\ CountersUsable'
    BY <2>1, <2>2, WorkerKept DEF IInv, TypeOK, CountersUsable
  <2>4. CountersUsedOnce'
    BY <2>1 DEF IInv, CountersUsedOnce, workerVars, clientData
  <2> QED BY <2>2, <2>3, <2>4 DEF IInv
<1>2. CASE ServerKilled
  <2>1. server' = "exited"
        /\ UNCHANGED <<c2s, s2c, clientVars, wpc, wS, wR, transfer, folder>>
    BY <1>2 DEF ServerKilled
  <2>2. WorkerTypeOK' /\ ~WorkerOpen'
    BY <2>1 DEF IInv, TypeOK, WorkerTypeOK, transfer, ServerStates, WorkerOpen
  <2>3. wR' # -1 /\ c2s' \in Streams /\ s2c' \in Streams
    BY <2>1, WorkerFacts DEF IInv, TypeOK
  <2> QED BY <2>1, <2>2, <2>3, WorkerFacts, WorkerActsInv
<1> QED BY <1>1, <1>2

-----------------------------------------------------------------------------
(* The theorems.                                                           *)

LEMMA InitInv == Init => IInv
<1> SUFFICES ASSUME Init PROVE IInv
  OBVIOUS
<1>1. EmptyStream \in Streams
  BY DEF EmptyStream, Streams
<1>2. <<>> \in Content /\ 0 \in Counters
  BY WireAssumption DEF Content, Counters, WireAssumption
<1>3. [op |-> "list", args |-> <<>>] \in Commands
  BY DEF Commands, Requests
<1>4. [n \in Names |-> Absent] \in [Names -> Content \cup {Absent}]
  OBVIOUS
<1>5. ClientTypeOK
  BY <1>2, <1>3, <1>4 DEF Init, ClientTypeOK, ClientStates, Outcomes
<1>6. WorkerTypeOK
  BY <1>2, SessionAssumption
     DEF Init, WorkerTypeOK, WorkerStates, ServerStates, SessionAssumption
<1>7. CountersUsable /\ DownloadOpen
  BY <1>2 DEF Init, CountersUsable, DownloadOpen
<1>8. CountersUsedOnce
  BY DEF Init, CountersUsedOnce, Fresh, EmptyStream, Used
<1> QED BY <1>1, <1>5, <1>6, <1>7, <1>8 DEF Init, IInv, TypeOK

LEMMA StepInv == IInv /\ [Next]_vars => IInv'
<1> SUFFICES ASSUME IInv, [Next]_vars PROVE IInv'
  OBVIOUS
<1>1. CASE User \/ ClientStep \/ WorkerStep
  BY <1>1, UserInv, ClientStepInv, WorkerStepInv
<1>2. CASE ClientKilled \/ ServerKilled
  BY <1>2, KilledInv
<1>3. CASE UNCHANGED vars
  <2>1. UNCHANGED <<c2s, s2c, clientVars, workerVars>>
    BY <1>3 DEF vars
  <2>2. WorkerTypeOK'
    BY <2>1, WorkerKept
  <2> QED BY <2>1, <2>2, WorkerKept, WorkerActsInv, WorkerFacts
          DEF IInv, TypeOK, workerVars
<1> QED BY <1>1, <1>2, <1>3 DEF Next

LEMMA SpecInv == Spec => []IInv
BY InitInv, StepInv, PTL DEF Spec

(* Whatever the two programs are made to do, every variable keeps its      *)
(* type: in particular no counter passes its maximum, the size still to be *)
(* transferred never goes below zero on either side, and a chunk of a      *)
(* download is only ever written to the stream of a file that was opened.  *)
THEOREM TypeCorrect == Spec => []TypeOK
<1>1. IInv => TypeOK
  BY DEF IInv
<1> QED BY <1>1, SpecInv, PTL

(* No nonce is used twice in a session: with every fault of the            *)
(* environment allowed, for files, names and sizes of any number and       *)
(* length and any maximum of the counters (Client.cpp and worker.cpp call  *)
(* incrementCounter after each send and each accepted packet).             *)
THEOREM CountersAreUsedOnce == Spec => []CountersUsedOnce
<1>1. IInv => CountersUsedOnce
  BY DEF IInv
<1> QED BY <1>1, SpecInv, PTL
=============================================================================

------------------------ MODULE SessionConversation -------------------------
(***************************************************************************)
(* Client and worker stay in step: what each of them may find in flight at *)
(* every point of its program, and what the two points have to do with     *)
(* each other.                                                             *)
(***************************************************************************)
EXTENDS SessionProofs

(* Nothing of what drives the two apart: a failing encryption sends no     *)
(* bytes at all, a missing folder makes the worker leave an upload without *)
(* a word, and a missing download directory the client leave a download.   *)
Orderly == Faults \cap {"cryptoFails", "noFolder", "noDownloads"} = {}

-----------------------------------------------------------------------------
(* The packets a to b - 1 in flight are the chunks of a file from byte x   *)
(* to byte y.                                                              *)
ChunksOf(st, a, b, file, x, y) ==
    \E from \in [a..b -> 0..Len(file)] :
        /\ from[a] = x /\ from[b] = y
        /\ \A i \in a..b - 1 :
              /\ from[i] < Len(file)
              /\ from[i + 1] = from[i] + Shorter(Len(file) - from[i])
              /\ In(st, Chunk(i, SubSeq(file, from[i] + 1, from[i + 1])))

-----------------------------------------------------------------------------
(* The command in progress, or the last one.                               *)

Mine == Local[req.args[1]]
Theirs == folder[req.args[1]]

CommandOK ==
    /\ req.op = "upload" => \E f \in Names : req.args = <<f>> /\ Uploadable(f)
    /\ req.op \in {"download", "delete"} => \E f \in Names : req.args = <<f>>
    /\ req.op = "rename" => \E f, g \in Names : req.args = <<f, g>>
    /\ cpc \in {"upAck", "upSend", "upFinal"} => req.op = "upload"
    /\ cpc \in {"dlAck", "dlChunk", "dlClose"} => req.op = "download"
    /\ cpc \in {"lsAck", "lsData"} => req.op = "list"
    /\ cpc = "rnAck" => req.op = "rename"
    /\ cpc = "rmAck" => req.op = "delete"
    /\ cpc = "loAck" => req.op = "logout"

(* An upload has left a beginning of the local file, and no more of it     *)
(* than it has received.                                                   *)
UploadOK ==
    /\ wpc = "upCreate" /\ folder[wFile] = Absent =>
          req = [op |-> "upload", args |-> <<wFile>>] /\ wBuf = <<>>
    /\ wpc = "upCreate" => wFile \in Names
    /\ wpc \in {"upChunk", "upAck", "upClose"} =>
          /\ wFile \in Names
          /\ folder[wFile] # Absent
          /\ IsPrefixOf(folder[wFile], wBuf)
          /\ IsPrefixOf(wBuf, Local[wFile])

-----------------------------------------------------------------------------
(* What the client may find in s2c.                                        *)

NoAnswer == Used(wS) = cR
Answer(p) == Used(wS) = cR + 1 /\ In(s2c, p)

(* The chunks from a on are the file from byte x on, up to where the       *)
(* worker is.                                                              *)
FileFollows(a, x) ==
    \E y \in 0..Len(Theirs) :
        /\ ChunksOf(s2c, a, Used(wS), Theirs, x, y)
        /\ WorkerOpen /\ wpc = "dlSend" => y = Len(Theirs) - Len(wRest)
        /\ WorkerOpen /\ wpc = "idle" => y = Len(Theirs)

(* The client has written these bytes to its file, or will do so when it   *)
(* closes it.                                                              *)
Fetched(bytes) ==
    /\ cBuf = bytes
    /\ downloads[req.args[1]] # Absent
    /\ IsPrefixOf(downloads[req.args[1]], bytes)

ClientView ==
    /\ cpc \in {"menu", "upSend", "dlClose"} => NoAnswer
    /\ cpc = "upAck" =>
          \/ NoAnswer
          \/ Answer(Ack(cR, 0)) /\ Theirs # Absent
          \/ Answer(Ack(cR, 1))
    /\ cpc = "upFinal" => NoAnswer \/ Answer(Ack(cR, 1))
    /\ cpc = "dlAck" =>
          \/ NoAnswer
          \/ Answer(SizedAck(cR, 1, 0)) /\ Theirs \in {Absent, <<>>}
          \/ /\ Theirs \notin {Absent, <<>>}
             /\ In(s2c, SizedAck(cR, 0, Len(Theirs)))
             /\ cR < Used(wS)
             /\ FileFollows(cR + 1, 0)
    /\ cpc = "dlChunk" =>
          /\ Theirs # Absent
          /\ cTodo \in 1..Len(Theirs)
          /\ FileFollows(cR, Len(Theirs) - cTodo)
          /\ ~cError => Fetched(SubSeq(Theirs, 1, Len(Theirs) - cTodo))
    /\ cpc = "lsAck" =>
          \/ NoAnswer
          \/ \E names \in Listable :
                /\ In(s2c, SizedAck(cR, 0, ListLength(names)))
                /\ \/ Used(wS) = cR + 1 /\ wNames = names
                   \/ Used(wS) = cR + 2 /\ In(s2c, Listing(cR + 1, names))
    /\ cpc = "lsData" =>
          \E names \in Listable :
             /\ cTodo = ListLength(names)
             /\ \/ NoAnswer /\ wNames = names
                \/ Answer(Listing(cR, names))
    /\ cpc = "rnAck" =>
          \/ NoAnswer
          \/ Answer(Ack(cR, 0)) /\ Theirs = Absent /\ folder[req.args[2]] # Absent
          \/ Answer(Ack(cR, 1)) /\ Theirs # Absent
          \/ Answer(Ack(cR, 2)) /\ Theirs = Absent
    /\ cpc = "rmAck" =>
          \/ NoAnswer
          \/ \E code \in {0, 2} : Answer(Ack(cR, code)) /\ Theirs = Absent
          \/ Answer(Ack(cR, 1)) /\ Theirs # Absent
    /\ cpc = "loAck" => NoAnswer \/ Answer(Ack(cR, 0))

ClientSide ==
    ClientOpen =>
        \/ ~WorkerOpen /\ s2c = EmptyStream
        \/ InOrder(s2c, cR, Used(wS)) /\ ClientView

-----------------------------------------------------------------------------
(* What the worker may find in c2s.                                        *)

(* It is not about to end the process.                                     *)
WorkerLives == WorkerOpen /\ ~(wpc = "upClose" /\ wResult = -1)

(* It will be in its command loop before it looks at c2s again.            *)
Ready ==
    \/ wpc = "idle"
    \/ wpc = "upClose" /\ wResult = 1
    \/ wpc = "upCreate" /\ folder[wFile] # Absent

(* It will look for a chunk.                                               *)
Receives == wpc = "upChunk" \/ (wpc = "upCreate" /\ folder[wFile] = Absent)

Requested ==
    /\ Used(cS) = wR + 1
    /\ In(c2s, Request(req.op, wR, req.args,
                       IF req.op = "upload" THEN Len(Mine) ELSE 0))

Uploading ==
    LET file == Local[wFile] IN
    /\ wTodo \in 1..Len(file)
    /\ wBuf = SubSeq(file, 1, Len(file) - wTodo)
    /\ ~wError
    /\ \E y \in 0..Len(file) :
          /\ ChunksOf(c2s, wR, Used(cS), file, Len(file) - wTodo, y)
          /\ ClientOpen => y = Len(file) - Len(cRest)

WorkerView ==
    /\ Ready => Used(cS) = wR \/ Requested
    /\ Receives => Uploading
    /\ ~Ready /\ ~Receives => Used(cS) = wR
    /\ wpc = "upAck" => ~wError /\ wBuf = Local[wFile]

WorkerSide ==
    WorkerLives =>
        \/ ~ClientOpen /\ c2s = EmptyStream
        \/ InOrder(c2s, wR, Used(cS)) /\ WorkerView

-----------------------------------------------------------------------------
(* Both of them.                                                           *)

Pending == NoAnswer /\ cS = wR + 1 /\ Ready
Quiet == cS = wR /\ wpc = "idle"

IsEndOf(s, t) == Len(s) <= Len(t) /\ s = SubSeq(t, Len(t) - Len(s) + 1, Len(t))

Sending ==
    /\ cS = wR /\ wpc = "dlSend"
    /\ Theirs # Absent /\ wRest # <<>> /\ IsEndOf(wRest, Theirs)
Listed == cS = wR /\ wpc = "lsSend"
Receiving == Receives /\ wFile = req.args[1]

(* What is printed when a list command is answered.                        *)
ListedOK ==
    \/ /\ listed \subseteq Stored \cup {Junk}
       /\ \A m, n \in Stored \ listed : m = n
       /\ Junk \notin listed => listed = Stored
    \/ "listFails" \in Faults /\ listed \subseteq {Junk}

(* What a command printed is so, or will be so when the worker has closed  *)
(* the file.                                                               *)
OutcomeOK ==
    IF wpc = "upClose"
    THEN /\ shown \in {"uploaded", "invalid"}
         /\ shown = "uploaded" => wFile = req.args[1] /\ wBuf = Mine
    ELSE /\ shown = "uploaded" => CopyOf(Theirs, Mine, "diskFull")
         /\ shown = "exists" => Theirs # Absent
         /\ shown = "downloaded" =>
               CopyOf(downloads[req.args[1]], Theirs, "downloadsFull")
         /\ shown = "notOnCloud" => Theirs \in {Absent, <<>>}
         /\ shown = "listed" => ListedOK
         /\ shown = "renamed" => Theirs = Absent /\ folder[req.args[2]] # Absent
         /\ shown \in {"deleted", "deleteMissing", "renameMissing"} => Theirs = Absent
         /\ shown \in {"deleteFailed", "renameFailed"} => Theirs # Absent

Together ==
    /\ cpc = "menu" => Ready /\ cS = wR /\ OutcomeOK
    /\ cpc = "dlClose" =>
          /\ Quiet /\ Theirs # Absent
          /\ shown \in {"downloaded", "downloadFailed"}
          /\ shown = "downloaded" => Fetched(Theirs)
    /\ cpc = "upAck" =>
          /\ cRest = Mine
          /\ \/ Pending
             \/ Answer(Ack(cR, 0)) /\ cS = wR /\ Ready /\ wpc # "upClose"
             \/ Answer(Ack(cR, 1)) /\ Receiving
    /\ cpc = "upSend" => Receiving /\ cRest # <<>> /\ IsEndOf(cRest, Mine)
    /\ cpc = "upFinal" =>
          /\ cRest = <<>>
          /\ \/ NoAnswer /\ Receiving
             \/ NoAnswer /\ wpc = "upAck" /\ wFile = req.args[1]
             \/ /\ ~NoAnswer /\ cS = wR /\ wpc = "upClose" /\ wResult = 1
                /\ wFile = req.args[1] /\ wBuf = Mine
             \/ ~NoAnswer /\ Quiet /\ CopyOf(Theirs, Mine, "diskFull")
    /\ cpc = "dlAck" => Pending \/ (~NoAnswer /\ (Quiet \/ Sending))
    /\ cpc = "dlChunk" => Quiet \/ Sending
    /\ cpc = "lsAck" =>
          \/ Pending
          \/ Used(wS) = cR + 1 /\ Listed
          \/ Used(wS) = cR + 2 /\ Quiet
    /\ cpc = "lsData" => (NoAnswer /\ Listed) \/ (~NoAnswer /\ Quiet)
    /\ cpc \in {"rnAck", "rmAck"} => Pending \/ (~NoAnswer /\ Quiet)
    /\ cpc = "loAck" => Pending

(* While an upload is not closed the client is in it as well, or is at the *)
(* next command, to which there is no answer yet.                          *)
UploadSide ==
    ClientOpen /\ WorkerOpen /\ wpc \in {"upCreate", "upChunk", "upAck", "upClose"} =>
        \/ cpc \in {"upAck", "upSend", "upFinal"}
        \/ NoAnswer /\ cpc \notin {"dlChunk", "dlClose", "lsData"}

Conversation ==
    /\ CommandOK
    /\ UploadSide
    /\ WorkerOpen => UploadOK
    /\ ClientSide
    /\ WorkerSide
    /\ ClientOpen /\ WorkerLives => Together

CInv == IInv /\ Conversation

-----------------------------------------------------------------------------
(* The chunks of a file.                                                   *)

LEMMA ShorterSome ==
    ASSUME NEW n \in Nat \ {0}
    PROVE  Shorter(n) \in 1..n
BY WireAssumption DEF Shorter, WireAssumption

LEMMA ChunksFrom ==
    ASSUME NEW st, NEW a, NEW b, NEW file, NEW x, NEW y,
           NEW from \in [a..b -> 0..Len(file)], from[a] = x, from[b] = y,
           \A i \in a..b - 1 :
              /\ from[i] < Len(file)
              /\ from[i + 1] = from[i] + Shorter(Len(file) - from[i])
              /\ In(st, Chunk(i, SubSeq(file, from[i] + 1, from[i + 1])))
    PROVE  ChunksOf(st, a, b, file, x, y)
BY DEF ChunksOf

LEMMA ChunksNone ==
    ASSUME NEW st, NEW a \in Nat, NEW file \in Content, NEW x \in 0..Len(file)
    PROVE  ChunksOf(st, a, a, file, x, x)
<1> DEFINE from == [i \in a..a |-> x]
<1>1. from \in [a..a -> 0..Len(file)] /\ from[a] = x
  OBVIOUS
<1>2. a..a - 1 = {}
  OBVIOUS
<1> HIDE DEF from
<1> QED BY <1>1, <1>2, ChunksFrom

LEMMA ChunksEmpty ==
    ASSUME NEW st, NEW a \in Nat, NEW file, NEW x, NEW y,
           ChunksOf(st, a, a, file, x, y)
    PROVE  x = y
BY DEF ChunksOf

(* When the file is used up there are none.                                *)
LEMMA ChunksDone ==
    ASSUME NEW st, NEW a \in Nat, NEW b \in Nat, a <= b, NEW file \in Content,
           NEW y, ChunksOf(st, a, b, file, Len(file), y)
    PROVE  a = b
<1>1. PICK from \in [a..b -> 0..Len(file)] :
         /\ from[a] = Len(file)
         /\ \A i \in a..b - 1 : from[i] < Len(file)
  BY DEF ChunksOf
<1>2. Len(file) \in Nat
  BY DEF Content
<1>3. a \notin a..b - 1
  BY <1>1, <1>2
<1> QED BY <1>3

LEMMA ChunksSent ==
    ASSUME NEW st \in Streams, NEW a \in Nat, NEW b \in 0..MaxCounter, a <= b,
           NEW file \in Content, NEW x, NEW y \in 0..Len(file), y < Len(file),
           ChunksOf(st, a, b, file, x, y),
           NEW z, z = y + Shorter(Len(file) - y),
           NEW p, p = Chunk(b, SubSeq(file, y + 1, z))
    PROVE  /\ ChunksOf(Sent(st, p), a, b + 1, file, x, z)
           /\ z \in y + 1..Len(file)
<1> DEFINE size == Len(file)
<1>0. b \in Nat /\ size \in Nat
  BY WireAssumption DEF WireAssumption, Content
<1>1. PICK from \in [a..b -> 0..size] :
         /\ from[a] = x /\ from[b] = y
         /\ \A i \in a..b - 1 :
               /\ from[i] < size
               /\ from[i + 1] = from[i] + Shorter(size - from[i])
               /\ In(st, Chunk(i, SubSeq(file, from[i] + 1, from[i + 1])))
  BY DEF ChunksOf
<1>2. z \in y + 1..size
  <2>1. size - y \in Nat \ {0}
    BY <1>0
  <2>2. Shorter(size - y) \in 1..size - y
    BY <2>1, ShorterSome
  <2> QED BY <1>0, <2>2
<1>3. p \in Packets /\ p.at = 0
  <2>1. SubSeq(file, y + 1, z) \in Content
    BY <1>0, <1>2 DEF Content
  <2>2. PICK data \in Content : data = SubSeq(file, y + 1, z)
    BY <2>1
  <2>3. Chunk(b, data) \in Packets
    BY ChunkType
  <2>4. Chunk(b, data).at = 0
    BY ChunkValues
  <2> QED BY <2>2, <2>3, <2>4
<1>4. In(Sent(st, p), p) /\ \A q : In(st, q) => In(Sent(st, p), q)
  BY <1>3, InSent
<1>5. PICK e \in Nat : e = b + 1
  BY <1>0
<1> DEFINE more == [i \in a..e |-> IF i = e THEN z ELSE from[i]]
<1>6. more \in [a..e -> 0..size]
  BY <1>0, <1>1, <1>2, <1>5
<1>7. more[a] = x /\ more[e] = z
  BY <1>0, <1>1, <1>5
<1>8. ASSUME NEW i \in a..e - 1
      PROVE  /\ more[i] < size
             /\ more[i + 1] = more[i] + Shorter(size - more[i])
             /\ In(Sent(st, p), Chunk(i, SubSeq(file, more[i] + 1, more[i + 1])))
  <2>1. CASE i = b
    <3>1. more[i] = y /\ more[i + 1] = z
      BY <1>0, <1>1, <1>5, <2>1
    <3> HIDE DEF more
    <3> QED BY <1>4, <2>1, <3>1
  <2>2. CASE i # b
    <3>1. i \in a..b - 1 /\ more[i] = from[i] /\ more[i + 1] = from[i + 1]
      BY <1>0, <1>1, <1>5, <2>2
    <3> HIDE DEF more
    <3> QED BY <1>1, <1>4, <3>1
  <2> QED BY <2>1, <2>2
<1> HIDE DEF more
<1>9. ChunksOf(Sent(st, p), a, e, file, x, z)
  BY <1>6, <1>7, <1>8, ChunksFrom
<1> QED BY <1>2, <1>5, <1>9

(* The first of them is read.                                              *)
LEMMA ChunksRead ==
    ASSUME NEW st \in Streams, NEW a \in Nat, NEW b \in Nat, a < b, InOrder(st, a, b),
           NEW file \in Content, NEW x \in 0..Len(file), NEW y \in 0..Len(file),
           ChunksOf(st, a, b, file, x, y)
    PROVE  /\ x < Len(file)
           /\ \E z \in x + 1..Len(file) :
                 /\ z = x + Shorter(Len(file) - x)
                 /\ In(st, Chunk(a, SubSeq(file, x + 1, z)))
                 /\ \A p \in st.pkts : p.counter = a =>
                       ChunksOf(Drop(st, p.size), a + 1, b, file, z, y)
<1> DEFINE size == Len(file)
<1>0. size \in Nat
  BY DEF Content
<1>1. PICK from \in [a..b -> 0..size] :
         /\ from[a] = x /\ from[b] = y
         /\ \A i \in a..b - 1 :
               /\ from[i] < size
               /\ from[i + 1] = from[i] + Shorter(size - from[i])
               /\ In(st, Chunk(i, SubSeq(file, from[i] + 1, from[i + 1])))
  BY DEF ChunksOf
<1>2. a \in a..b - 1 /\ x < size
  BY <1>1
<1>3. PICK z : z = from[a + 1]
  OBVIOUS
<1>4. z = x + Shorter(size - x) /\ In(st, Chunk(a, SubSeq(file, x + 1, z)))
  BY <1>1, <1>2, <1>3
<1>5. z \in x + 1..size
  <2>1. size - x \in Nat \ {0}
    BY <1>0, <1>2
  <2>2. Shorter(size - x) \in 1..size - x
    BY <2>1, ShorterSome
  <2> QED BY <1>0, <1>4, <2>2
<1>6. ASSUME NEW p \in st.pkts, p.counter = a
      PROVE  ChunksOf(Drop(st, p.size), a + 1, b, file, z, y)
  <2> DEFINE less == [i \in a + 1..b |-> from[i]]
  <2>1. less \in [a + 1..b -> 0..size] /\ less[a + 1] = z /\ less[b] = y
    BY <1>1, <1>3
  <2>2. ASSUME NEW i \in a + 1..b - 1
        PROVE  /\ less[i] < size
               /\ less[i + 1] = less[i] + Shorter(size - less[i])
               /\ In(Drop(st, p.size), Chunk(i, SubSeq(file, less[i] + 1, less[i + 1])))
    <3>1. i \in a..b - 1 /\ i # a /\ less[i] = from[i] /\ less[i + 1] = from[i + 1]
      OBVIOUS
    <3> HIDE DEF less
    <3>2. PICK q : q = Chunk(i, SubSeq(file, from[i] + 1, from[i + 1]))
      OBVIOUS
    <3>3. In(st, q) /\ q.counter = i
      BY <1>1, <3>1, <3>2, ChunkValues
    <3>4. In(Drop(st, p.size), q)
      BY <1>6, <3>1, <3>3, InDrop
    <3> QED BY <1>1, <3>1, <3>2, <3>4
  <2> HIDE DEF less
  <2> QED BY <2>1, <2>2, ChunksFrom
<1> QED BY <1>2, <1>4, <1>5, <1>6

(* A packet in front of them is read.                                      *)
LEMMA ChunksKept ==
    ASSUME NEW st \in Streams, NEW a \in Nat, NEW b \in Nat, InOrder(st, a, b),
           NEW p \in st.pkts, p.counter = a,
           NEW file, NEW x, NEW y, ChunksOf(st, a + 1, b, file, x, y)
    PROVE  ChunksOf(Drop(st, p.size), a + 1, b, file, x, y)
<1>1. PICK from \in [a + 1..b -> 0..Len(file)] :
         /\ from[a + 1] = x /\ from[b] = y
         /\ \A i \in a + 1..b - 1 :
               /\ from[i] < Len(file)
               /\ from[i + 1] = from[i] + Shorter(Len(file) - from[i])
               /\ In(st, Chunk(i, SubSeq(file, from[i] + 1, from[i + 1])))
  BY DEF ChunksOf
<1>2. ASSUME NEW i \in a + 1..b - 1
      PROVE  In(Drop(st, p.size), Chunk(i, SubSeq(file, from[i] + 1, from[i + 1])))
  <2>1. PICK q : q = Chunk(i, SubSeq(file, from[i] + 1, from[i + 1]))
    OBVIOUS
  <2>2. In(st, q) /\ q.counter = i
    BY <1>1, <2>1, ChunkValues
  <2>3. i # a
    OBVIOUS
  <2> QED BY <2>1, <2>2, <2>3, InDrop
<1> QED BY <1>1, <1>2, ChunksFrom

-----------------------------------------------------------------------------
(* The numbers of the two programs.                                        *)

LEMMA CounterFacts ==
    ASSUME IInv
    PROVE  /\ c2s \in Streams /\ s2c \in Streams
           /\ Used(wS) \in Nat /\ Used(cS) \in Nat
           /\ wR \in 0..MaxCounter /\ Used(wR) = wR
           /\ wR \in Nat /\ MaxCounter \in Nat
           /\ ClientOpen => /\ cR \in 0..MaxCounter /\ Used(cR) = cR
                            /\ cS \in 0..MaxCounter /\ Used(cS) = cS
                            /\ cR \in Nat /\ cS \in Nat
           /\ WorkerLives => wS \in 0..MaxCounter /\ Used(wS) = wS /\ wS \in Nat
<1>1. /\ c2s \in Streams /\ s2c \in Streams
      /\ cS \in Counters /\ cR \in Counters /\ wS \in Counters /\ wR \in Counters
  BY DEF IInv, TypeOK, ClientTypeOK, WorkerTypeOK
<1>2. wR # -1 /\ (ClientOpen => cS # -1 /\ cR # -1) /\ (WorkerLives => wS # -1)
  BY DEF IInv, CountersUsable, WorkerLives, ClientOpen
<1>3. MaxCounter \in Nat
  BY WireAssumption DEF WireAssumption
<1> QED BY <1>1, <1>2, <1>3, UsedType

(* The names in the command, and what they stand for.                      *)
LEMMA NameFacts ==
    ASSUME IInv, CommandOK
    PROVE  /\ req.op \in {"upload", "download", "delete", "rename"} =>
                 req.args[1] \in Names /\ Theirs \in Content \cup {Absent}
           /\ req.op = "rename" => req.args[2] \in Names
           /\ req.op = "upload" => /\ Mine \in Content /\ Mine # <<>>
                                   /\ Len(Mine) \in Nat \ {0}
                                   /\ req.args = <<req.args[1]>>
<1>1. CASE req.op = "upload"
  <2>1. PICK f \in Names : req.args = <<f>> /\ Uploadable(f)
    BY <1>1 DEF CommandOK
  <2>2. Local[f] \in Content /\ Len(Local[f]) \in Nat \ {0} /\ Local[f] # <<>>
    BY <2>1, SessionAssumption DEF SessionAssumption, Content, Uploadable
  <2>3. folder[f] \in Content \cup {Absent}
    BY DEF IInv, TypeOK, WorkerTypeOK
  <2> QED BY <1>1, <2>1, <2>2, <2>3 DEF Mine, Theirs
<1>2. CASE req.op \in {"download", "delete"}
  <2>1. PICK f \in Names : req.args = <<f>>
    BY <1>2 DEF CommandOK
  <2> QED BY <1>2, <2>1 DEF IInv, TypeOK, WorkerTypeOK, Theirs
<1>3. CASE req.op = "rename"
  <2>1. PICK f \in Names, g \in Names : req.args = <<f, g>>
    BY <1>3 DEF CommandOK
  <2> QED BY <1>3, <2>1 DEF IInv, TypeOK, WorkerTypeOK, Theirs
<1> QED BY <1>1, <1>2, <1>3

-----------------------------------------------------------------------------
(* Reading.                                                                *)

(* A packet that the client reads is the one with the counter it expects,  *)
(* and what is behind it stays in order.                                   *)
LEMMA ClientReads ==
    ASSUME CInv, cpc \in ClientWaits, NEW p \in Whole(s2c, Awaited)
    PROVE  /\ ClientView /\ InOrder(s2c, cR, Used(wS)) /\ cR < Used(wS)
           /\ p \in s2c.pkts /\ p.counter = cR
           /\ InOrder(Drop(s2c, Awaited), cR + 1, Used(wS))
           /\ \A q : In(s2c, q) /\ q.counter = cR => q = p
           /\ \A q : In(s2c, q) /\ q.counter # cR => In(Drop(s2c, Awaited), q)
<1>1. /\ IInv /\ ClientSide /\ ClientOpen
  BY DEF CInv, Conversation, ClientOpen, ClientWaits
<1>2. s2c \in Streams /\ cR \in Nat /\ Used(wS) \in Nat
  BY <1>1, CounterFacts
<1>3. InOrder(s2c, cR, Used(wS)) /\ ClientView
  <2>1. s2c # EmptyStream
    BY DEF Whole, EmptyStream
  <2> QED BY <1>1, <2>1 DEF ClientSide
<1>4. p \in s2c.pkts /\ p.counter = cR /\ p.size = Awaited /\ cR < Used(wS)
  BY <1>2, <1>3, OrderFirst
<1>5. InOrder(Drop(s2c, p.size), cR + 1, Used(wS))
  BY <1>2, <1>3, <1>4, OrderDrop
<1>6. ASSUME NEW q, In(s2c, q), q.counter = cR PROVE q = p
  <2>1. \A r \in Whole(s2c, Awaited) : r = q
    BY <1>2, <1>3, <1>6, FirstWhole
  <2> QED BY <2>1
<1>7. ASSUME NEW q, In(s2c, q), q.counter # cR PROVE In(Drop(s2c, p.size), q)
  BY <1>2, <1>3, <1>4, <1>7, InDrop
<1> QED BY <1>3, <1>4, <1>5, <1>6, <1>7

LEMMA WorkerReads ==
    ASSUME CInv, WorkerLives, NEW n, NEW p \in Whole(c2s, n)
    PROVE  /\ WorkerView /\ InOrder(c2s, wR, Used(cS)) /\ wR < Used(cS)
           /\ p \in c2s.pkts /\ p.counter = wR
           /\ InOrder(Drop(c2s, n), wR + 1, Used(cS))
           /\ \A q : In(c2s, q) /\ q.counter = wR => q = p
           /\ \A q : In(c2s, q) /\ q.counter # wR => In(Drop(c2s, n), q)
<1>1. /\ IInv /\ WorkerSide
  BY DEF CInv, Conversation
<1>2. c2s \in Streams /\ wR \in Nat /\ Used(cS) \in Nat
  BY <1>1, CounterFacts
<1>3. InOrder(c2s, wR, Used(cS)) /\ WorkerView
  <2>1. c2s # EmptyStream
    BY DEF Whole, EmptyStream
  <2> QED BY <1>1, <2>1 DEF WorkerSide
<1>4. p \in c2s.pkts /\ p.counter = wR /\ p.size = n /\ wR < Used(cS)
  BY <1>2, <1>3, OrderFirst
<1>5. InOrder(Drop(c2s, p.size), wR + 1, Used(cS))
  BY <1>2, <1>3, <1>4, OrderDrop
<1>6. ASSUME NEW q, In(c2s, q), q.counter = wR PROVE q = p
  <2>1. \A r \in Whole(c2s, n) : r = q
    BY <1>2, <1>3, <1>6, FirstWhole
  <2> QED BY <2>1
<1>7. ASSUME NEW q, In(c2s, q), q.counter # wR PROVE In(Drop(c2s, p.size), q)
  BY <1>2, <1>3, <1>4, <1>7, InDrop
<1> QED BY <1>3, <1>4, <1>5, <1>6, <1>7

LEMMA PieceFacts ==
    ASSUME NEW file \in Content, NEW x \in 0..Len(file), NEW z \in x + 1..Len(file)
    PROVE  /\ SubSeq(file, x + 1, z) \in Content /\ Len(SubSeq(file, x + 1, z)) = z - x
           /\ SubSeq(file, 1, x) \o SubSeq(file, x + 1, z) = SubSeq(file, 1, z)
BY DEF Content

(* The next chunk, for a reader that has todo bytes still to come.         *)
LEMMA NextPiece ==
    ASSUME NEW st \in Streams, NEW a \in Nat, NEW b \in Nat, a < b, InOrder(st, a, b),
           NEW file \in Content, NEW todo \in 1..Len(file), NEW y \in 0..Len(file),
           ChunksOf(st, a, b, file, Len(file) - todo, y)
    PROVE  /\ todo - Shorter(todo) \in 0..todo - 1
           /\ \E data \in Content :
                 /\ In(st, Chunk(a, data)) /\ Len(data) = Shorter(todo)
                 /\ SubSeq(file, 1, Len(file) - todo) \o data
                       = SubSeq(file, 1, Len(file) - (todo - Shorter(todo)))
           /\ \A p \in st.pkts : p.counter = a =>
                 ChunksOf(Drop(st, p.size), a + 1, b, file,
                          Len(file) - (todo - Shorter(todo)), y)
<1>1. PICK size \in Nat : size = Len(file)
  BY DEF Content
<1>2. PICK x \in 0..size : x = size - todo
  BY <1>1
<1>3. size - x = todo /\ todo \in 1..size
  BY <1>1, <1>2
<1>4. ChunksOf(st, a, b, file, x, y) /\ x \in 0..Len(file)
  BY <1>1, <1>2
<1>5. PICK z \in x + 1..size :
         /\ z = x + Shorter(size - x)
         /\ In(st, Chunk(a, SubSeq(file, x + 1, z)))
         /\ \A p \in st.pkts : p.counter = a =>
               ChunksOf(Drop(st, p.size), a + 1, b, file, z, y)
  BY <1>1, <1>4, ChunksRead
<1>6. Shorter(todo) \in 1..todo
  BY <1>3, ShorterSome
<1>7. z - x = Shorter(todo) /\ z = size - (todo - Shorter(todo))
      /\ todo - Shorter(todo) \in 0..todo - 1
  <2>1. PICK m \in 1..todo : m = Shorter(todo)
    BY <1>6
  <2>2. z = x + m
    BY <1>3, <1>5, <2>1
  <2>3. z - x = m
    BY <1>2, <2>1, <2>2
  <2>4. z = size - (todo - m)
    BY <1>2, <2>1, <2>2
  <2>5. todo - m \in 0..todo - 1
    BY <2>1
  <2> QED BY <2>1, <2>3, <2>4, <2>5
<1>8. PICK data : data = SubSeq(file, x + 1, z)
  OBVIOUS
<1>9. data \in Content /\ Len(data) = Shorter(todo)
      /\ SubSeq(file, 1, x) \o data = SubSeq(file, 1, z)
  BY <1>1, <1>5, <1>7, <1>8, PieceFacts
<1> QED BY <1>1, <1>2, <1>5, <1>7, <1>8, <1>9

(* Where there is something to read, it is what the reader waits for: the  *)
(* sizes that the two programs compute agree.                              *)
LEMMA ClientExpects ==
    ASSUME CInv, cpc \in ClientWaits, ClientView, InOrder(s2c, cR, Used(wS)),
           cR < Used(wS)
    PROVE  \E p : In(s2c, p) /\ p.counter = cR /\ p.size = Awaited
<1>1. IInv /\ CommandOK /\ ClientOpen
  BY DEF CInv, Conversation, ClientOpen, ClientWaits
<1>2. s2c \in Streams /\ cR \in Nat /\ Used(wS) \in Nat /\ ~NoAnswer
  BY <1>1, CounterFacts DEF NoAnswer
<1>3. CASE cpc \in {"upAck", "upFinal", "rnAck", "rmAck", "loAck"}
  <2>1. \E code : In(s2c, Ack(cR, code))
    BY <1>2, <1>3 DEF ClientView, Answer
  <2>2. Awaited = AckSize
    BY <1>3 DEF Awaited
  <2> QED BY <2>1, <2>2, AckValues
<1>4. CASE cpc \in {"dlAck", "lsAck"}
  <2>1. \E code, amount : In(s2c, SizedAck(cR, code, amount))
    BY <1>2, <1>4 DEF ClientView, Answer
  <2>2. Awaited = SizedAckSize
    BY <1>4 DEF Awaited
  <2> QED BY <2>1, <2>2, SizedAckValues
<1>5. CASE cpc = "lsData"
  <2>1. \E names : In(s2c, Listing(cR, names)) /\ cTodo = ListLength(names)
    BY <1>2, <1>5 DEF ClientView, Answer
  <2>2. Awaited = ListingSize(cTodo)
    BY <1>5 DEF Awaited
  <2> QED BY <2>1, <2>2, ListingValues
<1>6. CASE cpc = "dlChunk"
  <2>1. PICK file \in Content : file = Theirs
    <3>1. req.op = "download"
      BY <1>1, <1>6 DEF CommandOK
    <3> QED BY <1>1, <1>6, <3>1, NameFacts DEF ClientView
  <2>2. PICK todo \in 1..Len(file) : todo = cTodo
    BY <1>6, <2>1 DEF ClientView
  <2>3. PICK y \in 0..Len(file) :
           ChunksOf(s2c, cR, Used(wS), file, Len(file) - todo, y)
    BY <1>6, <2>1, <2>2 DEF ClientView, FileFollows
  <2>4. \E data : In(s2c, Chunk(cR, data)) /\ Len(data) = Shorter(todo)
    BY <1>2, <2>3, NextPiece
  <2>5. Awaited = ChunkPacketSize(Shorter(todo))
    BY <1>6, <2>2 DEF Awaited
  <2> QED BY <2>4, <2>5, ChunkValues
<1> QED BY <1>3, <1>4, <1>5, <1>6 DEF ClientWaits

LEMMA FileFacts ==
    ASSUME IInv, UploadOK, wpc \in {"upChunk", "upAck", "upClose", "upCreate"}
    PROVE  wFile \in Names /\ Local[wFile] \in Content
BY SessionAssumption DEF UploadOK, SessionAssumption

LEMMA WorkerExpects ==
    ASSUME CInv, WorkerLives, WorkerView, InOrder(c2s, wR, Used(cS)), wR < Used(cS)
    PROVE  /\ wpc = "idle" => \E p : In(c2s, p) /\ p.counter = wR /\ p.size = RequestSize
           /\ wpc = "upChunk" =>
                 \E p : /\ In(c2s, p) /\ p.counter = wR
                        /\ p.size = ChunkPacketSize(Shorter(wTodo))
<1>1. wR \in Nat /\ Used(cS) \in Nat
  BY CounterFacts DEF CInv
<1>2. CASE wpc = "idle"
  <2>1. \E op, args, amount : In(c2s, Request(op, wR, args, amount))
    BY <1>1, <1>2 DEF WorkerView, Ready, Requested
  <2> QED BY <1>2, <2>1, RequestValues
<1>3. CASE wpc = "upChunk"
  <2>1. PICK file \in Content : file = Local[wFile]
    BY <1>3, FileFacts DEF CInv, Conversation, WorkerLives
  <2>2. Uploading
    BY <1>3 DEF WorkerView, Receives
  <2>3. PICK todo \in 1..Len(file) : todo = wTodo
    BY <2>1, <2>2 DEF Uploading
  <2>4. PICK y \in 0..Len(file) :
           ChunksOf(c2s, wR, Used(cS), file, Len(file) - todo, y)
    BY <2>1, <2>2, <2>3 DEF Uploading
  <2>5. c2s \in Streams
    BY CounterFacts DEF CInv
  <2>6. \E data : In(c2s, Chunk(wR, data)) /\ Len(data) = Shorter(todo)
    BY <1>1, <2>4, <2>5, NextPiece
  <2> QED BY <1>3, <2>3, <2>6, ChunkValues
<1> QED BY <1>2, <1>3

-----------------------------------------------------------------------------
(* Beginnings of a file.                                                   *)

LEMMA PrefixOfItself ==
    ASSUME NEW s \in Content
    PROVE  IsPrefixOf(s, s)
BY DEF IsPrefixOf, Content

LEMMA PrefixTransitive ==
    ASSUME NEW s \in Content, NEW t \in Content, NEW u \in Content,
           IsPrefixOf(s, t), IsPrefixOf(t, u)
    PROVE  IsPrefixOf(s, u)
<1>1. PICK m \in Nat, n \in Nat, k \in Nat : m = Len(s) /\ n = Len(t) /\ k = Len(u)
  BY DEF Content
<1>2. m <= n /\ n <= k /\ s = SubSeq(t, 1, m) /\ t = SubSeq(u, 1, n)
  BY <1>1 DEF IsPrefixOf
<1>3. SubSeq(SubSeq(u, 1, n), 1, m) = SubSeq(u, 1, m)
  BY <1>1, <1>2 DEF Content
<1> QED BY <1>1, <1>2, <1>3 DEF IsPrefixOf

LEMMA PrefixOfFile ==
    ASSUME NEW file \in Content, NEW k \in 0..Len(file), NEW j \in 0..k
    PROVE  /\ SubSeq(file, 1, k) \in Content
           /\ IsPrefixOf(SubSeq(file, 1, k), file)
           /\ IsPrefixOf(SubSeq(file, 1, j), SubSeq(file, 1, k))
<1>1. PICK t : t = SubSeq(file, 1, k)
  OBVIOUS
<1>2. PICK s : s = SubSeq(file, 1, j)
  OBVIOUS
<1>3. t \in Content /\ Len(t) = k /\ s \in Content /\ Len(s) = j /\ Len(file) \in Nat
  BY <1>1, <1>2 DEF Content
<1>4. s = SubSeq(t, 1, j)
  BY <1>1, <1>2 DEF Content
<1>5. IsPrefixOf(t, file)
  BY <1>1, <1>3 DEF IsPrefixOf
<1>6. IsPrefixOf(s, t)
  BY <1>3, <1>4 DEF IsPrefixOf
<1> QED BY <1>1, <1>2, <1>3, <1>5, <1>6

-----------------------------------------------------------------------------
(* The client's steps.                                                     *)

(* A step that leaves the worker's side of the conversation alone.         *)
LEMMA ClientParts ==
    ASSUME CInv, ClientOpen, UNCHANGED <<c2s, cS, req, cRest, workerVars>>,
           CommandOK', ClientSide', UploadSide',
           ClientOpen' /\ WorkerLives => Together'
    PROVE  Conversation'
<1>1. /\ c2s' = c2s /\ cS' = cS /\ req' = req /\ cRest' = cRest
      /\ wpc' = wpc /\ wR' = wR /\ wFile' = wFile /\ wTodo' = wTodo /\ wBuf' = wBuf
      /\ wError' = wError /\ wResult' = wResult /\ folder' = folder /\ server' = server
  BY DEF workerVars, transfer
<1>2. /\ WorkerOpen => UploadOK
      /\ WorkerLives => InOrder(c2s, wR, Used(cS)) /\ WorkerView
  BY DEF CInv, Conversation, WorkerSide
<1>3. (WorkerOpen => UploadOK)'
  BY <1>1, <1>2 DEF WorkerOpen, UploadOK
<1>4. WorkerLives' <=> WorkerLives
  BY <1>1 DEF WorkerLives, WorkerOpen
<1>5. WorkerView => WorkerView'
  BY <1>1 DEF WorkerView, Ready, Receives, Requested, Uploading, Mine
<1>6. WorkerSide'
  BY <1>1, <1>2, <1>4, <1>5 DEF WorkerSide
<1> QED BY <1>3, <1>4, <1>6 DEF Conversation

(* Back at the menu, with nothing left in s2c.                             *)
LEMMA ReturnsParts ==
    ASSUME CInv, ClientOpen, UNCHANGED <<c2s, cS, req, cRest, workerVars>>,
           cpc' \in {"menu", "exited"},
           cpc' = "menu" =>
              /\ InOrder(s2c', cR', Used(wS)) /\ Used(wS) = cR'
              /\ WorkerLives => Ready /\ cS = wR /\ OutcomeOK'
    PROVE  Conversation'
<1>1. /\ cS' = cS /\ req' = req /\ wpc' = wpc /\ wResult' = wResult /\ wFile' = wFile
      /\ folder' = folder /\ wR' = wR /\ wS' = wS
  BY DEF workerVars, transfer
<1>2. CommandOK'
  BY <1>1 DEF CInv, Conversation, CommandOK
<1>3. ClientSide'
  <2>1. cpc' = "menu" => ClientView'
    BY <1>1 DEF ClientView, NoAnswer
  <2> QED BY <1>1, <2>1 DEF ClientSide, ClientOpen
<1>4. ClientOpen' /\ WorkerLives => Together'
  BY <1>1 DEF Together, ClientOpen, Ready
<1>5. UploadSide'
  BY <1>1 DEF UploadSide, NoAnswer, ClientOpen
<1> QED BY <1>2, <1>3, <1>4, <1>5, ClientParts

LEMMA AckReads ==
    ASSUME NEW c, NEW code
    PROVE  AckCodes(Ack(c, code)) = {code}
BY AckValues DEF AckCodes

LEMMA SizedAckReads ==
    ASSUME NEW c, NEW code, NEW amount
    PROVE  /\ AckCodes(SizedAck(c, code, amount)) = {code}
           /\ AckAmounts(SizedAck(c, code, amount)) = {amount}
BY SizedAckValues DEF AckCodes, AckAmounts

(* receiveData, deserialize and the counter check.                         *)
LEMMA Accepts ==
    ASSUME CInv, NEW state \in ClientWaits, NEW p, Accept(state, p)
    PROVE  /\ IInv /\ CommandOK /\ ClientOpen /\ cpc = state
           /\ s2c \in Streams /\ cR \in Nat /\ Used(wS) \in Nat
           /\ UNCHANGED <<c2s, cS, req, workerVars>>
           /\ ClientView /\ ~NoAnswer /\ cR < Used(wS) /\ cR' = cR + 1
           /\ s2c' = Drop(s2c, Awaited) /\ InOrder(s2c', cR', Used(wS))
           /\ InOrder(s2c, cR, Used(wS)) /\ p \in s2c.pkts /\ p.counter = cR
           /\ p.size = Awaited
           /\ \A q : In(s2c, q) /\ q.counter = cR => q = p
           /\ \A q : In(s2c, q) /\ q.counter # cR => In(s2c', q)
           /\ WorkerLives => Together
<1>1. /\ cpc = state /\ p \in Whole(s2c, Awaited) /\ s2c' = Drop(s2c, Awaited)
      /\ cR' = cR + 1 /\ UNCHANGED <<c2s, cS, req, workerVars>>
  BY DEF Accept
<1>2. IInv /\ CommandOK /\ ClientOpen /\ (WorkerLives => Together)
  BY <1>1 DEF CInv, Conversation, ClientOpen, ClientWaits
<1>3. s2c \in Streams /\ cR \in Nat /\ Used(wS) \in Nat
  BY <1>2, CounterFacts
<1>4. /\ ClientView /\ InOrder(s2c, cR, Used(wS)) /\ cR < Used(wS)
      /\ p \in s2c.pkts /\ p.counter = cR
      /\ InOrder(Drop(s2c, Awaited), cR + 1, Used(wS))
      /\ \A q : In(s2c, q) /\ q.counter = cR => q = p
      /\ \A q : In(s2c, q) /\ q.counter # cR => In(Drop(s2c, Awaited), q)
  BY <1>1, ClientReads
<1>5. ~NoAnswer /\ p.size = Awaited
  BY <1>1, <1>3, <1>4 DEF NoAnswer, Whole
<1> QED BY <1>1, <1>2, <1>3, <1>4, <1>5

LEMMA ReceiveUploadAckTalk == CInv /\ ReceiveUploadAck => Conversation'
<1> SUFFICES ASSUME CInv, ReceiveUploadAck PROVE Conversation'
  OBVIOUS
<1>1. PICK p \in s2c.pkts :
         /\ Accept("upAck", p)
         /\ \E code \in AckCodes(p) :
               IF code = 0 THEN ClientReturns("exists")
               ELSE cpc' = "upSend" /\ UNCHANGED shown
  BY DEF ReceiveUploadAck
<1>2. UNCHANGED <<cRest, cTodo, cError, downloads, listed>>
  BY DEF ReceiveUploadAck
<1>3. "upAck" \in ClientWaits
  BY DEF ClientWaits
<1>4. /\ IInv /\ CommandOK /\ ClientOpen /\ cpc = "upAck"
      /\ cR \in Nat /\ Used(wS) \in Nat
      /\ UNCHANGED <<c2s, cS, req, workerVars>>
      /\ ClientView /\ ~NoAnswer /\ cR' = cR + 1
      /\ InOrder(s2c', cR', Used(wS))
      /\ \A q : In(s2c, q) /\ q.counter = cR => q = p
      /\ WorkerLives => Together
  BY <1>1, <1>3, Accepts
<1>5. req.op = "upload" /\ req' = req /\ folder' = folder /\ wpc' = wpc /\ wS' = wS
  BY <1>4 DEF CommandOK, workerVars
<1>6. CASE Answer(Ack(cR, 0)) /\ Theirs # Absent
  <2>1. p = Ack(cR, 0) /\ Used(wS) = cR + 1
    BY <1>4, <1>6, AckValues DEF Answer
  <2>2. cpc' = "menu" /\ shown' = "exists"
    <3>1. AckCodes(p) = {0}
      BY <2>1, AckReads
    <3>2. ClientReturns("exists")
      BY <1>1, <3>1
    <3> QED BY <1>5, <3>2 DEF ClientReturns
  <2>3. ~Answer(Ack(cR, 1))
    <3>1. Ack(cR, 0) # Ack(cR, 1)
      <4>1. Ack(cR, 0).code = 0 /\ Ack(cR, 1).code = 1
        BY AckValues
      <4> QED BY <4>1
    <3> QED BY <1>4, <2>1, <3>1, AckValues DEF Answer
  <2>4. WorkerLives => Ready /\ cS = wR /\ wpc # "upClose"
    BY <1>4, <2>3 DEF Together, Pending
  <2>5. Theirs' = Theirs
    BY <1>5 DEF Theirs
  <2>6. WorkerLives => OutcomeOK'
    BY <1>5, <1>6, <2>2, <2>4, <2>5 DEF OutcomeOK
  <2> QED BY <1>2, <1>4, <2>1, <2>2, <2>4, <2>6, ReturnsParts
<1>7. CASE Answer(Ack(cR, 1))
  <2>1. p = Ack(cR, 1) /\ Used(wS) = cR + 1
    BY <1>4, <1>7, AckValues DEF Answer
  <2>2. cpc' = "upSend"
    <3>1. AckCodes(p) = {1}
      BY <2>1, AckReads
    <3> QED BY <1>1, <3>1
  <2>3. ~Answer(Ack(cR, 0))
    <3>1. Ack(cR, 0) # Ack(cR, 1)
      <4>1. Ack(cR, 0).code = 0 /\ Ack(cR, 1).code = 1
        BY AckValues
      <4> QED BY <4>1
    <3> QED BY <1>4, <2>1, <3>1, AckValues DEF Answer
  <2>4. WorkerLives => Receiving /\ cRest = Mine
    BY <1>4, <2>3 DEF Together, Pending
  <2>5. CommandOK'
    BY <1>4, <1>5, <2>2 DEF CommandOK
  <2>6. ClientSide'
    <3>1. ClientView'
      BY <1>4, <1>5, <2>1, <2>2 DEF ClientView, NoAnswer
    <3> QED BY <1>4, <1>5, <3>1 DEF ClientSide
  <2>7. WorkerLives => Together'
    <3>1. Mine \in Content /\ Mine # <<>>
      BY <1>4, <1>5, NameFacts
    <3>2. IsEndOf(Mine, Mine)
      <4>1. \A s \in Content : Len(s) <= Len(s) /\ s = SubSeq(s, Len(s) - Len(s) + 1, Len(s))
        BY DEF Content
      <4> QED BY <3>1, <4>1 DEF IsEndOf
    <3>3. Mine' = Mine /\ cRest' = cRest /\ wFile' = wFile
      BY <1>2, <1>4, <1>5 DEF Mine, workerVars, transfer
    <3>4. Receiving => Receiving'
      BY <1>5, <3>3 DEF Receiving, Receives
    <3> QED BY <2>2, <2>4, <3>1, <3>2, <3>3, <3>4 DEF Together
  <2>8. UploadSide'
    BY <2>2 DEF UploadSide
  <2> QED BY <1>2, <1>4, <2>5, <2>6, <2>7, <2>8, ClientParts
<1> QED BY <1>4, <1>6, <1>7 DEF ClientView

LEMMA ReceiveUploadVerdictTalk == CInv /\ ReceiveUploadVerdict => Conversation'
<1> SUFFICES ASSUME CInv, ReceiveUploadVerdict PROVE Conversation'
  OBVIOUS
<1>1. PICK p \in s2c.pkts :
         /\ Accept("upFinal", p)
         /\ \E code \in AckCodes(p) :
               ClientReturns(IF code = 0 THEN "uploadFailed" ELSE "uploaded")
  BY DEF ReceiveUploadVerdict
<1>2. UNCHANGED <<cRest, cTodo, cError, downloads, listed>>
  BY DEF ReceiveUploadVerdict
<1>3. "upFinal" \in ClientWaits
  BY DEF ClientWaits
<1>4. /\ CommandOK /\ ClientOpen /\ cpc = "upFinal"
      /\ UNCHANGED <<c2s, cS, req, workerVars>>
      /\ ClientView /\ ~NoAnswer /\ cR' = cR + 1
      /\ InOrder(s2c', cR', Used(wS))
      /\ \A q : In(s2c, q) /\ q.counter = cR => q = p
      /\ WorkerLives => Together
  BY <1>1, <1>3, Accepts
<1>5. req.op = "upload" /\ req' = req /\ folder' = folder /\ wpc' = wpc
      /\ wFile' = wFile /\ wBuf' = wBuf
  BY <1>4 DEF CommandOK, workerVars, transfer
<1>6. p = Ack(cR, 1) /\ Used(wS) = cR + 1
  BY <1>4, AckValues DEF ClientView, Answer
<1>7. cpc' = "menu" /\ shown' = "uploaded"
  <2>1. AckCodes(p) = {1}
    BY <1>6, AckReads
  <2>2. ClientReturns("uploaded")
    BY <1>1, <2>1
  <2> QED BY <1>5, <2>2 DEF ClientReturns
<1>8. ASSUME WorkerLives PROVE Ready /\ cS = wR /\ OutcomeOK'
  <2>1. /\ cS = wR
        /\ \/ wpc = "upClose" /\ wResult = 1 /\ wFile = req.args[1] /\ wBuf = Mine
           \/ wpc = "idle" /\ CopyOf(Theirs, Mine, "diskFull")
    BY <1>4, <1>8 DEF Together, Quiet
  <2>2. Ready
    BY <2>1 DEF Ready
  <2>3. Mine' = Mine /\ Theirs' = Theirs
    BY <1>5 DEF Mine, Theirs
  <2>4. OutcomeOK'
    BY <1>5, <1>7, <2>1, <2>3 DEF OutcomeOK
  <2> QED BY <2>1, <2>2, <2>4
<1> QED BY <1>2, <1>4, <1>6, <1>7, <1>8, ReturnsParts

LEMMA ReceiveRenameAckTalk == CInv /\ ReceiveRenameAck => Conversation'
<1> SUFFICES ASSUME CInv, ReceiveRenameAck PROVE Conversation'
  OBVIOUS
<1>1. PICK p \in s2c.pkts :
         /\ Accept("rnAck", p)
         /\ \E code \in AckCodes(p) : ClientReturns(RenameOutcome[code])
  BY DEF ReceiveRenameAck
<1>2. UNCHANGED <<cRest, cTodo, cError, downloads, listed>>
  BY DEF ReceiveRenameAck
<1>3. "rnAck" \in ClientWaits
  BY DEF ClientWaits
<1>4. /\ CommandOK /\ ClientOpen /\ cpc = "rnAck"
      /\ UNCHANGED <<c2s, cS, req, workerVars>>
      /\ ClientView /\ ~NoAnswer /\ cR' = cR + 1
      /\ InOrder(s2c', cR', Used(wS))
      /\ \A q : In(s2c, q) /\ q.counter = cR => q = p
      /\ WorkerLives => Together
  BY <1>1, <1>3, Accepts
<1>5. req.op = "rename" /\ req' = req /\ folder' = folder /\ wpc' = wpc
  BY <1>4 DEF CommandOK, workerVars
<1>6. PICK code \in {0, 1, 2} :
         /\ Answer(Ack(cR, code))
         /\ code = 0 => Theirs = Absent /\ folder[req.args[2]] # Absent
         /\ code = 1 => Theirs # Absent
         /\ code = 2 => Theirs = Absent
  BY <1>4 DEF ClientView
<1>7. p = Ack(cR, code) /\ Used(wS) = cR + 1
  BY <1>4, <1>6, AckValues DEF Answer
<1>8. cpc' = "menu" /\ shown' = RenameOutcome[code]
  <2>1. AckCodes(p) = {code}
    BY <1>7, AckReads
  <2>2. ClientReturns(RenameOutcome[code])
    BY <1>1, <2>1
  <2> QED BY <1>5, <2>2 DEF ClientReturns
<1>9. shown' = CASE code = 0 -> "renamed"
                 [] code = 1 -> "renameFailed"
                 [] code = 2 -> "renameMissing"
  BY <1>8 DEF RenameOutcome
<1>10. WorkerLives => Ready /\ cS = wR /\ wpc = "idle"
  BY <1>4 DEF Together, Quiet, Ready, Pending
<1>11. Theirs' = Theirs /\ folder'[req'.args[2]] = folder[req.args[2]]
  BY <1>5 DEF Theirs
<1>12. WorkerLives => OutcomeOK'
  BY <1>5, <1>6, <1>9, <1>10, <1>11 DEF OutcomeOK
<1> QED BY <1>2, <1>4, <1>7, <1>8, <1>10, <1>12, ReturnsParts

LEMMA ReceiveDeleteAckTalk == CInv /\ ReceiveDeleteAck => Conversation'
<1> SUFFICES ASSUME CInv, ReceiveDeleteAck PROVE Conversation'
  OBVIOUS
<1>1. PICK p \in s2c.pkts :
         /\ Accept("rmAck", p)
         /\ \E code \in AckCodes(p) : ClientReturns(DeleteOutcome[code])
  BY DEF ReceiveDeleteAck
<1>2. UNCHANGED <<cRest, cTodo, cError, downloads, listed>>
  BY DEF ReceiveDeleteAck
<1>3. "rmAck" \in ClientWaits
  BY DEF ClientWaits
<1>4. /\ CommandOK /\ ClientOpen /\ cpc = "rmAck"
      /\ UNCHANGED <<c2s, cS, req, workerVars>>
      /\ ClientView /\ ~NoAnswer /\ cR' = cR + 1
      /\ InOrder(s2c', cR', Used(wS))
      /\ \A q : In(s2c, q) /\ q.counter = cR => q = p
      /\ WorkerLives => Together
  BY <1>1, <1>3, Accepts
<1>5. req.op = "delete" /\ req' = req /\ folder' = folder /\ wpc' = wpc
  BY <1>4 DEF CommandOK, workerVars
<1>6. PICK code \in {0, 1, 2} :
         /\ Answer(Ack(cR, code))
         /\ code \in {0, 2} => Theirs = Absent
         /\ code = 1 => Theirs # Absent
  BY <1>4 DEF ClientView
<1>7. p = Ack(cR, code) /\ Used(wS) = cR + 1
  BY <1>4, <1>6, AckValues DEF Answer
<1>8. cpc' = "menu" /\ shown' = DeleteOutcome[code]
  <2>1. AckCodes(p) = {code}
    BY <1>7, AckReads
  <2>2. ClientReturns(DeleteOutcome[code])
    BY <1>1, <2>1
  <2> QED BY <1>5, <2>2 DEF ClientReturns
<1>9. shown' = CASE code = 0 -> "deleted"
                 [] code = 1 -> "deleteFailed"
                 [] code = 2 -> "deleteMissing"
  BY <1>8 DEF DeleteOutcome
<1>10. WorkerLives => Ready /\ cS = wR /\ wpc = "idle"
  BY <1>4 DEF Together, Quiet, Ready, Pending
<1>11. Theirs' = Theirs
  BY <1>5 DEF Theirs
<1>12. WorkerLives => OutcomeOK'
  BY <1>5, <1>6, <1>9, <1>10, <1>11 DEF OutcomeOK
<1> QED BY <1>2, <1>4, <1>7, <1>8, <1>10, <1>12, ReturnsParts

LEMMA ReceiveLogoutAckTalk == CInv /\ ReceiveLogoutAck => Conversation'
<1> SUFFICES ASSUME CInv, ReceiveLogoutAck PROVE Conversation'
  OBVIOUS
<1>1. PICK p \in s2c.pkts :
         /\ Accept("loAck", p)
         /\ \E code \in AckCodes(p) :
               ClientReturns(IF code = 0 THEN "loggedOut" ELSE "logoutFailed")
  BY DEF ReceiveLogoutAck
<1>2. UNCHANGED <<cRest, cTodo, cError, downloads, listed>>
  BY DEF ReceiveLogoutAck
<1>3. "loAck" \in ClientWaits
  BY DEF ClientWaits
<1>4. /\ CommandOK /\ ClientOpen /\ cpc = "loAck"
      /\ UNCHANGED <<c2s, cS, req, workerVars>>
  BY <1>1, <1>3, Accepts
<1>5. cpc' = "exited"
  BY <1>1, <1>4 DEF CommandOK, ClientReturns
<1> QED BY <1>2, <1>4, <1>5, ReturnsParts

LEMMA ReplyRejectedTalk == CInv /\ ReplyRejected => Conversation'
<1> SUFFICES ASSUME CInv, ReplyRejected PROVE Conversation'
  OBVIOUS
<1>1. /\ ClientOpen /\ cpc' = "exited"
      /\ UNCHANGED <<c2s, cS, req, cRest, workerVars>>
  BY DEF ReplyRejected, ClientOpen, ClientWaits
<1> QED BY <1>1, ReturnsParts

LEMMA ClientKilledTalk == CInv /\ ClientKilled => Conversation'
<1> SUFFICES ASSUME CInv, ClientKilled PROVE Conversation'
  OBVIOUS
<1>1. /\ ClientOpen /\ cpc' = "exited"
      /\ UNCHANGED <<c2s, cS, req, cRest, workerVars>>
  BY DEF ClientKilled, clientData
<1> QED BY <1>1, ReturnsParts

LEMMA ReceiveListAckTalk == CInv /\ ReceiveListAck => Conversation'
<1> SUFFICES ASSUME CInv, ReceiveListAck PROVE Conversation'
  OBVIOUS
<1>1. PICK p \in s2c.pkts :
         /\ Accept("lsAck", p)
         /\ \E code \in AckCodes(p) :
               IF code = 1
               THEN ClientReturns("noFolder") /\ UNCHANGED cTodo
               ELSE cpc' = "lsData" /\ cTodo' \in AckAmounts(p) /\ UNCHANGED shown
  BY DEF ReceiveListAck
<1>2. UNCHANGED <<cRest, cError, downloads, listed>>
  BY DEF ReceiveListAck
<1>3. "lsAck" \in ClientWaits
  BY DEF ClientWaits
<1>4. /\ CommandOK /\ ClientOpen /\ cpc = "lsAck" /\ cR \in Nat /\ Used(wS) \in Nat
      /\ UNCHANGED <<c2s, cS, req, workerVars>>
      /\ ClientView /\ ~NoAnswer /\ cR' = cR + 1
      /\ InOrder(s2c', cR', Used(wS))
      /\ \A q : In(s2c, q) /\ q.counter = cR => q = p
      /\ \A q : In(s2c, q) /\ q.counter # cR => In(s2c', q)
      /\ WorkerLives => Together
  BY <1>1, <1>3, Accepts
<1>5. /\ req' = req /\ folder' = folder /\ wpc' = wpc /\ wS' = wS /\ wR' = wR
      /\ cS' = cS /\ wNames' = wNames /\ server' = server
  BY <1>4 DEF workerVars, transfer
<1>6. PICK names \in Listable :
         /\ In(s2c, SizedAck(cR, 0, ListLength(names)))
         /\ \/ Used(wS) = cR + 1 /\ wNames = names
            \/ Used(wS) = cR + 2 /\ In(s2c, Listing(cR + 1, names))
  BY <1>4 DEF ClientView
<1>7. PICK amount : amount = ListLength(names) /\ In(s2c, SizedAck(cR, 0, amount))
  BY <1>6
<1>8. p = SizedAck(cR, 0, amount)
  BY <1>4, <1>7, SizedAckValues
<1>9. cpc' = "lsData" /\ cTodo' = amount
  <2>1. AckCodes(p) = {0} /\ AckAmounts(p) = {amount}
    BY <1>8, SizedAckReads
  <2> QED BY <1>1, <2>1
<1>10. CommandOK'
  BY <1>4, <1>5, <1>9 DEF CommandOK
<1>11. Listable' = Listable
  BY <1>5 DEF Stored, Listable
<1>12. ClientSide'
  <2>1. Used(wS) = cR + 2 => In(s2c', Listing(cR + 1, names)) /\ cR' + 1 = cR + 2
    <3>1. Listing(cR + 1, names).counter # cR
      BY <1>4, ListingValues
    <3> QED BY <1>4, <1>6, <3>1
  <2>2. (NoAnswer' /\ wNames' = names) \/ Answer(Listing(cR, names))'
    BY <1>4, <1>5, <1>6, <2>1 DEF NoAnswer, Answer
  <2>3. ClientView'
    BY <1>6, <1>7, <1>9, <1>11, <2>2 DEF ClientView
  <2> QED BY <1>4, <1>5, <2>3 DEF ClientSide
<1>13. WorkerLives => Together'
  <2>1. WorkerLives =>
           (Used(wS) = cR + 1 /\ Listed) \/ (Used(wS) = cR + 2 /\ Quiet)
    BY <1>4 DEF Together, Pending
  <2>2. (Listed => Listed') /\ (Quiet => Quiet')
    BY <1>5 DEF Listed, Quiet
  <2> QED BY <1>4, <1>5, <1>9, <2>1, <2>2 DEF Together, NoAnswer
<1>14. UploadSide'
  BY <1>4, <1>5 DEF CInv, Conversation, UploadSide, ClientOpen, WorkerOpen
<1> QED BY <1>2, <1>4, <1>10, <1>12, <1>13, <1>14, ClientParts

LEMMA ReceiveListingTalk == CInv /\ ReceiveListing => Conversation'
<1> SUFFICES ASSUME CInv, ReceiveListing PROVE Conversation'
  OBVIOUS
<1>1. PICK p \in Whole(s2c, Awaited) :
         cpc = "lsData" /\ p.counter = cR /\ listed' \in Printed(p.names)
  BY DEF ReceiveListing
<1>2. /\ s2c' = Drop(s2c, Awaited)
      /\ cR' = Incremented(cR)
      /\ cpc' = IF cR = MaxCounter THEN "exited" ELSE "menu"
      /\ shown' = "listed"
      /\ UNCHANGED <<c2s, cS, req, cRest, cError, downloads, cBuf, workerVars>>
  BY DEF ReceiveListing
<1>3. cpc \in ClientWaits /\ ClientOpen /\ (WorkerLives => Together)
  BY <1>1 DEF ClientWaits, ClientOpen, CInv, Conversation
<1>4. /\ ClientView /\ cR < Used(wS) /\ cR \in Nat /\ Used(wS) \in Nat
      /\ InOrder(Drop(s2c, Awaited), cR + 1, Used(wS))
      /\ \A q : In(s2c, q) /\ q.counter = cR => q = p
  BY <1>1, <1>3, ClientReads, CounterFacts DEF CInv
<1>5. ~NoAnswer
  BY <1>4 DEF NoAnswer
<1>6. PICK names \in Listable : p = Listing(cR, names) /\ Used(wS) = cR + 1
  BY <1>1, <1>4, <1>5, ListingValues DEF ClientView, Answer
<1>7. /\ names = Stored \/ ("listFails" \in Faults /\ names = {})
      /\ listed' = names \/ \E n \in Names : listed' = (names \ {n}) \cup {Junk}
  <2>1. p.names = names
    BY <1>6, ListingValues
  <2> QED BY <1>1, <2>1 DEF Listable, Printed
<1>8. cpc' \in {"menu", "exited"} /\ (cpc' = "menu" => cR' = cR + 1)
  BY <1>2 DEF Incremented
<1>9. /\ req' = req /\ folder' = folder /\ wpc' = wpc
  BY <1>2 DEF workerVars
<1>10. WorkerLives => Ready /\ cS = wR /\ wpc = "idle"
  BY <1>1, <1>3, <1>5 DEF Together, Quiet, Ready
<1>11. WorkerLives => OutcomeOK'
  <2>1. Stored' = Stored
    BY <1>9 DEF Stored
  <2>2. ListedOK'
    <3>1. CASE names = {} /\ "listFails" \in Faults
      BY <1>7, <3>1 DEF ListedOK
    <3>2. CASE names = Stored /\ listed' = names
      BY <2>1, <3>2 DEF ListedOK
    <3>3. CASE names = Stored /\ \E n \in Names : listed' = (names \ {n}) \cup {Junk}
      BY <2>1, <3>3 DEF ListedOK
    <3> QED BY <1>7, <3>1, <3>2, <3>3
  <2> QED BY <1>2, <1>9, <1>10, <2>2 DEF OutcomeOK
<1> QED BY <1>2, <1>3, <1>4, <1>6, <1>8, <1>10, <1>11, ReturnsParts

(* The client gives up only when the worker is gone.                       *)
LEMMA ReplyUnreadableTalk == CInv /\ ReplyUnreadable => Conversation'
<1> SUFFICES ASSUME CInv, ReplyUnreadable PROVE Conversation'
  OBVIOUS
<1>1. /\ cpc \in ClientWaits /\ Misread(s2c, Awaited, WorkerOpen, s2c')
      /\ UNCHANGED req
      /\ UNCHANGED <<c2s, cS, cR, cRest, downloads, listed, workerVars>>
  BY DEF ReplyUnreadable
<1>2. \/ cpc' \in {"menu", "exited"}
      \/ cpc = "dlChunk" /\ cpc' \in {"dlChunk", "dlClose"}
  BY DEF ReplyUnreadable, ClientReturns, DownloadGoesOn, DownloadLeaves
<1>3. /\ IInv /\ CommandOK /\ ClientOpen /\ ClientSide /\ TypeOK
  BY <1>1 DEF CInv, Conversation, ClientOpen, ClientWaits, IInv
<1>4. s2c \in Streams /\ cR \in Nat /\ Used(wS) \in Nat /\ Awaited \in Nat \ {0}
  BY <1>3, CounterFacts, AwaitedType
<1>5. ~WorkerOpen /\ s2c' = EmptyStream
  <2>1. CASE ~WorkerOpen /\ s2c = EmptyStream
    BY <1>1, <1>4, <2>1 DEF Misread, Readable, EmptyStream
  <2>2. CASE InOrder(s2c, cR, Used(wS)) /\ ClientView
    <3>1. cR < Used(wS) => Whole(s2c, Awaited) # {}
      <4>1. SUFFICES ASSUME cR < Used(wS) PROVE Whole(s2c, Awaited) # {}
        OBVIOUS
      <4>2. PICK q : In(s2c, q) /\ q.counter = cR /\ q.size = Awaited
        BY <1>1, <2>2, <4>1, ClientExpects
      <4>3. q \in Whole(s2c, q.size)
        BY <1>4, <2>2, <4>2, FirstWhole
      <4> QED BY <4>2, <4>3
    <3>2. WorkerOpen \in BOOLEAN
      BY DEF WorkerOpen
    <3> HIDE DEF WorkerOpen
    <3> QED BY <1>1, <1>4, <2>2, <3>1, <3>2, OrderMisread
  <2> QED BY <1>3, <2>1, <2>2 DEF ClientSide
<1>6. server' = server /\ wpc' = wpc /\ req' = req
  BY <1>1 DEF workerVars
<1>7. ~WorkerOpen' /\ ~WorkerLives
  BY <1>5, <1>6 DEF WorkerOpen, WorkerLives
<1>8. ClientSide' /\ UploadSide'
  BY <1>5, <1>7 DEF ClientSide, UploadSide
<1>9. CommandOK'
  BY <1>2, <1>3, <1>6 DEF CommandOK
<1> QED BY <1>1, <1>3, <1>7, <1>8, <1>9, ClientParts

LEMMA ReceiveDownloadAckTalk == CInv /\ Orderly /\ ReceiveDownloadAck => Conversation'
<1> SUFFICES ASSUME CInv, Orderly, ReceiveDownloadAck PROVE Conversation'
  OBVIOUS
<1> DEFINE f == req.args[1]
           new == downloads[f] = Absent
<1>1. PICK p \in s2c.pkts :
         /\ Accept("dlAck", p)
         /\ \E code \in AckCodes(p) :
               \/ code # 0 /\ ClientReturns("notOnCloud")
               \/ /\ code = 0
                  /\ \E size \in AckAmounts(p) : DownloadGoesOn(size, ~new)
                  /\ new => /\ downloads' = [downloads EXCEPT ![f] = <<>>]
                            /\ cBuf' = <<>>
  BY DEF ReceiveDownloadAck, Orderly
<1>2. UNCHANGED <<cRest, listed>>
  BY DEF ReceiveDownloadAck
<1>3. "dlAck" \in ClientWaits
  BY DEF ClientWaits
<1>4. /\ IInv /\ CommandOK /\ ClientOpen /\ cpc = "dlAck"
      /\ s2c \in Streams /\ cR \in Nat /\ Used(wS) \in Nat
      /\ UNCHANGED <<c2s, cS, req, workerVars>>
      /\ ClientView /\ ~NoAnswer /\ cR' = cR + 1
      /\ s2c' = Drop(s2c, Awaited) /\ InOrder(s2c', cR', Used(wS))
      /\ InOrder(s2c, cR, Used(wS)) /\ p \in s2c.pkts /\ p.counter = cR /\ p.size = Awaited
      /\ \A q : In(s2c, q) /\ q.counter = cR => q = p
      /\ WorkerLives => Together
  BY <1>1, <1>3, Accepts
<1>5. /\ req.op = "download" /\ req' = req /\ folder' = folder /\ wpc' = wpc
      /\ wS' = wS /\ wR' = wR /\ cS' = cS /\ wRest' = wRest /\ server' = server
  BY <1>4 DEF CommandOK, workerVars, transfer
<1>6. Theirs' = Theirs
  BY <1>5 DEF Theirs
<1>7. WorkerLives => Quiet \/ Sending
  BY <1>4 DEF Together, Pending
<1>8. CASE Answer(SizedAck(cR, 1, 0)) /\ Theirs \in {Absent, <<>>}
  <2>1. p = SizedAck(cR, 1, 0) /\ Used(wS) = cR + 1
    BY <1>4, <1>8, SizedAckValues DEF Answer
  <2>2. cpc' = "menu" /\ shown' = "notOnCloud"
    <3>1. AckCodes(p) = {1}
      BY <2>1, SizedAckReads
    <3>2. ClientReturns("notOnCloud")
      BY <1>1, <3>1
    <3> QED BY <1>5, <3>2 DEF ClientReturns
  <2>3. ~Sending
    <3>1. wRest \in Content
      BY <1>4 DEF IInv, TypeOK, WorkerTypeOK
    <3>2. IsEndOf(wRest, <<>>) => wRest = <<>>
      BY <3>1 DEF IsEndOf, Content
    <3> QED BY <1>8, <3>2 DEF Sending
  <2>4. WorkerLives => Ready /\ cS = wR /\ OutcomeOK'
    <3>1. Quiet => OutcomeOK'
      BY <1>5, <1>6, <1>8, <2>2 DEF OutcomeOK, Quiet
    <3> QED BY <1>7, <2>3, <3>1 DEF Quiet, Ready
  <2> QED BY <1>2, <1>4, <2>1, <2>2, <2>4, ReturnsParts
<1>9. CASE /\ Theirs \notin {Absent, <<>>}
           /\ In(s2c, SizedAck(cR, 0, Len(Theirs)))
           /\ cR < Used(wS)
           /\ FileFollows(cR + 1, 0)
  <2>1. PICK file \in Content : file = Theirs
    BY <1>4, <1>5, <1>9, NameFacts
  <2>2. PICK size \in Nat : size = Len(file) /\ size # 0
    <3>1. file # <<>>
      BY <1>9, <2>1
    <3> QED BY <3>1 DEF Content
  <2>3. p = SizedAck(cR, 0, size)
    BY <1>4, <1>9, <2>1, <2>2, SizedAckValues
  <2>4. /\ DownloadGoesOn(size, ~new)
        /\ new => downloads' = [downloads EXCEPT ![f] = <<>>] /\ cBuf' = <<>>
    <3>1. AckCodes(p) = {0} /\ AckAmounts(p) = {size}
      BY <2>3, SizedAckReads
    <3> QED BY <1>1, <3>1
  <2>5. cpc' = "dlChunk" /\ cTodo' = size /\ cError' = ~new
    BY <2>2, <2>4 DEF DownloadGoesOn
  <2>6. ~cError' => Fetched(<<>>)'
    <3>1. f \in Names /\ downloads \in [Names -> Content \cup {Absent}]
      BY <1>4, <1>5, NameFacts DEF IInv, TypeOK, ClientTypeOK
    <3>2. <<>> \in Content /\ Absent \notin Content
      <4>1. <<>> \in Content
        BY DEF Content
      <4> QED BY <4>1, SessionAssumption DEF SessionAssumption
    <3>3. IsPrefixOf(<<>>, <<>>)
      BY <3>2, PrefixOfItself
    <3> QED BY <1>5, <2>4, <2>5, <3>1, <3>2, <3>3 DEF Fetched
  <2>7. CommandOK'
    BY <1>4, <1>5, <2>5 DEF CommandOK
  <2>8. ClientSide'
    <3>1. PICK y \in 0..size :
             /\ ChunksOf(s2c, cR + 1, Used(wS), file, 0, y)
             /\ WorkerOpen /\ wpc = "dlSend" => y = size - Len(wRest)
             /\ WorkerOpen /\ wpc = "idle" => y = size
      BY <1>9, <2>1, <2>2 DEF FileFollows
    <3>2. ChunksOf(s2c', cR', Used(wS), file, 0, y)
      BY <1>4, <3>1, ChunksKept
    <3>3. /\ size \in 1..size
          /\ size - size = 0
      BY <2>2
    <3>4. SubSeq(file, 1, 0) = <<>>
      BY DEF Content
    <3>5. FileFollows(cR, Len(Theirs) - cTodo)'
      BY <1>5, <1>6, <2>1, <2>2, <2>5, <3>1, <3>2, <3>3 DEF FileFollows, WorkerOpen
    <3>6. ClientView'
      BY <1>5, <1>6, <1>9, <2>1, <2>2, <2>5, <2>6, <3>3, <3>4, <3>5 DEF ClientView
    <3> QED BY <1>4, <1>5, <3>6 DEF ClientSide
  <2>9. WorkerLives => Together'
    <3>1. (Quiet => Quiet') /\ (Sending => Sending')
      BY <1>5, <1>6 DEF Quiet, Sending
    <3> QED BY <1>7, <2>5, <3>1 DEF Together
  <2>10. UploadSide'
    BY <1>4, <1>5 DEF CInv, Conversation, UploadSide, ClientOpen, WorkerOpen
  <2> QED BY <1>2, <1>4, <2>7, <2>8, <2>9, <2>10, ClientParts
<1> QED BY <1>4, <1>8, <1>9 DEF ClientView

LEMMA ReceiveChunkTalk == CInv /\ ReceiveChunk => Conversation'
<1> SUFFICES ASSUME CInv, ReceiveChunk PROVE Conversation'
  OBVIOUS
<1> DEFINE f == req.args[1]
<1>1. PICK p \in s2c.pkts :
         /\ Accept("dlChunk", p)
         /\ \/ /\ DownloadGoesOn(cTodo - Shorter(cTodo), cError)
               /\ ~cError => /\ cBuf' = cBuf \o p.data
                             /\ downloads' \in {downloads, [downloads EXCEPT ![f] = cBuf']}
            \/ cpc' = "exited"
  BY DEF ReceiveChunk
<1>2. UNCHANGED <<cRest, listed>>
  BY DEF ReceiveChunk
<1>3. "dlChunk" \in ClientWaits
  BY DEF ClientWaits
<1>4. /\ IInv /\ CommandOK /\ ClientOpen /\ cpc = "dlChunk"
      /\ s2c \in Streams /\ cR \in Nat /\ Used(wS) \in Nat
      /\ UNCHANGED <<c2s, cS, req, workerVars>>
      /\ ClientView /\ ~NoAnswer /\ cR < Used(wS) /\ cR' = cR + 1
      /\ s2c' = Drop(s2c, Awaited) /\ InOrder(s2c', cR', Used(wS))
      /\ InOrder(s2c, cR, Used(wS)) /\ p \in s2c.pkts /\ p.counter = cR /\ p.size = Awaited
      /\ \A q : In(s2c, q) /\ q.counter = cR => q = p
      /\ WorkerLives => Together
  BY <1>1, <1>3, Accepts
<1>5. /\ req.op = "download" /\ req' = req /\ folder' = folder /\ wpc' = wpc
      /\ wS' = wS /\ wR' = wR /\ cS' = cS /\ wRest' = wRest /\ server' = server
  BY <1>4 DEF CommandOK, workerVars, transfer
<1>6. Theirs' = Theirs
  BY <1>5 DEF Theirs
<1>7. WorkerLives => Quiet \/ Sending
  BY <1>4 DEF Together
<1>8. PICK file \in Content : file = Theirs
  BY <1>4, <1>5, NameFacts DEF ClientView
<1>9. PICK size \in Nat : size = Len(file)
  BY DEF Content
<1>10. PICK todo \in 1..size : todo = cTodo
  BY <1>4, <1>8, <1>9 DEF ClientView
<1>11. PICK y \in 0..size :
          /\ ChunksOf(s2c, cR, Used(wS), file, size - todo, y)
          /\ WorkerOpen /\ wpc = "dlSend" => y = size - Len(wRest)
          /\ WorkerOpen /\ wpc = "idle" => y = size
  BY <1>4, <1>8, <1>9, <1>10 DEF ClientView, FileFollows
<1>12. PICK left : left = todo - Shorter(todo)
  OBVIOUS
<1>13. /\ left \in 0..todo - 1
       /\ \E data \in Content :
             /\ In(s2c, Chunk(cR, data))
             /\ SubSeq(file, 1, size - todo) \o data = SubSeq(file, 1, size - left)
       /\ ChunksOf(s2c', cR', Used(wS), file, size - left, y)
  <2>1. /\ s2c \in Streams /\ cR \in Nat /\ Used(wS) \in Nat /\ cR < Used(wS)
        /\ InOrder(s2c, cR, Used(wS))
    BY <1>4
  <2>2. ChunksOf(s2c, cR, Used(wS), file, Len(file) - todo, y)
        /\ todo \in 1..Len(file) /\ y \in 0..Len(file)
    BY <1>9, <1>11
  <2>3. /\ left \in 0..todo - 1
        /\ \E data \in Content :
              /\ In(s2c, Chunk(cR, data))
              /\ SubSeq(file, 1, Len(file) - todo) \o data
                    = SubSeq(file, 1, Len(file) - left)
        /\ \A q \in s2c.pkts : q.counter = cR =>
              ChunksOf(Drop(s2c, q.size), cR + 1, Used(wS), file, Len(file) - left, y)
    <3>1. /\ todo - Shorter(todo) \in 0..todo - 1
          /\ \E data \in Content :
                /\ In(s2c, Chunk(cR, data)) /\ Len(data) = Shorter(todo)
                /\ SubSeq(file, 1, Len(file) - todo) \o data
                      = SubSeq(file, 1, Len(file) - (todo - Shorter(todo)))
          /\ \A q \in s2c.pkts : q.counter = cR =>
                ChunksOf(Drop(s2c, q.size), cR + 1, Used(wS), file,
                         Len(file) - (todo - Shorter(todo)), y)
      BY <2>1, <2>2, NextPiece
    <3> QED BY <1>12, <3>1
  <2>4. ChunksOf(s2c', cR', Used(wS), file, Len(file) - left, y)
    BY <1>4, <2>3
  <2> QED BY <1>9, <2>3, <2>4
<1>14. SubSeq(file, 1, size - todo) \o p.data = SubSeq(file, 1, size - left)
  <2>1. PICK data \in Content :
           /\ In(s2c, Chunk(cR, data))
           /\ SubSeq(file, 1, size - todo) \o data = SubSeq(file, 1, size - left)
    BY <1>13
  <2>2. p = Chunk(cR, data)
    BY <1>4, <2>1, ChunkValues
  <2>3. p.data = data
    BY <2>2, ChunkValues
  <2> QED BY <2>1, <2>3
<1>15. CASE cpc' = "exited"
  BY <1>2, <1>4, <1>15, ReturnsParts
<1>16. ASSUME DownloadGoesOn(left, cError),
              ~cError => /\ cBuf' = cBuf \o p.data
                         /\ downloads' \in {downloads, [downloads EXCEPT ![f] = cBuf']},
              NEW part, part = SubSeq(file, 1, size - left)
       PROVE  ~cError => Fetched(part)'
  <2>1. f \in Names /\ downloads \in [Names -> Content \cup {Absent}]
    BY <1>4, <1>5, NameFacts DEF IInv, TypeOK, ClientTypeOK
  <2>2. PICK old : old = SubSeq(file, 1, size - todo)
    OBVIOUS
  <2>3. ~cError => cBuf = old /\ downloads[f] # Absent /\ IsPrefixOf(downloads[f], old)
    BY <1>4, <1>8, <1>9, <1>10, <2>2 DEF ClientView, Fetched
  <2>4. ~cError => cBuf' = part
    BY <1>14, <1>16, <2>2, <2>3
  <2>5. /\ old \in Content /\ part \in Content /\ part # Absent
        /\ IsPrefixOf(old, part) /\ IsPrefixOf(part, part)
    <3>1. size - left \in 0..Len(file) /\ size - todo \in 0..size - left
      BY <1>9, <1>13
    <3>2. part \in Content /\ IsPrefixOf(old, part)
      BY <1>16, <2>2, <3>1, PrefixOfFile
    <3>3. old \in Content
      BY <2>2, <3>1 DEF Content
    <3>4. part # Absent
      BY <3>2, SessionAssumption DEF SessionAssumption
    <3> QED BY <3>2, <3>3, <3>4, PrefixOfItself
  <2>6. ~cError => IsPrefixOf(downloads[f], part)
    BY <2>1, <2>3, <2>5, PrefixTransitive
  <2> QED BY <1>5, <1>16, <2>1, <2>3, <2>4, <2>5, <2>6 DEF Fetched
<1>17. ASSUME DownloadGoesOn(left, cError), left > 0,
              ~cError => Fetched(SubSeq(file, 1, size - left))'
       PROVE  Conversation'
  <2>1. cpc' = "dlChunk" /\ cTodo' = left /\ cError' = cError
    BY <1>17 DEF DownloadGoesOn
  <2>2. CommandOK'
    BY <1>4, <1>5, <2>1 DEF CommandOK
  <2>3. ClientSide'
    <3>1. FileFollows(cR, Len(Theirs) - cTodo)'
      BY <1>5, <1>6, <1>8, <1>9, <1>11, <1>13, <2>1 DEF FileFollows, WorkerOpen
    <3>2. left \in 1..size
      BY <1>13, <1>17
    <3>3. ClientView'
      BY <1>4, <1>5, <1>6, <1>8, <1>9, <1>17, <2>1, <3>1, <3>2 DEF ClientView
    <3> QED BY <1>4, <1>5, <3>3 DEF ClientSide
  <2>4. WorkerLives => Together'
    <3>1. (Quiet => Quiet') /\ (Sending => Sending')
      BY <1>5, <1>6 DEF Quiet, Sending
    <3> QED BY <1>7, <2>1, <3>1 DEF Together
  <2>5. UploadSide'
    BY <1>4, <1>5 DEF CInv, Conversation, UploadSide, ClientOpen, WorkerOpen
  <2> QED BY <1>2, <1>4, <2>2, <2>3, <2>4, <2>5, ClientParts
<1>18. ASSUME DownloadGoesOn(left, cError), ~(left > 0),
              ~cError => Fetched(SubSeq(file, 1, size - left))'
       PROVE  Conversation'
  <2>1. left = 0 /\ size - left = size
    BY <1>13, <1>18
  <2>2. Used(wS) = cR'
    <3>1. cR' \in Nat /\ cR' <= Used(wS)
      BY <1>4
    <3>2. ChunksOf(s2c', cR', Used(wS), file, Len(file), y)
      BY <1>9, <1>13, <2>1
    <3> QED BY <1>4, <3>1, <3>2, ChunksDone
  <2>3. y = size
    <3>1. ChunksOf(s2c', cR', cR', file, size, y) /\ cR' \in Nat
      BY <1>4, <1>13, <2>1, <2>2
    <3> QED BY <3>1, ChunksEmpty
  <2>4. cpc' = "dlClose" /\ shown' = IF cError THEN "downloadFailed" ELSE "downloaded"
    BY <1>18 DEF DownloadGoesOn, DownloadLeaves
  <2>5. WorkerLives => Quiet
    <3>1. wRest \in Content
      BY <1>4 DEF IInv, TypeOK, WorkerTypeOK
    <3>2. Len(wRest) \in Nat /\ (Len(wRest) = 0 => wRest = <<>>)
      BY <3>1 DEF Content
    <3>3. WorkerLives => WorkerOpen
      BY DEF WorkerLives
    <3> QED BY <1>7, <1>11, <2>3, <3>2, <3>3 DEF Sending
  <2>6. CommandOK'
    BY <1>4, <1>5, <2>4 DEF CommandOK
  <2>7. NoAnswer'
    BY <1>5, <2>2 DEF NoAnswer
  <2>8. ClientSide'
    <3>1. ClientView'
      BY <2>4, <2>7 DEF ClientView
    <3> QED BY <1>4, <1>5, <3>1 DEF ClientSide
  <2>9. WorkerLives => Together'
    <3>1. ~cError => Fetched(Theirs)'
      <4>1. SubSeq(file, 1, size) = file
        BY <1>9 DEF Content
      <4> QED BY <1>6, <1>8, <1>18, <2>1, <4>1
    <3>2. Quiet => Quiet'
      BY <1>5 DEF Quiet
    <3>3. Theirs' # Absent
      BY <1>4, <1>6 DEF ClientView
    <3> QED BY <2>4, <2>5, <3>1, <3>2, <3>3 DEF Together
  <2>10. UploadSide'
    BY <1>4, <1>5 DEF CInv, Conversation, UploadSide, ClientOpen, WorkerOpen
  <2> QED BY <1>2, <1>4, <2>6, <2>8, <2>9, <2>10, ClientParts
<1>19. PICK part : part = SubSeq(file, 1, size - left)
  OBVIOUS
<1> QED BY <1>1, <1>10, <1>12, <1>15, <1>16, <1>17, <1>18, <1>19

(* The file of a download is closed, and the menu is back.                 *)
LEMMA DownloadCloseTalk == CInv /\ DownloadClose => Conversation'
<1> SUFFICES ASSUME CInv, DownloadClose PROVE Conversation'
  OBVIOUS
<1> DEFINE f == req.args[1]
<1>1. /\ cpc = "dlClose" /\ cpc' = "menu"
      /\ UNCHANGED <<c2s, s2c, cS, cR, req, cRest, shown, workerVars>>
      /\ \/ downloads' = IF cBuf = Absent THEN downloads
                         ELSE [downloads EXCEPT ![f] = cBuf]
         \/ "downloadsFull" \in Faults /\ downloads' = downloads
  BY DEF DownloadClose, CloseDownload
<1>2. /\ IInv /\ CommandOK /\ ClientOpen /\ ClientSide
      /\ WorkerLives => Together
  BY <1>1 DEF CInv, Conversation, ClientOpen
<1>3. /\ req' = req /\ folder' = folder /\ wpc' = wpc /\ wS' = wS /\ wR' = wR
      /\ cS' = cS /\ cR' = cR /\ s2c' = s2c /\ server' = server /\ shown' = shown
      /\ Theirs' = Theirs
  BY <1>1 DEF workerVars, transfer, Theirs
<1>4. CommandOK'
  BY <1>1, <1>2, <1>3 DEF CommandOK
<1>5. ClientSide'
  <2>1. CASE ~WorkerOpen /\ s2c = EmptyStream
    BY <1>3, <2>1 DEF ClientSide, WorkerOpen
  <2>2. CASE InOrder(s2c, cR, Used(wS)) /\ ClientView
    <3>1. ClientView'
      BY <1>1, <1>3, <2>2 DEF ClientView, NoAnswer
    <3> QED BY <1>3, <2>2, <3>1 DEF ClientSide
  <2> QED BY <1>2, <2>1, <2>2 DEF ClientSide
<1>6. ASSUME WorkerLives PROVE Together'
  <2>1. /\ Quiet /\ Theirs # Absent /\ shown \in {"downloaded", "downloadFailed"}
        /\ shown = "downloaded" => Fetched(Theirs)
    BY <1>1, <1>2, <1>6 DEF Together
  <2>2. f \in Names /\ downloads \in [Names -> Content \cup {Absent}]
        /\ Theirs \in Content \cup {Absent}
    <3>1. req.op = "download"
      BY <1>1, <1>2 DEF CommandOK
    <3> QED BY <1>2, <3>1, NameFacts DEF IInv, TypeOK, ClientTypeOK
  <2>3. shown = "downloaded" => CopyOf(downloads'[f], Theirs, "downloadsFull")
    BY <1>1, <2>1, <2>2 DEF Fetched, CopyOf
  <2>4. OutcomeOK'
    BY <1>3, <2>1, <2>3 DEF OutcomeOK, Quiet
  <2> QED BY <1>1, <1>3, <2>1, <2>4 DEF Together, Quiet, Ready
<1>7. UploadSide'
  BY <1>1, <1>2, <1>3 DEF CInv, Conversation, UploadSide, ClientOpen, WorkerOpen
<1> QED BY <1>1, <1>2, <1>4, <1>5, <1>6, <1>7, ClientParts

(* sendData and incrementCounter, when nothing fails but the connection.   *)
LEMMA ClientSendsTalk ==
    ASSUME IInv, Orderly, ClientOpen, NEW p, NEW next \in ClientStates \ {"exited"},
           ClientSends(p, next)
    PROVE  /\ cpc' \in {next, "menu", "exited"}
           /\ WorkerOpen => /\ c2s' = Sent(c2s, p) /\ Used(cS') = cS + 1
                            /\ cpc' \in {next, "exited"}
                            /\ cpc' = next => cS' = cS + 1
<1>1. cS \in 0..MaxCounter
  BY CounterFacts
<1>2. Used(Incremented(cS)) = cS + 1 /\ (cS # MaxCounter => Incremented(cS) = cS + 1)
  BY <1>1, IncrementedType DEF Incremented
<1>3. "cryptoFails" \notin Faults
  BY DEF Orderly
<1>4. WorkerOpen => /\ c2s' = Sent(c2s, p) /\ cS' = Incremented(cS)
                    /\ cpc' = IF cS = MaxCounter THEN "exited" ELSE next
  BY <1>3 DEF ClientSends, AfterSend
<1>5. cpc' \in {next, "menu", "exited"}
  BY DEF ClientSends, ClientReturns
<1> QED BY <1>2, <1>4, <1>5

(* A request, sent from the menu.                                          *)
LEMMA AskTalk ==
    ASSUME CInv, Orderly,
           NEW op \in Requests, NEW args, NEW amount,
           NEW next \in {"upAck", "dlAck", "lsAck", "rnAck", "rmAck", "loAck"},
           Ask(op, args, amount, next),
           Request(op, cS, args, amount) \in Packets,
           cpc' \in {next, "menu", "exited"} => CommandOK',
           amount = IF op = "upload" THEN Len(Local[args[1]]) ELSE 0,
           next = "upAck" => cRest' = Local[args[1]],
           op = "upload" <=> next = "upAck"
    PROVE  Conversation'
<1> DEFINE p == Request(op, cS, args, amount)
<1>1. /\ cpc = "menu" /\ ClientOpen
      /\ req' = [op |-> op, args |-> args]
      /\ ClientSends(p, next)
      /\ UNCHANGED <<s2c, cR, workerVars>>
  BY DEF Ask, ClientOpen
<1>2. /\ IInv /\ ClientSide /\ WorkerSide /\ UploadSide
      /\ WorkerOpen => UploadOK
      /\ WorkerLives => Together
  BY <1>1 DEF CInv, Conversation
<1>3. /\ wpc' = wpc /\ wS' = wS /\ wR' = wR /\ wFile' = wFile /\ wTodo' = wTodo
      /\ wBuf' = wBuf /\ wError' = wError /\ wResult' = wResult
      /\ folder' = folder /\ server' = server /\ cR' = cR /\ s2c' = s2c
  BY <1>1 DEF workerVars, transfer
<1>4. /\ c2s \in Streams /\ wR \in Nat /\ cS \in Nat /\ Used(cS) = cS
  BY <1>1, <1>2, CounterFacts
<1>5. /\ cpc' \in {next, "menu", "exited"}
      /\ WorkerOpen => /\ c2s' = Sent(c2s, p) /\ Used(cS') = cS + 1
                       /\ cpc' \in {next, "exited"}
                       /\ cpc' = next => cS' = cS + 1
  <2>1. next \in ClientStates \ {"exited"}
    BY DEF ClientStates, ClientWaits
  <2> QED BY <1>1, <1>2, <2>1, ClientSendsTalk
<1>6. CommandOK'
  BY <1>5
<1>7. WorkerLives => /\ WorkerOpen /\ Ready /\ ~Receives /\ cS = wR
                     /\ InOrder(c2s, wR, cS)
  BY <1>1, <1>2, <1>4 DEF Together, WorkerSide, WorkerLives, Ready, Receives
<1>8. (Ready' <=> Ready) /\ (Receives' <=> Receives) /\ (WorkerLives' <=> WorkerLives)
      /\ (WorkerOpen' <=> WorkerOpen)
  BY <1>3 DEF Ready, Receives, WorkerLives, WorkerOpen
<1>9. (WorkerOpen => UploadOK)'
  <2>1. WorkerOpen /\ wpc = "upCreate" => folder[wFile] # Absent
    BY <1>7 DEF Ready, WorkerLives
  <2> QED BY <1>2, <1>3, <1>8, <2>1 DEF UploadOK
<1>10. ClientSide'
  <2>1. CASE ~WorkerOpen /\ s2c = EmptyStream
    BY <1>3, <1>8, <2>1 DEF ClientSide
  <2>2. CASE InOrder(s2c, cR, Used(wS)) /\ ClientView
    <3>1. NoAnswer'
      BY <1>1, <1>3, <2>2 DEF ClientView, NoAnswer
    <3>2. ClientOpen' => ClientView'
      BY <1>5, <3>1 DEF ClientView, ClientOpen
    <3> QED BY <1>3, <2>2, <3>2 DEF ClientSide
  <2> QED BY <1>1, <1>2, <2>1, <2>2 DEF ClientSide
<1>11. WorkerLives => Requested' /\ InOrder(c2s', wR', Used(cS'))
  <2>1. SUFFICES ASSUME WorkerLives PROVE Requested' /\ InOrder(c2s', wR', Used(cS'))
    OBVIOUS
  <2>2. /\ p.counter = cS /\ p.at = 0
    BY RequestValues
  <2>3. InOrder(c2s', wR', Used(cS'))
    <3>1. InOrder(Sent(c2s, p), wR, cS + 1)
      BY <1>4, <1>7, <2>1, <2>2, OrderSent
    <3> QED BY <1>3, <1>5, <1>7, <2>1, <3>1
  <2>4. In(c2s', p)
    BY <1>4, <1>5, <1>7, <2>1, <2>2, InSent
  <2>5. Mine' = Local[args[1]] /\ req'.op = op /\ req'.args = args
    BY <1>1 DEF Mine
  <2>6. In(c2s', Request(req'.op, wR, req'.args, IF req'.op = "upload" THEN Len(Mine') ELSE 0))
    BY <1>7, <2>1, <2>4, <2>5
  <2> QED BY <1>3, <1>5, <1>7, <2>1, <2>3, <2>6 DEF Requested
<1>12. WorkerSide'
  <2>1. WorkerLives => WorkerView'
    <3>1. WorkerLives => wpc # "upAck"
      BY <1>7 DEF Ready
    <3> QED BY <1>3, <1>7, <1>8, <1>11, <3>1 DEF WorkerView
  <2> QED BY <1>8, <1>11, <2>1 DEF WorkerSide
<1>13. (ClientOpen /\ WorkerLives => Together)'
  <2>1. SUFFICES ASSUME WorkerLives, cpc' # "exited" PROVE Together'
    BY <1>8 DEF ClientOpen
  <2>2. cpc' = next /\ cS' = wR + 1 /\ Ready'
    BY <1>5, <1>7, <1>8, <2>1
  <2>3. NoAnswer'
    BY <1>1, <1>2, <1>3, <1>7, <2>1 DEF ClientSide, ClientView, NoAnswer
  <2>4. Pending'
    BY <1>3, <2>2, <2>3 DEF Pending
  <2>5. next = "upAck" => cRest' = Mine'
    BY <1>1 DEF Mine
  <2> QED BY <2>2, <2>4, <2>5 DEF Together
<1>14. UploadSide'
  <2>1. ClientOpen' /\ WorkerOpen => NoAnswer' /\ cpc' \notin {"dlChunk", "dlClose", "lsData"}
    BY <1>1, <1>2, <1>3, <1>5 DEF ClientSide, ClientView, NoAnswer, ClientOpen
  <2> QED BY <1>8, <2>1 DEF UploadSide
<1> QED BY <1>6, <1>9, <1>10, <1>12, <1>13, <1>14 DEF Conversation

LEMMA UserTalk == CInv /\ Orderly /\ User => Conversation'
<1> SUFFICES ASSUME CInv, Orderly, User PROVE Conversation'
  OBVIOUS
<1>1. IInv /\ CommandOK
  BY DEF CInv, Conversation
<1>2. cpc = "menu" => cS \in 0..MaxCounter
  BY <1>1, CounterFacts DEF ClientOpen
<1>3. ASSUME NEW f \in Names
      PROVE  <<f>> \in Seq(Names) /\ <<f>> # <<>> /\ <<f>>[1] = f
  OBVIOUS
<1>4. ASSUME NEW f \in Names, NEW g \in Names
      PROVE  <<f, g>> \in Seq(Names) /\ <<f, g>> # <<>>
  OBVIOUS
<1>5. <<>> \in Seq(Names) /\ 0 \in Nat
  OBVIOUS
<1>6. ASSUME NEW f \in Names, AskUpload(f) PROVE Conversation'
  <2>1. /\ Uploadable(f) /\ cpc = "menu"
        /\ Ask("upload", <<f>>, Len(Local[f]), "upAck")
        /\ cRest' = Local[f]
        /\ req' = [op |-> "upload", args |-> <<f>>]
    BY <1>6 DEF AskUpload, Ask
  <2>2. Len(Local[f]) \in Nat
    BY SessionAssumption DEF SessionAssumption, Content
  <2>3. Request("upload", cS, <<f>>, Len(Local[f])) \in Packets
    BY <1>2, <1>3, <2>1, <2>2, RequestType DEF Requests
  <2>4. cpc' \in {"upAck", "menu", "exited"} => CommandOK'
    BY <2>1 DEF CommandOK
  <2> QED BY <1>3, <2>1, <2>3, <2>4, AskTalk DEF Requests
<1>7. ASSUME NEW f \in Names, RefuseUpload(f) PROVE Conversation'
  <2>1. /\ cpc = "menu" /\ shown' = "invalid" /\ cpc' = cpc /\ ClientOpen
        /\ UNCHANGED <<c2s, s2c, cS, cR, req, cRest, workerVars>>
    BY <1>7 DEF RefuseUpload, clientData, ClientOpen
  <2>2. /\ req' = req /\ folder' = folder /\ wpc' = wpc /\ server' = server
        /\ wS' = wS /\ wResult' = wResult
    BY <2>1 DEF workerVars, transfer
  <2>3. CommandOK' /\ UploadSide'
    BY <1>1, <2>1, <2>2
       DEF CommandOK, CInv, Conversation, UploadSide, NoAnswer, ClientOpen, WorkerOpen
  <2>4. ClientSide'
    BY <2>1, <2>2
       DEF CInv, Conversation, ClientSide, ClientView, NoAnswer, ClientOpen, WorkerOpen
  <2>5. WorkerLives => Together'
    <3>1. OutcomeOK'
      BY <2>1 DEF OutcomeOK
    <3>2. WorkerLives => Ready' /\ cS' = wR'
      BY <2>1, <2>2
         DEF CInv, Conversation, Together, Ready, workerVars, transfer
    <3> QED BY <2>1, <3>1, <3>2 DEF Together
  <2> QED BY <2>1, <2>3, <2>4, <2>5, ClientParts
<1>8. ASSUME NEW f \in Names, AskDownload(f) PROVE Conversation'
  <2>1. /\ cpc = "menu" /\ Ask("download", <<f>>, 0, "dlAck")
        /\ req' = [op |-> "download", args |-> <<f>>]
    BY <1>8 DEF AskDownload, Ask
  <2>2. Request("download", cS, <<f>>, 0) \in Packets
    BY <1>2, <1>3, <1>5, <2>1, RequestType DEF Requests
  <2>3. cpc' \in {"dlAck", "menu", "exited"} => CommandOK'
    BY <2>1 DEF CommandOK
  <2> QED BY <2>1, <2>2, <2>3, AskTalk DEF Requests
<1>9. ASSUME NEW f \in Names, AskDelete(f) PROVE Conversation'
  <2>1. /\ cpc = "menu" /\ Ask("delete", <<f>>, 0, "rmAck")
        /\ req' = [op |-> "delete", args |-> <<f>>]
    BY <1>9 DEF AskDelete, Ask
  <2>2. Request("delete", cS, <<f>>, 0) \in Packets
    BY <1>2, <1>3, <1>5, <2>1, RequestType DEF Requests
  <2>3. cpc' \in {"rmAck", "menu", "exited"} => CommandOK'
    BY <2>1 DEF CommandOK
  <2> QED BY <2>1, <2>2, <2>3, AskTalk DEF Requests
<1>10. CASE AskList
  <2>1. /\ cpc = "menu" /\ Ask("list", <<>>, 0, "lsAck")
        /\ req' = [op |-> "list", args |-> <<>>]
    BY <1>10 DEF AskList, Ask
  <2>2. Request("list", cS, <<>>, 0) \in Packets
    BY <1>2, <1>5, <2>1, RequestType DEF Requests
  <2>3. cpc' \in {"lsAck", "menu", "exited"} => CommandOK'
    BY <2>1 DEF CommandOK
  <2> QED BY <2>1, <2>2, <2>3, AskTalk DEF Requests
<1>11. ASSUME NEW f \in Names, NEW g \in Names, AskRename(f, g) PROVE Conversation'
  <2>1. /\ cpc = "menu" /\ Ask("rename", <<f, g>>, 0, "rnAck")
        /\ req' = [op |-> "rename", args |-> <<f, g>>]
    BY <1>11 DEF AskRename, Ask
  <2>2. Request("rename", cS, <<f, g>>, 0) \in Packets
    BY <1>2, <1>4, <1>5, <2>1, RequestType DEF Requests
  <2>3. cpc' \in {"rnAck", "menu", "exited"} => CommandOK'
    BY <2>1 DEF CommandOK
  <2> QED BY <2>1, <2>2, <2>3, AskTalk DEF Requests
<1>12. CASE AskLogout
  <2>1. /\ cpc = "menu" /\ Ask("logout", <<>>, 0, "loAck")
        /\ req' = [op |-> "logout", args |-> <<>>]
    BY <1>12 DEF AskLogout, Ask
  <2>2. Request("logout", cS, <<>>, 0) \in Packets
    BY <1>2, <1>5, <2>1, RequestType DEF Requests
  <2>3. cpc' \in {"loAck", "menu", "exited"} => CommandOK'
    BY <2>1 DEF CommandOK
  <2> QED BY <2>1, <2>2, <2>3, AskTalk DEF Requests
<1> QED BY <1>6, <1>7, <1>8, <1>9, <1>10, <1>11, <1>12 DEF User

LEMMA PartOfPart ==
    ASSUME NEW file \in Content, NEW size \in Nat, size = Len(file), NEW x \in 0..size,
           NEW k \in 0..size - x, NEW m \in 0..k
    PROVE  SubSeq(SubSeq(file, x + 1, size), m + 1, k) = SubSeq(file, x + m + 1, x + k)
BY DEF Content

LEMMA EndFrom ==
    ASSUME NEW file \in Content, NEW size \in Nat, size = Len(file), NEW x \in 0..size
    PROVE  LET rest == SubSeq(file, x + 1, size) IN
           rest \in Content /\ Len(rest) = size - x /\ IsEndOf(rest, file)
<1> DEFINE rest == SubSeq(file, x + 1, size)
<1>1. rest \in Content /\ Len(rest) = size - x
  BY DEF Content
<1> HIDE DEF rest
<1>2. size - Len(rest) + 1 = x + 1 /\ Len(rest) <= size
  BY <1>1
<1> QED BY <1>1, <1>2 DEF IsEndOf, rest

(* What is left to send of a file, before and after the next chunk: n      *)
(* bytes of the size, after the first y.                                   *)
NextSent(file, rest, size, y, n) ==
    /\ y \in 0..size /\ y < size /\ y + n \in 0..size /\ n = Shorter(size - y)
    /\ SubSeq(rest, 1, n) = SubSeq(file, y + 1, y + n)
    /\ SubSeq(rest, 1, n) \in Content
    /\ IsEndOf(SubSeq(rest, n + 1, Len(rest)), file)
    /\ size - Len(SubSeq(rest, n + 1, Len(rest))) = y + n

LEMMA NextSend ==
    ASSUME NEW file \in Content, NEW rest \in Content, rest # <<>>, IsEndOf(rest, file)
    PROVE  NextSent(file, rest, Len(file), Len(file) - Len(rest), Shorter(Len(rest)))
<1>1. PICK size \in Nat : size = Len(file)
  BY DEF Content
<1>2. PICK more \in Nat \ {0} : more = Len(rest)
  BY DEF Content
<1>3. more <= size /\ rest = SubSeq(file, size - more + 1, size)
  BY <1>1, <1>2 DEF IsEndOf
<1>4. PICK y \in 0..size : y = size - more /\ y < size /\ size - y = more
  BY <1>3
<1>5. PICK n \in 1..more : n = Shorter(more)
  BY ShorterSome
<1>6. y + n \in 0..size /\ n \in 1..size /\ more \in 0..size - y /\ n \in 0..size - y
      /\ 0 \in 0..n /\ n \in 0..more
  BY <1>3, <1>4
<1>7. SubSeq(rest, 0 + 1, n) = SubSeq(file, y + 0 + 1, y + n)
  BY <1>1, <1>3, <1>4, <1>6, PartOfPart
<1>8. SubSeq(rest, n + 1, more) = SubSeq(file, y + n + 1, y + more)
  BY <1>1, <1>3, <1>4, <1>6, PartOfPart
<1>9. 0 + 1 = 1 /\ y + 0 + 1 = y + 1 /\ y + more = size
  BY <1>4
<1>10. SubSeq(rest, 1, n) \in Content
  BY <1>2 DEF Content
<1>11. PICK z \in 0..size : z = y + n
  BY <1>6
<1>12. PICK left : left = SubSeq(file, z + 1, size)
  OBVIOUS
<1>13. Len(left) = size - z /\ IsEndOf(left, file)
  BY <1>1, <1>12, EndFrom
<1>14. size - Len(left) = z
  BY <1>13
<1>15. left = SubSeq(rest, n + 1, Len(rest))
  BY <1>2, <1>8, <1>9, <1>11, <1>12
<1>16. SubSeq(rest, 1, n) = SubSeq(file, y + 1, y + n)
  BY <1>7, <1>9
<1>17. NextSent(file, rest, size, y, n)
  BY <1>4, <1>5, <1>6, <1>10, <1>11, <1>13, <1>14, <1>15, <1>16 DEF NextSent
<1> QED BY <1>1, <1>2, <1>4, <1>5, <1>17

LEMMA SendChunkTalk == CInv /\ Orderly /\ SendChunk => Conversation'
<1> SUFFICES ASSUME CInv, Orderly, SendChunk PROVE Conversation'
  OBVIOUS
<1>1. PICK n : n = Shorter(Len(cRest))
  OBVIOUS
<1>2. PICK p : p = Chunk(cS, SubSeq(cRest, 1, n))
  OBVIOUS
<1>3. PICK next : next = IF cRest' = <<>> THEN "upFinal" ELSE "upSend"
  OBVIOUS
<1>4. /\ cpc = "upSend" /\ ClientOpen
      /\ cRest' = SubSeq(cRest, n + 1, Len(cRest))
      /\ UNCHANGED req
      /\ ClientSends(p, next)
      /\ UNCHANGED <<s2c, cR, workerVars>>
  BY <1>1, <1>2, <1>3 DEF SendChunk, ClientOpen
<1>5. /\ IInv /\ CommandOK /\ ClientSide /\ WorkerSide /\ UploadSide
      /\ WorkerOpen => UploadOK
      /\ WorkerLives => Together
  BY <1>4 DEF CInv, Conversation
<1>6. /\ wpc' = wpc /\ wS' = wS /\ wR' = wR /\ wFile' = wFile /\ wTodo' = wTodo
      /\ wBuf' = wBuf /\ wError' = wError /\ wResult' = wResult
      /\ folder' = folder /\ server' = server /\ cR' = cR /\ s2c' = s2c /\ req' = req
  BY <1>4 DEF workerVars, transfer
<1>7. /\ c2s \in Streams /\ wR \in Nat /\ cS \in 0..MaxCounter /\ cS \in Nat
      /\ Used(cS) = cS
  BY <1>4, <1>5, CounterFacts
<1>8. next \in {"upFinal", "upSend"}
  BY <1>3
<1>9. /\ cpc' \in {next, "menu", "exited"}
      /\ WorkerOpen => /\ c2s' = Sent(c2s, p) /\ Used(cS') = cS + 1
                       /\ cpc' \in {next, "exited"}
  <2>1. next \in ClientStates \ {"exited"}
    BY <1>8 DEF ClientStates, ClientWaits
  <2> QED BY <1>4, <1>5, <2>1, ClientSendsTalk
<1>10. CommandOK'
  BY <1>4, <1>5, <1>6, <1>8, <1>9 DEF CommandOK
<1>11. (Ready' <=> Ready) /\ (Receives' <=> Receives) /\ (WorkerLives' <=> WorkerLives)
       /\ (WorkerOpen' <=> WorkerOpen)
  BY <1>6 DEF Ready, Receives, WorkerLives, WorkerOpen
<1>12. (WorkerOpen => UploadOK)'
  BY <1>5, <1>6, <1>11 DEF UploadOK
<1>13. ClientSide'
  <2>1. CASE ~WorkerOpen /\ s2c = EmptyStream
    BY <1>6, <1>11, <2>1 DEF ClientSide
  <2>2. CASE InOrder(s2c, cR, Used(wS)) /\ ClientView
    <3>1. NoAnswer'
      BY <1>4, <1>6, <2>2 DEF ClientView, NoAnswer
    <3>2. ClientOpen' => ClientView'
      BY <1>8, <1>9, <3>1 DEF ClientView, ClientOpen
    <3> QED BY <1>6, <2>2, <3>2 DEF ClientSide
  <2> QED BY <1>4, <1>5, <2>1, <2>2 DEF ClientSide
<1>14. UploadSide'
  <2>1. ClientOpen' /\ WorkerOpen => cpc' \in {"upAck", "upSend", "upFinal"}
    BY <1>8, <1>9 DEF ClientOpen
  <2> QED BY <1>11, <2>1 DEF UploadSide
<1>15. CASE ~WorkerLives
  BY <1>10, <1>11, <1>12, <1>13, <1>14, <1>15 DEF Conversation, WorkerSide
<1>16. CASE WorkerLives
  <2>1. /\ Receives /\ ~Ready /\ wFile = req.args[1] /\ cRest # <<>>
        /\ IsEndOf(cRest, Mine) /\ WorkerOpen
    BY <1>4, <1>5, <1>16 DEF Together, Receiving, Receives, Ready, WorkerLives
  <2>2. PICK file \in Content : file = Mine /\ file = Local[wFile]
    BY <1>4, <1>5, <2>1, NameFacts DEF CommandOK, Mine
  <2>3. PICK size \in Nat : size = Len(file)
    BY DEF Content
  <2>4. InOrder(c2s, wR, cS) /\ WorkerView
    BY <1>4, <1>5, <1>7, <1>16 DEF WorkerSide
  <2>5. PICK y \in 0..size : /\ ChunksOf(c2s, wR, cS, file, size - wTodo, y)
                             /\ y = size - Len(cRest)
    BY <1>4, <1>7, <2>1, <2>2, <2>3, <2>4 DEF WorkerView, Uploading
  <2>6. PICK z : z = y + n
    OBVIOUS
  <2>7. /\ y < size /\ Shorter(size - y) = n
        /\ SubSeq(cRest, 1, n) = SubSeq(file, y + 1, z)
        /\ SubSeq(cRest, 1, n) \in Content
        /\ IsEndOf(cRest', file)
        /\ z = size - Len(cRest')
    <3>1. cRest \in Content /\ IsEndOf(cRest, file) /\ cRest # <<>>
      BY <1>5, <2>1, <2>2 DEF IInv, TypeOK, ClientTypeOK
    <3>2. NextSent(file, cRest, Len(file), Len(file) - Len(cRest), Shorter(Len(cRest)))
      BY <3>1, NextSend
    <3>3. NextSent(file, cRest, size, y, n)
      BY <1>1, <2>3, <2>5, <3>2
    <3> QED BY <1>4, <2>6, <3>3 DEF NextSent
  <2>8. p \in Packets /\ p.counter = cS
    BY <1>2, <1>7, <2>7, ChunkType
  <2>9. c2s' = Sent(c2s, p) /\ Used(cS') = cS + 1
    BY <1>9, <2>1
  <2>10. InOrder(c2s', wR, cS + 1)
    BY <1>7, <2>4, <2>8, <2>9, OrderSent
  <2>11. ChunksOf(c2s', wR, cS + 1, file, size - wTodo, z) /\ z \in 0..size
    <3>1. wR <= cS
      BY <2>4 DEF InOrder
    <3>2. p = Chunk(cS, SubSeq(file, y + 1, z)) /\ z = y + Shorter(size - y)
      BY <1>2, <2>6, <2>7
    <3>3. y \in 0..Len(file) /\ y < Len(file) /\ z = y + Shorter(Len(file) - y)
          /\ ChunksOf(c2s, wR, cS, file, size - wTodo, y)
      BY <2>3, <2>5, <2>7, <3>2
    <3>4. /\ ChunksOf(Sent(c2s, p), wR, cS + 1, file, size - wTodo, z)
          /\ z \in y + 1..Len(file)
      BY <1>7, <3>1, <3>2, <3>3, ChunksSent
    <3> QED BY <2>3, <2>5, <2>9, <3>4
  <2>12. WorkerSide'
    <3>1. Uploading'
      <4>1. wTodo \in 1..size /\ wBuf = SubSeq(file, 1, size - wTodo) /\ ~wError
        BY <2>1, <2>2, <2>3, <2>4 DEF WorkerView, Uploading
      <4> QED BY <1>6, <2>2, <2>3, <2>7, <2>9, <2>11, <4>1 DEF Uploading
    <3>2. wpc # "upAck"
      BY <2>1 DEF Receives
    <3>3. WorkerView'
      BY <1>6, <1>11, <2>1, <3>1, <3>2 DEF WorkerView
    <3> QED BY <1>6, <2>9, <2>10, <3>3 DEF WorkerSide
  <2>13. (ClientOpen => Together)'
    <3>1. Receiving' /\ Mine' = Mine
      BY <1>6, <1>11, <2>1 DEF Receiving, Mine
    <3>2. NoAnswer'
      BY <1>4, <1>5, <1>6, <2>1 DEF ClientSide, ClientView, NoAnswer
    <3>3. cpc' \in {next, "exited"}
      BY <1>9, <2>1
    <3> QED BY <1>3, <2>2, <2>7, <3>1, <3>2, <3>3 DEF Together, ClientOpen
  <2> QED BY <1>10, <1>11, <1>12, <1>13, <1>14, <2>12, <2>13 DEF Conversation
<1> QED BY <1>15, <1>16

-----------------------------------------------------------------------------
(* The worker's steps.                                                     *)

UploadStates == {"upCreate", "upChunk", "upAck", "upClose"}

LEMMA WorkerParts ==
    ASSUME CInv, UNCHANGED clientVars,
           (WorkerOpen => UploadOK)', ClientSide', UploadSide', WorkerSide',
           ClientOpen /\ WorkerLives' => Together'
    PROVE  Conversation'
<1>1. cpc' = cpc /\ req' = req
  BY DEF clientVars, clientData
<1>2. CommandOK'
  BY <1>1 DEF CInv, Conversation, CommandOK
<1> QED BY <1>1, <1>2 DEF Conversation, ClientOpen

(* The worker is gone, with what it has sent still in flight.              *)
LEMMA WorkerGone ==
    ASSUME CInv, UNCHANGED <<clientVars, s2c, wS, wNames, folder>>, ~WorkerOpen'
    PROVE  Conversation'
<1>1. /\ cpc' = cpc /\ req' = req /\ cR' = cR /\ cTodo' = cTodo /\ cError' = cError
      /\ downloads' = downloads /\ cBuf' = cBuf
      /\ s2c' = s2c /\ wS' = wS /\ folder' = folder /\ wNames' = wNames
  BY DEF clientVars, clientData
<1>2. ~WorkerLives'
  BY DEF WorkerLives
<1>3. ClientSide'
  <2>1. CASE ~ClientOpen
    BY <1>1, <2>1 DEF ClientSide, ClientOpen
  <2>2. CASE ClientOpen /\ ~WorkerOpen /\ s2c = EmptyStream
    BY <1>1, <2>2 DEF ClientSide
  <2>3. CASE InOrder(s2c, cR, Used(wS)) /\ ClientView
    <3>1. Theirs' = Theirs /\ Listable' = Listable
      BY <1>1 DEF Theirs, Stored, Listable
    <3>2. FileFollows(cR + 1, 0) => FileFollows(cR + 1, 0)'
      BY <1>1, <3>1 DEF FileFollows
    <3>3. FileFollows(cR, Len(Theirs) - cTodo) => FileFollows(cR, Len(Theirs) - cTodo)'
      BY <1>1, <3>1 DEF FileFollows
    <3>4. ClientView'
      BY <1>1, <2>3, <3>1, <3>2, <3>3 DEF ClientView, NoAnswer, Answer, Fetched
    <3> QED BY <1>1, <2>3, <3>4 DEF ClientSide
  <2> QED BY <2>1, <2>2, <2>3 DEF CInv, Conversation, ClientSide
<1> QED BY <1>2, <1>3, WorkerParts DEF WorkerSide, UploadSide

LEMMA RequestRefusedTalk == CInv /\ RequestRefused => Conversation'
<1> SUFFICES ASSUME CInv, RequestRefused PROVE Conversation'
  OBVIOUS
<1>1. UNCHANGED <<clientVars, s2c, wS, wNames, folder>> /\ ~WorkerOpen'
  BY DEF RequestRefused, WorkerOpen, transfer
<1> QED BY <1>1, WorkerGone

LEMMA ServerKilledTalk == CInv /\ ServerKilled => Conversation'
<1> SUFFICES ASSUME CInv, ServerKilled PROVE Conversation'
  OBVIOUS
<1>1. UNCHANGED <<clientVars, s2c, wS, wNames, folder>> /\ ~WorkerOpen'
  BY DEF ServerKilled, WorkerOpen, transfer
<1> QED BY <1>1, WorkerGone

(* A step of an upload that sends nothing.                                 *)
LEMMA UploadStep ==
    ASSUME CInv, WorkerOpen, wpc \in UploadStates, UNCHANGED <<clientVars, s2c, wS>>,
           \A n \in Names : folder[n] # Absent => folder'[n] # Absent
    PROVE  ClientSide' /\ UploadSide'
<1>1. /\ cpc' = cpc /\ req' = req /\ cR' = cR /\ s2c' = s2c /\ wS' = wS
  BY DEF clientVars, clientData
<1>2. CASE ~ClientOpen
  BY <1>1, <1>2 DEF ClientSide, UploadSide, ClientOpen
<1>3. CASE ClientOpen
  <2>1. InOrder(s2c, cR, Used(wS)) /\ ClientView
    BY <1>3 DEF CInv, Conversation, ClientSide
  <2>2. \/ cpc \in {"upAck", "upSend", "upFinal"}
        \/ NoAnswer /\ cpc \notin {"dlChunk", "dlClose", "lsData"}
    BY <1>3 DEF CInv, Conversation, UploadSide, UploadStates
  <2>3. cpc = "upAck" /\ Theirs # Absent => Theirs' # Absent
    <3>1. cpc = "upAck" => req.args[1] \in Names
      BY NameFacts DEF CInv, Conversation, CommandOK
    <3> QED BY <1>1, <3>1 DEF Theirs
  <2>4. NoAnswer' <=> NoAnswer
    BY <1>1 DEF NoAnswer
  <2>5. ClientView'
    <3>1. CASE cpc \in {"upAck", "upSend", "upFinal"}
      BY <1>1, <2>1, <2>3, <2>4, <3>1 DEF ClientView, Answer
    <3>2. CASE NoAnswer /\ cpc \notin {"dlChunk", "lsData"}
      BY <1>1, <2>4, <3>2 DEF ClientView
    <3> QED BY <2>2, <3>1, <3>2
  <2>6. ClientSide'
    BY <1>1, <2>1, <2>5 DEF ClientSide
  <2>7. UploadSide'
    BY <1>1, <2>2, <2>4 DEF UploadSide
  <2> QED BY <2>6, <2>7
<1> QED BY <1>2, <1>3

(* A request that the command loop accepts is the one the client is        *)
(* waiting for the answer to, if it is still there.                        *)
LEMMA Takes ==
    ASSUME CInv, NEW op, NEW p, TakeRequest(op, p)
    PROVE  /\ IInv /\ CommandOK /\ WorkerOpen /\ wpc = "idle" /\ UNCHANGED clientVars
           /\ op = req.op /\ p.args = req.args
           /\ p.amount = IF req.op = "upload" THEN Len(Mine) ELSE 0
           /\ InOrder(c2s', wR', Used(cS)) /\ Used(cS) = wR' /\ wR' \in Nat
           /\ ClientOpen => /\ InOrder(s2c, cR, Used(wS)) /\ NoAnswer
                            /\ s2c \in Streams /\ cR \in Nat
                            /\ wS = cR /\ cS = wR' /\ wS \in 0..MaxCounter
                            /\ cpc \in {"upAck", "dlAck", "lsAck", "rnAck", "rmAck", "loAck"}
                            /\ cpc = "upAck" => cRest = Mine
<1>1. /\ WorkerOpen /\ wpc = "idle" /\ p \in Whole(c2s, RequestSize) /\ p.kind = op
      /\ c2s' = Drop(c2s, RequestSize) /\ wR' = wR + 1 /\ UNCHANGED clientVars
  BY DEF TakeRequest
<1>2. /\ IInv /\ CommandOK /\ ClientSide
      /\ ClientOpen => Together
      /\ WorkerLives
  BY <1>1 DEF CInv, Conversation, WorkerLives
<1>3. /\ WorkerView /\ wR < Used(cS)
      /\ InOrder(Drop(c2s, RequestSize), wR + 1, Used(cS))
      /\ \A q : In(c2s, q) /\ q.counter = wR => q = p
  BY <1>1, <1>2, WorkerReads
<1>4. wR \in Nat /\ Used(cS) \in Nat
  BY <1>2, CounterFacts
<1>5. Requested
  BY <1>1, <1>3, <1>4 DEF WorkerView, Ready
<1>6. p = Request(req.op, wR, req.args, IF req.op = "upload" THEN Len(Mine) ELSE 0)
  BY <1>3, <1>5, RequestValues DEF Requested
<1>7. op = req.op /\ p.args = req.args
      /\ p.amount = IF req.op = "upload" THEN Len(Mine) ELSE 0
  BY <1>1, <1>6, RequestValues
<1>8. ASSUME ClientOpen
      PROVE  /\ InOrder(s2c, cR, Used(wS)) /\ NoAnswer
             /\ s2c \in Streams /\ cR \in Nat
             /\ wS = cR /\ cS = wR' /\ wS \in 0..MaxCounter
             /\ cpc \in {"upAck", "dlAck", "lsAck", "rnAck", "rmAck", "loAck"}
             /\ cpc = "upAck" => cRest = Mine
  <2>1. /\ s2c \in Streams /\ cR \in Nat /\ Used(cS) = cS /\ Used(wS) = wS
        /\ wS \in 0..MaxCounter
    BY <1>2, <1>8, CounterFacts
  <2>2. InOrder(s2c, cR, Used(wS))
    BY <1>1, <1>2, <1>8 DEF ClientSide
  <2>3. cS = wR + 1 /\ cS # wR
    BY <1>4, <1>5, <2>1 DEF Requested
  <2>4. /\ cpc \in {"upAck", "dlAck", "lsAck", "rnAck", "rmAck", "loAck"}
        /\ Pending
    <3>1. cpc \in ClientStates /\ cpc # "exited"
      BY <1>2, <1>8 DEF IInv, TypeOK, ClientTypeOK, ClientOpen
    <3> QED BY <1>1, <1>2, <1>8, <2>3, <3>1
            DEF Together, Receiving, Receives, Quiet, Sending, Listed, ClientStates,
                ClientWaits
  <2>5. cpc = "upAck" => cRest = Mine
    BY <1>2, <1>8 DEF Together
  <2> QED BY <1>1, <2>1, <2>2, <2>3, <2>4, <2>5 DEF Pending, NoAnswer
<1> QED BY <1>1, <1>2, <1>3, <1>4, <1>5, <1>7, <1>8 DEF Requested

(* sendData and incrementCounter on the worker's side.                     *)
LEMMA Sends ==
    ASSUME IInv, Orderly, WorkerOpen, wpc # "upClose", ClientOpen,
           NEW p \in Packets, p.counter = wS, p.at = 0,
           InOrder(s2c, cR, Used(wS)),
           s2c' \in AfterSend(s2c, p, ClientOpen), wS' = Incremented(wS)
    PROVE  /\ InOrder(s2c', cR, Used(wS')) /\ Used(wS') = wS + 1
           /\ In(s2c', p) /\ \A q : In(s2c, q) => In(s2c', q)
           /\ s2c' = Sent(s2c, p)
<1>1. wS \in 0..MaxCounter /\ Used(wS) = wS /\ wS \in Nat /\ cR \in Nat /\ s2c \in Streams
  BY CounterFacts DEF WorkerLives
<1>2. s2c' = Sent(s2c, p)
  BY DEF AfterSend, Orderly
<1>3. Used(wS') = wS + 1
  BY <1>1, IncrementedType
<1>4. InOrder(Sent(s2c, p), cR, wS + 1)
  BY <1>1, OrderSent
<1>5. In(Sent(s2c, p), p) /\ \A q : In(s2c, q) => In(Sent(s2c, p), q)
  BY <1>1, InSent
<1> QED BY <1>2, <1>3, <1>4, <1>5

LEMMA WorkerSendsTalk ==
    ASSUME IInv, WorkerOpen, wpc # "upClose", NEW p, NEW next, NEW failed,
           WorkerSends(p, next, failed)
    PROVE  /\ wpc' \in {next, failed, "closed"}
           /\ ClientOpen => /\ s2c' \in AfterSend(s2c, p, ClientOpen)
                            /\ wS' = Incremented(wS)
                            /\ WorkerOpen' => /\ wpc' = next /\ wS # MaxCounter
                                              /\ wS' = wS + 1
           /\ WorkerOpen' => server' = server
BY DEF WorkerSends, WorkerReturns, WorkerOpen, Incremented

(* A handler that has done its work on the folder, if any, and answers.    *)
LEMMA Handled ==
    ASSUME CInv, NEW op, NEW p, TakeRequest(op, p),
           wpc' \in {"idle", "dlSend", "lsSend", "closed"},
           ClientOpen => InOrder(s2c', cR, Used(wS')) /\ ClientView',
           ClientOpen /\ WorkerOpen' => Together'
    PROVE  Conversation'
<1>1. /\ UNCHANGED clientVars /\ InOrder(c2s', wR', Used(cS)) /\ Used(cS) = wR'
  BY Takes
<1>2. cpc' = cpc /\ cS' = cS /\ cR' = cR /\ (ClientOpen' <=> ClientOpen)
  BY <1>1 DEF clientVars, clientData, ClientOpen
<1>3. (WorkerOpen => UploadOK)' /\ UploadSide'
  BY DEF UploadOK, UploadSide
<1>4. ClientSide'
  BY <1>2 DEF ClientSide
<1>5. WorkerSide'
  <2>1. WorkerView'
    BY <1>1, <1>2 DEF WorkerView, Ready, Receives
  <2> QED BY <1>1, <1>2, <2>1 DEF WorkerSide
<1>6. WorkerLives' => WorkerOpen'
  BY DEF WorkerLives
<1> QED BY <1>1, <1>3, <1>4, <1>5, <1>6, WorkerParts

LEMMA RenameRequestTalk == CInv /\ Orderly /\ RenameRequest => Conversation'
<1> SUFFICES ASSUME CInv, Orderly, RenameRequest PROVE Conversation'
  OBVIOUS
<1>1. PICK p \in c2s.pkts, code \in 0..2 :
         LET from == p.args[1]  to == p.args[2] IN
         /\ TakeRequest("rename", p)
         /\ WorkerSends(Ack(wS, code), "idle", "idle")
         /\ \/ /\ code = 0
               /\ folder[from] # Absent /\ folder[to] = Absent
               /\ folder' = [folder EXCEPT ![from] = Absent,
                                           ![to] = folder[from]]
            \/ /\ code = 1
               /\ folder[from] # Absent
               /\ UNCHANGED folder
            \/ /\ code = 2
               /\ folder[from] = Absent
               /\ UNCHANGED folder
  BY DEF RenameRequest
<1>2. /\ IInv /\ CommandOK /\ WorkerOpen /\ wpc = "idle" /\ UNCHANGED clientVars
      /\ req.op = "rename" /\ p.args = req.args
      /\ ClientOpen => /\ InOrder(s2c, cR, Used(wS)) /\ NoAnswer /\ cR \in Nat
                       /\ wS = cR /\ cS = wR' /\ wS \in 0..MaxCounter
                       /\ cpc \in {"upAck", "dlAck", "lsAck", "rnAck", "rmAck", "loAck"}
  BY <1>1, Takes
<1>3. req' = req /\ cpc' = cpc /\ cR' = cR /\ cS' = cS
  BY <1>2 DEF clientVars, clientData
<1>4. /\ wpc' \in {"idle", "closed"}
      /\ ClientOpen => /\ s2c' \in AfterSend(s2c, Ack(wS, code), ClientOpen)
                       /\ wS' = Incremented(wS)
                       /\ WorkerOpen' => wpc' = "idle"
  BY <1>1, <1>2, WorkerSendsTalk
<1>5. PICK f \in Names, g \in Names : req.args = <<f, g>>
  BY <1>2 DEF CommandOK
<1>6. f \in DOMAIN folder /\ g \in DOMAIN folder
  BY <1>2 DEF IInv, TypeOK, WorkerTypeOK
<1>7. /\ code = 0 => folder'[f] = Absent /\ folder'[g] # Absent
      /\ code = 1 => folder'[f] # Absent
      /\ code = 2 => folder'[f] = Absent
  BY <1>1, <1>2, <1>5, <1>6
<1>8. ASSUME ClientOpen
      PROVE  InOrder(s2c', cR, Used(wS')) /\ ClientView' /\ (WorkerOpen' => Together')
  <2>1. cpc = "rnAck"
    BY <1>2, <1>8 DEF CommandOK
  <2>2. Ack(wS, code) \in Packets /\ Ack(wS, code).counter = wS /\ Ack(wS, code).at = 0
    BY <1>2, <1>8, AckType, AckValues
  <2>3. /\ InOrder(s2c', cR, Used(wS')) /\ Used(wS') = wS + 1
        /\ In(s2c', Ack(wS, code))
    BY <1>2, <1>4, <1>8, <2>2, Sends
  <2>4. Answer(Ack(cR, code))'
    BY <1>2, <1>3, <1>8, <2>3 DEF Answer
  <2>5. Theirs' = folder'[f] /\ folder'[req'.args[2]] = folder'[g]
    BY <1>3, <1>5 DEF Theirs
  <2>6. ClientView'
    BY <1>3, <1>7, <2>1, <2>4, <2>5 DEF ClientView
  <2>7. ~NoAnswer'
    BY <1>2, <1>3, <1>8, <2>3 DEF NoAnswer
  <2>8. WorkerOpen' => Together'
    BY <1>2, <1>3, <1>4, <1>8, <2>1, <2>7 DEF Together, Quiet
  <2> QED BY <2>3, <2>6, <2>8
<1> QED BY <1>1, <1>4, <1>8, Handled

LEMMA DeleteRequestTalk == CInv /\ Orderly /\ DeleteRequest => Conversation'
<1> SUFFICES ASSUME CInv, Orderly, DeleteRequest PROVE Conversation'
  OBVIOUS
<1>1. PICK p \in c2s.pkts, code \in 0..2 :
         LET file == p.args[1] IN
         /\ TakeRequest("delete", p)
         /\ WorkerSends(Ack(wS, code), "idle", "idle")
         /\ \/ code = 0 /\ folder' = [folder EXCEPT ![file] = Absent]
            \/ code = 1 /\ folder[file] # Absent /\ UNCHANGED folder
            \/ code = 2 /\ folder[file] = Absent /\ UNCHANGED folder
  BY DEF DeleteRequest
<1>2. /\ IInv /\ CommandOK /\ WorkerOpen /\ wpc = "idle" /\ UNCHANGED clientVars
      /\ req.op = "delete" /\ p.args = req.args
      /\ ClientOpen => /\ InOrder(s2c, cR, Used(wS)) /\ NoAnswer /\ cR \in Nat
                       /\ wS = cR /\ cS = wR' /\ wS \in 0..MaxCounter
                       /\ cpc \in {"upAck", "dlAck", "lsAck", "rnAck", "rmAck", "loAck"}
  BY <1>1, Takes
<1>3. req' = req /\ cpc' = cpc /\ cR' = cR /\ cS' = cS
  BY <1>2 DEF clientVars, clientData
<1>4. /\ wpc' \in {"idle", "closed"}
      /\ ClientOpen => /\ s2c' \in AfterSend(s2c, Ack(wS, code), ClientOpen)
                       /\ wS' = Incremented(wS)
                       /\ WorkerOpen' => wpc' = "idle"
  BY <1>1, <1>2, WorkerSendsTalk
<1>5. PICK f \in Names : req.args = <<f>>
  BY <1>2 DEF CommandOK
<1>6. f \in DOMAIN folder
  BY <1>2 DEF IInv, TypeOK, WorkerTypeOK
<1>7. /\ code \in {0, 2} => folder'[f] = Absent
      /\ code = 1 => folder'[f] # Absent
  BY <1>1, <1>2, <1>5, <1>6
<1>8. ASSUME ClientOpen
      PROVE  InOrder(s2c', cR, Used(wS')) /\ ClientView' /\ (WorkerOpen' => Together')
  <2>1. cpc = "rmAck"
    BY <1>2, <1>8 DEF CommandOK
  <2>2. Ack(wS, code) \in Packets /\ Ack(wS, code).counter = wS /\ Ack(wS, code).at = 0
    BY <1>2, <1>8, AckType, AckValues
  <2>3. /\ InOrder(s2c', cR, Used(wS')) /\ Used(wS') = wS + 1
        /\ In(s2c', Ack(wS, code))
    BY <1>2, <1>4, <1>8, <2>2, Sends
  <2>4. Answer(Ack(cR, code))'
    BY <1>2, <1>3, <1>8, <2>3 DEF Answer
  <2>5. Theirs' = folder'[f]
    BY <1>3, <1>5 DEF Theirs
  <2>6. ClientView'
    BY <1>3, <1>7, <2>1, <2>4, <2>5 DEF ClientView
  <2>7. ~NoAnswer'
    BY <1>2, <1>3, <1>8, <2>3 DEF NoAnswer
  <2>8. WorkerOpen' => Together'
    BY <1>2, <1>3, <1>4, <1>8, <2>1, <2>7 DEF Together, Quiet
  <2> QED BY <2>3, <2>6, <2>8
<1> QED BY <1>1, <1>4, <1>8, Handled

LEMMA LogoutRequestTalk == CInv /\ Orderly /\ LogoutRequest => Conversation'
<1> SUFFICES ASSUME CInv, Orderly, LogoutRequest PROVE Conversation'
  OBVIOUS
<1>1. PICK p \in c2s.pkts :
         TakeRequest("logout", p) /\ WorkerSends(Ack(wS, 0), "closed", "closed")
  BY DEF LogoutRequest
<1>2. /\ IInv /\ CommandOK /\ WorkerOpen /\ wpc = "idle" /\ UNCHANGED clientVars
      /\ req.op = "logout"
      /\ ClientOpen => /\ InOrder(s2c, cR, Used(wS)) /\ NoAnswer /\ cR \in Nat
                       /\ wS = cR /\ cS = wR' /\ wS \in 0..MaxCounter
                       /\ cpc \in {"upAck", "dlAck", "lsAck", "rnAck", "rmAck", "loAck"}
  BY <1>1, Takes
<1>3. cpc' = cpc /\ cR' = cR
  BY <1>2 DEF clientVars, clientData
<1>4. /\ wpc' = "closed"
      /\ ClientOpen => /\ s2c' \in AfterSend(s2c, Ack(wS, 0), ClientOpen)
                       /\ wS' = Incremented(wS)
  BY <1>1, <1>2, WorkerSendsTalk
<1>5. ASSUME ClientOpen
      PROVE  InOrder(s2c', cR, Used(wS')) /\ ClientView'
  <2>1. cpc = "loAck"
    BY <1>2, <1>5 DEF CommandOK
  <2>2. Ack(wS, 0) \in Packets /\ Ack(wS, 0).counter = wS /\ Ack(wS, 0).at = 0
    BY <1>2, <1>5, AckType, AckValues
  <2>3. /\ InOrder(s2c', cR, Used(wS')) /\ Used(wS') = wS + 1
        /\ In(s2c', Ack(wS, 0))
    BY <1>2, <1>4, <1>5, <2>2, Sends
  <2>4. Answer(Ack(cR, 0))'
    BY <1>2, <1>3, <1>5, <2>3 DEF Answer
  <2>5. ClientView'
    BY <1>3, <2>1, <2>4 DEF ClientView
  <2> QED BY <2>3, <2>5
<1>6. ~WorkerOpen'
  BY <1>4 DEF WorkerOpen
<1> QED BY <1>1, <1>4, <1>5, <1>6, Handled

LEMMA ListRequestTalk == CInv /\ Orderly /\ ListRequest => Conversation'
<1> SUFFICES ASSUME CInv, Orderly, ListRequest PROVE Conversation'
  OBVIOUS
<1>1. PICK names \in Listable, p \in c2s.pkts :
         /\ TakeRequest("list", p)
         /\ WorkerSends(SizedAck(wS, 0, ListLength(names)), "lsSend", "idle")
         /\ wNames' = names
  <2>1. ~FolderMissing
    BY DEF FolderMissing, Orderly
  <2> QED BY <2>1 DEF ListRequest
<1>1a. PICK n : n = ListLength(names)
  OBVIOUS
<1>2. TakeRequest("list", p) /\ WorkerSends(SizedAck(wS, 0, n), "lsSend", "idle")
  BY <1>1, <1>1a
<1>3. UNCHANGED folder
  BY DEF ListRequest
<1>4. /\ IInv /\ CommandOK /\ WorkerOpen /\ wpc = "idle" /\ UNCHANGED clientVars
      /\ req.op = "list"
      /\ ClientOpen => /\ InOrder(s2c, cR, Used(wS)) /\ NoAnswer /\ cR \in Nat
                       /\ wS = cR /\ cS = wR' /\ wS \in 0..MaxCounter
                       /\ cpc \in {"upAck", "dlAck", "lsAck", "rnAck", "rmAck", "loAck"}
  BY <1>2, Takes
<1>5. cpc' = cpc /\ cR' = cR /\ cS' = cS /\ Listable' = Listable
  BY <1>3, <1>4 DEF clientVars, clientData, Stored, Listable
<1>6. /\ wpc' \in {"lsSend", "idle", "closed"}
      /\ ClientOpen => /\ s2c' \in AfterSend(s2c, SizedAck(wS, 0, n), ClientOpen)
                       /\ wS' = Incremented(wS)
                       /\ WorkerOpen' => wpc' = "lsSend"
  BY <1>2, <1>4, WorkerSendsTalk
<1>7. n \in Nat
  BY <1>1a, ListLengthType DEF Stored, Listable
<1>8. ASSUME ClientOpen
      PROVE  InOrder(s2c', cR, Used(wS')) /\ ClientView' /\ (WorkerOpen' => Together')
  <2>1. cpc = "lsAck"
    BY <1>4, <1>8 DEF CommandOK
  <2>2. PICK q : q = SizedAck(wS, 0, n)
    OBVIOUS
  <2>3. q \in Packets /\ q.counter = wS /\ q.at = 0
    BY <1>4, <1>7, <1>8, <2>2, SizedAckType, SizedAckValues
  <2>4. InOrder(s2c', cR, Used(wS')) /\ Used(wS') = wS + 1 /\ In(s2c', q)
    BY <1>4, <1>6, <1>8, <2>2, <2>3, Sends
  <2>5. Used(wS') = cR + 1 /\ In(s2c', SizedAck(cR', 0, ListLength(names)))
    BY <1>1a, <1>4, <1>5, <1>8, <2>2, <2>4
  <2>6. ClientView'
    BY <1>1, <1>5, <2>1, <2>5 DEF ClientView
  <2>7. WorkerOpen' => Together'
    BY <1>1, <1>1a, <1>2, <1>4, <1>5, <1>6, <1>8, <2>1, <2>5 DEF Together, Listed
  <2> QED BY <2>4, <2>6, <2>7
<1> QED BY <1>2, <1>6, <1>8, Handled

(* A step that sends part of an answer while nothing is expected.          *)
LEMMA PartSent ==
    ASSUME CInv, WorkerOpen, wpc \in {"dlSend", "lsSend"},
           UNCHANGED <<c2s, clientVars, wR>>,
           wpc' \in {"idle", "dlSend", "lsSend", "closed"},
           ClientOpen => InOrder(s2c', cR, Used(wS')) /\ ClientView',
           ClientOpen /\ WorkerOpen' => Together'
    PROVE  Conversation'
<1>1. cpc' = cpc /\ cS' = cS /\ cR' = cR /\ (ClientOpen' <=> ClientOpen)
      /\ c2s' = c2s /\ wR' = wR /\ req' = req
  BY DEF clientVars, clientData, ClientOpen
<1>2. (WorkerOpen => UploadOK)' /\ UploadSide'
  BY DEF UploadOK, UploadSide
<1>3. ClientSide'
  BY <1>1 DEF ClientSide
<1>4. WorkerSide'
  <2>1. WorkerSide /\ WorkerLives
    BY DEF CInv, Conversation, WorkerLives
  <2>2. CASE ~ClientOpen /\ c2s = EmptyStream
    BY <1>1, <2>2 DEF WorkerSide
  <2>3. CASE InOrder(c2s, wR, Used(cS)) /\ WorkerView
    <3>1. Used(cS) = wR
      BY <2>3 DEF WorkerView, Ready, Receives
    <3>2. WorkerView'
      BY <1>1, <3>1 DEF WorkerView, Ready, Receives
    <3> QED BY <1>1, <2>3, <3>2 DEF WorkerSide
  <2> QED BY <2>1, <2>2, <2>3 DEF WorkerSide
<1>5. WorkerLives' => WorkerOpen'
  BY DEF WorkerLives
<1> QED BY <1>2, <1>3, <1>4, <1>5, WorkerParts

LEMMA SendListingTalk == CInv /\ Orderly /\ SendListing => Conversation'
<1> SUFFICES ASSUME CInv, Orderly, SendListing PROVE Conversation'
  OBVIOUS
<1>1. PICK q : q = Listing(wS, wNames)
  OBVIOUS
<1>2. /\ WorkerOpen /\ wpc = "lsSend" /\ WorkerSends(q, "idle", "idle")
      /\ UNCHANGED <<c2s, clientVars, wR, folder>>
  BY <1>1 DEF SendListing
<1>3. /\ IInv /\ CommandOK /\ ClientSide /\ WorkerSide /\ WorkerLives
      /\ ClientOpen => Together
  BY <1>2 DEF CInv, Conversation, WorkerLives
<1>4. /\ cpc' = cpc /\ cR' = cR /\ cS' = cS /\ cTodo' = cTodo
      /\ Listable' = Listable /\ wR' = wR
  BY <1>2 DEF clientVars, clientData, Stored, Listable
<1>5. /\ wpc' \in {"idle", "closed"}
      /\ ClientOpen => /\ s2c' \in AfterSend(s2c, q, ClientOpen)
                       /\ wS' = Incremented(wS)
                       /\ WorkerOpen' => wpc' = "idle"
  BY <1>2, <1>3, WorkerSendsTalk
<1>6. ASSUME ClientOpen
      PROVE  InOrder(s2c', cR, Used(wS')) /\ ClientView' /\ (WorkerOpen' => Together')
  <2>1. /\ s2c \in Streams /\ cR \in Nat /\ cS \in Nat /\ Used(cS) = cS
        /\ wS \in 0..MaxCounter /\ Used(wS) = wS /\ wR \in Nat
    BY <1>3, <1>6, CounterFacts
  <2>2. InOrder(s2c, cR, Used(wS)) /\ ClientView
    BY <1>2, <1>3, <1>6 DEF ClientSide
  <2>3. Used(cS) = wR
    BY <1>2, <1>3, <1>6 DEF WorkerSide, WorkerView, Ready, Receives
  <2>4. \/ cpc = "lsAck" /\ wS = cR + 1 /\ Listed
        \/ cpc = "lsData" /\ NoAnswer /\ Listed
    <3>1. cpc \in ClientStates /\ cpc # "exited"
      BY <1>3, <1>6 DEF IInv, TypeOK, ClientTypeOK, ClientOpen
    <3> QED BY <1>2, <1>3, <1>6, <2>1, <2>3, <3>1
            DEF Together, Ready, Receiving, Receives, Pending, Quiet, Sending,
                ClientStates, ClientWaits
  <2>5. cS = wR /\ wNames \in SUBSET Names
    BY <1>3, <2>4 DEF Listed, IInv, TypeOK, WorkerTypeOK
  <2>6. q \in Packets /\ q.counter = wS /\ q.at = 0
    BY <1>1, <2>1, <2>5, ListingType, ListingValues
  <2>7. /\ InOrder(s2c', cR, Used(wS')) /\ Used(wS') = wS + 1 /\ In(s2c', q)
        /\ \A r : In(s2c, r) => In(s2c', r)
    BY <1>2, <1>3, <1>5, <1>6, <2>2, <2>6, Sends
  <2>8. Quiet' <=> WorkerOpen' \/ wpc' = "idle"
    BY <1>4, <1>5, <1>6, <2>5 DEF Quiet, WorkerOpen
  <2>9. CASE cpc = "lsAck" /\ wS = cR + 1
    <3>1. wNames \in Listable /\ In(s2c, SizedAck(cR, 0, ListLength(wNames)))
      BY <2>1, <2>2, <2>9 DEF ClientView, NoAnswer
    <3>2. Used(wS') = cR + 2
      BY <2>1, <2>7, <2>9
    <3>3. ClientView'
      BY <1>1, <1>4, <2>7, <2>9, <3>1, <3>2 DEF ClientView
    <3>4. WorkerOpen' => Together'
      BY <1>4, <2>8, <2>9, <3>2 DEF Together
    <3> QED BY <2>7, <3>3, <3>4
  <2>10. CASE cpc = "lsData" /\ NoAnswer
    <3>1. wS = cR
      BY <2>1, <2>10 DEF NoAnswer
    <3>2. PICK names \in Listable : cTodo = ListLength(names) /\ wNames = names
      BY <2>1, <2>2, <2>10 DEF ClientView, NoAnswer, Answer
    <3>3. Answer(Listing(cR, names))' /\ ~NoAnswer'
      BY <1>1, <1>4, <2>1, <2>7, <3>1, <3>2 DEF Answer, NoAnswer
    <3>4. ClientView'
      BY <1>4, <2>10, <3>2, <3>3 DEF ClientView
    <3>5. WorkerOpen' => Together'
      BY <1>4, <2>8, <2>10, <3>3 DEF Together
    <3> QED BY <2>7, <3>4, <3>5
  <2> QED BY <2>4, <2>9, <2>10
<1> QED BY <1>2, <1>5, <1>6, PartSent

LEMMA EndOfItself ==
    ASSUME NEW file \in Content
    PROVE  IsEndOf(file, file)
<1>1. Len(file) \in Nat /\ Len(file) - Len(file) + 1 = 1
      /\ SubSeq(file, 1, Len(file)) = file
  BY DEF Content
<1> QED BY <1>1 DEF IsEndOf

LEMMA DownloadRequestTalk == CInv /\ Orderly /\ DownloadRequest => Conversation'
<1> SUFFICES ASSUME CInv, Orderly, DownloadRequest PROVE Conversation'
  OBVIOUS
<1>1. PICK p \in c2s.pkts :
         LET content == folder[p.args[1]] IN
         /\ TakeRequest("download", p)
         /\ IF content \notin {Absent, <<>>}
            THEN /\ WorkerSends(SizedAck(wS, 0, Len(content)), "dlSend", "idle")
                 /\ wRest' = content
            ELSE \/ WorkerSends(SizedAck(wS, 1, 0), "idle", "idle")
                 \/ /\ s2c' \in AfterSend(s2c, SizedAck(wS, 1, 0), ClientOpen)
                    /\ wS # MaxCounter
                    /\ wS' = wS + 1
                    /\ wpc' = "closed"
  BY DEF DownloadRequest
<1>2. UNCHANGED folder
  BY DEF DownloadRequest
<1>3. /\ IInv /\ CommandOK /\ WorkerOpen /\ wpc = "idle" /\ UNCHANGED clientVars
      /\ req.op = "download" /\ p.args = req.args
      /\ ClientOpen => /\ InOrder(s2c, cR, Used(wS)) /\ NoAnswer /\ cR \in Nat
                       /\ wS = cR /\ cS = wR' /\ wS \in 0..MaxCounter
                       /\ cpc \in {"upAck", "dlAck", "lsAck", "rnAck", "rmAck", "loAck"}
  BY <1>1, Takes
<1>4. cpc' = cpc /\ cR' = cR /\ cS' = cS /\ Theirs' = Theirs
  BY <1>2, <1>3 DEF clientVars, clientData, Theirs
<1>5. Theirs = folder[p.args[1]] /\ Theirs \in Content \cup {Absent}
  BY <1>3, NameFacts DEF Theirs
<1>6. ClientOpen => cpc = "dlAck"
  BY <1>3 DEF CommandOK
<1>7. CASE Theirs \notin {Absent, <<>>}
  <2>1. PICK file \in Content : file = Theirs /\ file # Absent /\ file # <<>>
    BY <1>5, <1>7
  <2>2. PICK size \in Nat : size = Len(file)
    BY DEF Content
  <2>3. PICK q : q = SizedAck(wS, 0, size)
    OBVIOUS
  <2>4. WorkerSends(q, "dlSend", "idle") /\ wRest' = file
    BY <1>1, <1>5, <2>1, <2>2, <2>3
  <2>5. /\ wpc' \in {"dlSend", "idle", "closed"}
        /\ ClientOpen => /\ s2c' \in AfterSend(s2c, q, ClientOpen)
                         /\ wS' = Incremented(wS)
                         /\ WorkerOpen' => wpc' = "dlSend"
    BY <1>3, <2>4, WorkerSendsTalk
  <2>6. ASSUME ClientOpen
        PROVE  InOrder(s2c', cR, Used(wS')) /\ ClientView' /\ (WorkerOpen' => Together')
    <3>1. q \in Packets /\ q.counter = wS /\ q.at = 0
      BY <1>3, <2>3, <2>6, SizedAckType, SizedAckValues
    <3>2. InOrder(s2c', cR, Used(wS')) /\ Used(wS') = wS + 1 /\ In(s2c', q)
      BY <1>3, <2>5, <2>6, <3>1, Sends
    <3>3. Used(wS') = cR + 1 /\ cR < Used(wS') /\ ~NoAnswer'
          /\ In(s2c', SizedAck(cR, 0, Len(Theirs)))
      BY <1>3, <1>4, <2>1, <2>2, <2>3, <2>6, <3>2 DEF NoAnswer
    <3>4. FileFollows(cR + 1, 0)'
      <4>1. cR + 1 \in Nat /\ 0 \in 0..Len(file)
        BY <1>3, <2>2, <2>6
      <4>2. ChunksOf(s2c', cR + 1, cR + 1, file, 0, 0)
        BY <4>1, ChunksNone
      <4>3. 0 = Len(file) - Len(file)
        BY <2>2
      <4> QED BY <1>4, <2>1, <2>4, <2>5, <2>6, <3>3, <4>1, <4>2, <4>3 DEF FileFollows
    <3>5. ClientView'
      BY <1>4, <1>6, <1>7, <2>6, <3>3, <3>4 DEF ClientView
    <3>6. WorkerOpen' => Sending'
      BY <1>3, <1>4, <2>1, <2>4, <2>5, <2>6, EndOfItself DEF Sending
    <3>7. WorkerOpen' => Together'
      BY <1>4, <1>6, <2>6, <3>3, <3>6 DEF Together
    <3> QED BY <3>2, <3>5, <3>7
  <2> QED BY <1>1, <2>5, <2>6, Handled
<1>8. CASE Theirs \in {Absent, <<>>}
  <2>1. PICK q : q = SizedAck(wS, 1, 0)
    OBVIOUS
  <2>2. \/ WorkerSends(q, "idle", "idle")
        \/ /\ s2c' \in AfterSend(s2c, q, ClientOpen)
           /\ wS # MaxCounter /\ wS' = wS + 1 /\ wpc' = "closed"
    BY <1>1, <1>5, <1>8, <2>1
  <2>3. /\ wpc' \in {"idle", "closed"}
        /\ ClientOpen => /\ s2c' \in AfterSend(s2c, q, ClientOpen)
                         /\ wS' = Incremented(wS)
                         /\ WorkerOpen' => wpc' = "idle"
    <3>1. CASE WorkerSends(q, "idle", "idle")
      BY <1>3, <3>1, WorkerSendsTalk
    <3>2. CASE /\ s2c' \in AfterSend(s2c, q, ClientOpen)
               /\ wS # MaxCounter /\ wS' = wS + 1 /\ wpc' = "closed"
      BY <3>2 DEF Incremented, WorkerOpen
    <3> QED BY <2>2, <3>1, <3>2
  <2>4. ASSUME ClientOpen
        PROVE  InOrder(s2c', cR, Used(wS')) /\ ClientView' /\ (WorkerOpen' => Together')
    <3>1. q \in Packets /\ q.counter = wS /\ q.at = 0
      BY <1>3, <2>1, <2>4, SizedAckType, SizedAckValues
    <3>2. InOrder(s2c', cR, Used(wS')) /\ Used(wS') = wS + 1 /\ In(s2c', q)
      BY <1>3, <2>3, <2>4, <3>1, Sends
    <3>3. Answer(SizedAck(cR, 1, 0))' /\ ~NoAnswer'
      BY <1>3, <1>4, <2>1, <2>4, <3>2 DEF Answer, NoAnswer
    <3>4. ClientView'
      BY <1>4, <1>6, <1>8, <2>4, <3>3 DEF ClientView
    <3>5. WorkerOpen' => Together'
      BY <1>3, <1>4, <1>6, <2>3, <2>4, <3>3 DEF Together, Quiet
    <3> QED BY <3>2, <3>4, <3>5
  <2> QED BY <1>1, <2>3, <2>4, Handled
<1> QED BY <1>7, <1>8

LEMMA DownloadChunkTalk == CInv /\ Orderly /\ DownloadChunk => Conversation'
<1> SUFFICES ASSUME CInv, Orderly, DownloadChunk PROVE Conversation'
  OBVIOUS
<1>1. PICK n : n = Shorter(Len(wRest))
  OBVIOUS
<1>2. PICK q : q = Chunk(wS, SubSeq(wRest, 1, n))
  OBVIOUS
<1>3. PICK next : next = IF wRest' = <<>> THEN "idle" ELSE "dlSend"
  OBVIOUS
<1>4. /\ WorkerOpen /\ wpc = "dlSend"
      /\ wRest' = SubSeq(wRest, n + 1, Len(wRest))
      /\ WorkerSends(q, next, "idle")
      /\ UNCHANGED <<c2s, clientVars, wR, folder>>
  BY <1>1, <1>2, <1>3 DEF DownloadChunk
<1>5. /\ IInv /\ CommandOK /\ ClientSide /\ WorkerSide /\ WorkerLives
      /\ ClientOpen => Together
  BY <1>4 DEF CInv, Conversation, WorkerLives
<1>6. /\ cpc' = cpc /\ cR' = cR /\ cS' = cS /\ cTodo' = cTodo /\ wR' = wR
      /\ cError' = cError /\ downloads' = downloads /\ cBuf' = cBuf /\ req' = req
      /\ Theirs' = Theirs
  BY <1>4 DEF clientVars, clientData, Theirs
<1>7. /\ wpc' \in {"idle", "dlSend", "closed"}
      /\ ClientOpen => /\ s2c' \in AfterSend(s2c, q, ClientOpen)
                       /\ wS' = Incremented(wS)
                       /\ WorkerOpen' => wpc' = next
  BY <1>3, <1>4, <1>5, WorkerSendsTalk
<1>8. ASSUME ClientOpen
      PROVE  InOrder(s2c', cR, Used(wS')) /\ ClientView' /\ (WorkerOpen' => Together')
  <2>1. /\ s2c \in Streams /\ cR \in Nat /\ cS \in Nat /\ Used(cS) = cS
        /\ wS \in 0..MaxCounter /\ wS \in Nat /\ Used(wS) = wS /\ wR \in Nat
    BY <1>5, <1>8, CounterFacts
  <2>2. InOrder(s2c, cR, wS) /\ ClientView
    BY <1>4, <1>5, <1>8, <2>1 DEF ClientSide
  <2>3. cS = wR
    BY <1>4, <1>5, <1>8, <2>1 DEF WorkerSide, WorkerView, Ready, Receives
  <2>4. cpc \in {"dlAck", "dlChunk"} /\ Sending /\ (cpc = "dlAck" => ~NoAnswer)
    <3>1. cpc \in ClientStates /\ cpc # "exited"
      BY <1>5, <1>8 DEF IInv, TypeOK, ClientTypeOK, ClientOpen
    <3> QED BY <1>4, <1>5, <1>8, <2>1, <2>3, <3>1
            DEF Together, Ready, Receiving, Receives, Pending, Quiet, Listed,
                ClientStates, ClientWaits
  <2>5. PICK file \in Content : file = Theirs
    <3>1. req.op = "download"
      BY <1>5, <2>4 DEF CommandOK
    <3> QED BY <1>5, <2>4, <3>1, NameFacts DEF Sending
  <2>6. PICK size \in Nat : size = Len(file)
    BY DEF Content
  <2>7. wRest \in Content /\ wRest # <<>> /\ IsEndOf(wRest, file)
    BY <1>5, <2>4, <2>5 DEF IInv, TypeOK, WorkerTypeOK, Sending
  <2>8. PICK y : y = size - Len(wRest)
    OBVIOUS
  <2>9. PICK z : z = y + n
    OBVIOUS
  <2>10. /\ y \in 0..size /\ y < size /\ z \in 0..size /\ z = y + Shorter(size - y)
         /\ q = Chunk(wS, SubSeq(file, y + 1, z))
         /\ SubSeq(wRest, 1, n) \in Content
         /\ IsEndOf(wRest', file)
         /\ z = size - Len(wRest')
    <3>1. NextSent(file, wRest, Len(file), Len(file) - Len(wRest), Shorter(Len(wRest)))
      BY <2>7, NextSend
    <3>2. NextSent(file, wRest, size, y, n)
      BY <1>1, <2>6, <2>8, <3>1
    <3> QED BY <1>2, <1>4, <2>9, <3>2 DEF NextSent
  <2>11. q \in Packets /\ q.counter = wS /\ q.at = 0
    BY <1>2, <2>1, <2>10, ChunkType, ChunkValues
  <2>12. /\ InOrder(s2c', cR, Used(wS')) /\ Used(wS') = wS + 1
         /\ \A r : In(s2c, r) => In(s2c', r)
         /\ s2c' = Sent(s2c, q)
    BY <1>4, <1>5, <1>7, <1>8, <2>1, <2>2, <2>11, Sends
  <2>13. wRest' = <<>> => z = size
    BY <2>10
  <2>14. ASSUME NEW a \in Nat, a <= wS, NEW x, x \in Nat, FileFollows(a, x)
         PROVE  FileFollows(a, x)'
    <3>1. ChunksOf(s2c, a, wS, file, x, y)
      BY <1>4, <2>1, <2>5, <2>6, <2>8, <2>14 DEF FileFollows
    <3>2. y \in 0..Len(file) /\ y < Len(file) /\ z = y + Shorter(Len(file) - y)
      BY <2>6, <2>10
    <3>3. ChunksOf(Sent(s2c, q), a, wS + 1, file, x, z)
      BY <2>1, <2>10, <2>14, <3>1, <3>2, ChunksSent
    <3>4. ChunksOf(s2c', a, Used(wS'), file, x, z) /\ z \in 0..Len(file)
      BY <2>6, <2>10, <2>12, <3>3
    <3>5. WorkerOpen' => /\ wpc' = "dlSend" => z = Len(file) - Len(wRest')
                         /\ wpc' = "idle" => z = Len(file)
      BY <1>3, <1>7, <1>8, <2>6, <2>10, <2>13
    <3> QED BY <1>6, <2>5, <3>4, <3>5 DEF FileFollows
  <2>15. ClientView'
    <3>1. CASE cpc = "dlAck"
      <4>1. /\ Theirs \notin {Absent, <<>>}
            /\ In(s2c, SizedAck(cR, 0, Len(Theirs)))
            /\ cR < wS /\ FileFollows(cR + 1, 0)
        <5>1. Theirs \notin {Absent, <<>>}
          BY <2>4, <2>5, <2>6, <2>10 DEF Sending
        <5> QED BY <2>1, <2>2, <2>4, <3>1, <5>1 DEF ClientView, Answer
      <4>2. FileFollows(cR + 1, 0)'
        <5>1. PICK a \in Nat : a = cR + 1
          BY <2>1
        <5>2. a <= wS /\ 0 \in Nat /\ FileFollows(a, 0)
          BY <2>1, <4>1, <5>1
        <5>3. FileFollows(a, 0)'
          BY <2>14, <5>2
        <5> QED BY <1>6, <5>1, <5>3 DEF FileFollows
      <4>3. In(s2c', SizedAck(cR, 0, Len(Theirs))) /\ cR < Used(wS')
        BY <2>1, <2>12, <4>1
      <4> QED BY <1>6, <3>1, <4>1, <4>2, <4>3 DEF ClientView
    <3>2. CASE cpc = "dlChunk"
      <4>1. /\ Theirs # Absent
            /\ cTodo \in 1..Len(Theirs)
            /\ FileFollows(cR, Len(Theirs) - cTodo)
            /\ ~cError => Fetched(SubSeq(Theirs, 1, Len(Theirs) - cTodo))
        BY <2>2, <3>2 DEF ClientView
      <4>2. PICK x : x = Len(Theirs) - cTodo
        OBVIOUS
      <4>3. x \in Nat /\ cR <= wS
        BY <2>2, <2>5, <2>6, <4>1, <4>2 DEF InOrder
      <4>4. FileFollows(cR, x)'
        <5>1. PICK a \in Nat : a = cR
          BY <2>1
        <5>2. FileFollows(a, x)'
          BY <2>14, <4>1, <4>2, <4>3, <5>1
        <5> QED BY <1>6, <5>1, <5>2 DEF FileFollows
      <4> QED BY <1>6, <3>2, <4>1, <4>2, <4>4 DEF ClientView, Fetched
    <3> QED BY <2>4, <3>1, <3>2
  <2>16. WorkerOpen' => Quiet' \/ Sending'
    BY <1>3, <1>6, <1>7, <1>8, <2>3, <2>4, <2>5, <2>10 DEF Quiet, Sending
  <2>17. ~NoAnswer \/ cpc # "dlAck" => ~NoAnswer' \/ cpc # "dlAck"
    <3>1. cR <= wS
      BY <2>2 DEF InOrder
    <3> QED BY <1>6, <2>1, <2>12, <3>1 DEF NoAnswer
  <2>18. WorkerOpen' => Together'
    BY <1>6, <2>4, <2>16, <2>17 DEF Together
  <2> QED BY <2>12, <2>15, <2>18
<1> QED BY <1>4, <1>7, <1>8, PartSent

LEMMA UploadRequestTalk == CInv /\ Orderly /\ UploadRequest => Conversation'
<1> SUFFICES ASSUME CInv, Orderly, UploadRequest PROVE Conversation'
  OBVIOUS
<1>1. PICK p \in c2s.pkts :
         /\ TakeRequest("upload", p)
         /\ wFile' = p.args[1]
         /\ wTodo' = p.amount
         /\ WorkerSends(Ack(wS, IF folder[p.args[1]] = Absent THEN 1 ELSE 0),
                        "upCreate", "idle")
  BY DEF UploadRequest
<1>2. wBuf' = <<>> /\ wError' = FALSE /\ UNCHANGED folder
  BY DEF UploadRequest
<1>3. PICK code \in {0, 1} : code = IF Theirs = Absent THEN 1 ELSE 0
  OBVIOUS
<1>4. PICK q : q = Ack(wS, code)
  OBVIOUS
<1>5. /\ IInv /\ CommandOK /\ WorkerOpen /\ wpc = "idle" /\ UNCHANGED clientVars
      /\ req.op = "upload" /\ p.args = req.args /\ p.amount = Len(Mine)
      /\ InOrder(c2s', wR', Used(cS)) /\ Used(cS) = wR' /\ wR' \in Nat
      /\ ClientOpen => /\ InOrder(s2c, cR, Used(wS)) /\ NoAnswer /\ cR \in Nat
                       /\ wS = cR /\ cS = wR' /\ wS \in 0..MaxCounter
                       /\ cpc \in {"upAck", "dlAck", "lsAck", "rnAck", "rmAck", "loAck"}
                       /\ cpc = "upAck" => cRest = Mine
  BY <1>1, Takes
<1>6. /\ cpc' = cpc /\ cR' = cR /\ cS' = cS /\ req' = req /\ cRest' = cRest
      /\ (ClientOpen' <=> ClientOpen)
  BY <1>5 DEF clientVars, clientData, ClientOpen
<1>7. Theirs' = Theirs /\ Mine' = Mine /\ folder' = folder
  BY <1>2, <1>6 DEF Theirs, Mine
<1>8. /\ wFile' = req.args[1] /\ req.args[1] \in Names
      /\ folder[wFile'] = Theirs /\ Local[wFile'] = Mine
      /\ Mine \in Content /\ Len(Mine) \in Nat \ {0}
      /\ req.args = <<req.args[1]>>
  BY <1>1, <1>5, NameFacts DEF Theirs, Mine
<1>9. /\ wpc' \in {"upCreate", "idle", "closed"}
      /\ ClientOpen => /\ s2c' \in AfterSend(s2c, q, ClientOpen)
                       /\ wS' = Incremented(wS)
                       /\ WorkerOpen' => wpc' = "upCreate"
  <2>1. WorkerSends(q, "upCreate", "idle")
    BY <1>1, <1>3, <1>4, <1>5 DEF Theirs
  <2> QED BY <1>5, <2>1, WorkerSendsTalk
<1>10. ClientOpen => cpc = "upAck" /\ cRest = Mine
  BY <1>5 DEF CommandOK
<1>11. /\ wpc' = "upCreate" /\ Theirs = Absent => Receives' /\ ~Ready'
       /\ wpc' = "upCreate" /\ Theirs # Absent => ~Receives' /\ Ready'
       /\ wpc' = "idle" => ~Receives' /\ Ready'
  BY <1>2, <1>8 DEF Ready, Receives
<1>12. (WorkerOpen => UploadOK)'
  <2>1. req = [op |-> "upload", args |-> <<req.args[1]>>]
    BY <1>5, <1>8 DEF IInv, TypeOK, ClientTypeOK, Commands
  <2> QED BY <1>2, <1>6, <1>8, <1>9, <2>1 DEF UploadOK, WorkerOpen
<1>13. UploadSide'
  BY <1>6, <1>10 DEF UploadSide
<1>14. WorkerSide'
  <2>1. Receives' => Uploading'
    <3>1. PICK file \in Content : file = Mine
      BY <1>8
    <3>2. PICK size \in Nat \ {0} : size = Len(file)
      BY <1>8, <3>1
    <3>3. wTodo' = size /\ wTodo' \in 1..size /\ Local[wFile'] = file
          /\ size - wTodo' = 0 /\ 0 \in 0..size
      BY <1>1, <1>5, <1>8, <3>1, <3>2
    <3>4. SubSeq(file, 1, 0) = <<>>
      BY DEF Content
    <3>5. ChunksOf(c2s', wR', wR', file, 0, 0)
      BY <1>5, <3>2, <3>3, ChunksNone
    <3>6. ClientOpen' => 0 = size - Len(cRest')
      BY <1>6, <1>10, <3>1, <3>2
    <3> QED BY <1>2, <1>5, <1>6, <3>2, <3>3, <3>4, <3>5, <3>6 DEF Uploading
  <2>2. WorkerView'
    BY <1>5, <1>6, <1>9, <1>11, <2>1 DEF WorkerView, Ready, Receives
  <2> QED BY <1>5, <1>6, <2>2 DEF WorkerSide
<1>15. ASSUME ClientOpen
       PROVE  InOrder(s2c', cR, Used(wS')) /\ ClientView' /\ (WorkerOpen' => Together')
  <2>1. q \in Packets /\ q.counter = wS /\ q.at = 0
    BY <1>4, <1>5, <1>15, AckType, AckValues
  <2>2. InOrder(s2c', cR, Used(wS')) /\ Used(wS') = wS + 1 /\ In(s2c', q)
    BY <1>5, <1>9, <1>15, <2>1, Sends
  <2>3. Answer(Ack(cR, code))'
    BY <1>4, <1>5, <1>6, <1>15, <2>2 DEF Answer
  <2>4. ClientView'
    BY <1>3, <1>6, <1>7, <1>10, <1>15, <2>3 DEF ClientView
  <2>5. ASSUME WorkerOpen' PROVE Together'
    <3>1. wpc' = "upCreate"
      BY <1>9, <1>15, <2>5
    <3>2. CASE Theirs = Absent
      <4>1. Receiving' /\ Answer(Ack(cR, 1))'
        BY <1>3, <1>6, <1>8, <1>11, <2>3, <3>1, <3>2 DEF Receiving
      <4> QED BY <1>6, <1>7, <1>10, <1>15, <4>1 DEF Together
    <3>3. CASE Theirs # Absent
      <4>1. Ready' /\ Answer(Ack(cR, 0))' /\ cS' = wR'
        BY <1>3, <1>5, <1>6, <1>11, <1>15, <2>3, <3>1, <3>3
      <4> QED BY <1>6, <1>7, <1>10, <1>15, <3>1, <4>1 DEF Together
    <3> QED BY <3>2, <3>3
  <2> QED BY <2>2, <2>4, <2>5
<1>16. ClientSide'
  BY <1>6, <1>15 DEF ClientSide
<1> QED BY <1>5, <1>12, <1>13, <1>14, <1>15, <1>16, WorkerParts DEF WorkerLives

LEMMA UploadCreateTalk == CInv /\ Orderly /\ UploadCreate => Conversation'
<1> SUFFICES ASSUME CInv, Orderly, UploadCreate PROVE Conversation'
  OBVIOUS
<1>1. /\ WorkerOpen /\ wpc = "upCreate"
      /\ \/ /\ folder[wFile] = Absent
            /\ folder' = [folder EXCEPT ![wFile] = <<>>]
            /\ wpc' = IF wTodo = 0 THEN "upAck" ELSE "upChunk"
         \/ /\ folder[wFile] # Absent
            /\ wpc' = "idle"
            /\ UNCHANGED folder
      /\ UNCHANGED <<c2s, s2c, clientVars, wS, wR, transfer, server>>
  BY DEF UploadCreate, FolderMissing, Orderly
<1>2. /\ IInv /\ CommandOK /\ ClientSide /\ WorkerSide /\ WorkerLives /\ UploadSide
      /\ UploadOK
      /\ ClientOpen => Together
  BY <1>1 DEF CInv, Conversation, WorkerLives
<1>3. /\ cpc' = cpc /\ cR' = cR /\ cS' = cS /\ req' = req /\ cRest' = cRest
      /\ wS' = wS /\ wR' = wR /\ c2s' = c2s /\ s2c' = s2c
      /\ wFile' = wFile /\ wTodo' = wTodo /\ wBuf' = wBuf /\ wError' = wError
      /\ wResult' = wResult /\ server' = server
      /\ downloads' = downloads /\ listed' = listed /\ shown' = shown
      /\ (ClientOpen' <=> ClientOpen)
  BY <1>1 DEF clientVars, clientData, transfer, ClientOpen
<1>4. wFile \in Names /\ wFile \in DOMAIN folder
  <2>1. wFile \in Names
    BY <1>1, <1>2 DEF UploadOK
  <2>2. DOMAIN folder = Names
    BY <1>2 DEF IInv, TypeOK, WorkerTypeOK
  <2> QED BY <2>1, <2>2
<1>5. Absent \notin Content /\ <<>> \in Content /\ <<>> # Absent
  <2>1. Absent \notin Content
    BY SessionAssumption DEF SessionAssumption
  <2>2. <<>> \in Content
    BY DEF Content
  <2> QED BY <2>1, <2>2
<1>6. ClientSide' /\ UploadSide'
  <2>1. \A n \in Names : folder[n] # Absent => folder'[n] # Absent
    <3>1. DOMAIN folder = Names
      BY <1>2 DEF IInv, TypeOK, WorkerTypeOK
    <3> QED BY <1>1, <1>4, <1>5, <3>1
  <2>2. wpc \in UploadStates
    BY <1>1 DEF UploadStates
  <2> QED BY <1>1, <2>1, <2>2, UploadStep
<1>7. CASE folder[wFile] = Absent
  <2>1. folder' = [folder EXCEPT ![wFile] = <<>>] /\ folder'[wFile] = <<>>
    BY <1>1, <1>4, <1>7
  <2>2. Receives /\ ~Ready
    BY <1>1, <1>7 DEF Receives, Ready
  <2>3. \/ ~ClientOpen /\ c2s = EmptyStream
        \/ InOrder(c2s, wR, Used(cS)) /\ Uploading
    BY <1>2, <2>2 DEF WorkerSide, WorkerView
  <2>4. req = [op |-> "upload", args |-> <<wFile>>] /\ wBuf = <<>>
    BY <1>1, <1>2, <1>7 DEF UploadOK
  <2>5. (WorkerOpen => UploadOK)'
    <3>1. Local[wFile] \in Content
      BY <1>4, SessionAssumption DEF SessionAssumption
    <3>2. IsPrefixOf(<<>>, <<>>) /\ IsPrefixOf(<<>>, Local[wFile])
      BY <3>1 DEF IsPrefixOf, Content
    <3>3. wpc' \in {"upChunk", "upAck"}
      BY <1>1, <1>7
    <3> QED BY <1>3, <1>4, <1>5, <2>1, <2>4, <3>2, <3>3 DEF UploadOK
  <2>6. CASE ~ClientOpen /\ c2s = EmptyStream
    BY <1>1, <1>3, <1>6, <2>5, <2>6, WorkerParts DEF WorkerSide
  <2>7. CASE InOrder(c2s, wR, Used(cS)) /\ Uploading
    <3>1. wTodo # 0
      BY <1>4, <2>7, SessionAssumption DEF Uploading, SessionAssumption, Content
    <3>2. wpc' = "upChunk" /\ Receives' /\ ~Ready'
      BY <1>1, <1>7, <3>1 DEF Receives, Ready
    <3>3. Uploading'
      BY <1>3, <2>7 DEF Uploading
    <3>4. WorkerSide'
      BY <1>3, <2>7, <3>2, <3>3 DEF WorkerSide, WorkerView
    <3>5. ClientOpen => Together'
      <4> SUFFICES ASSUME ClientOpen PROVE Together'
        OBVIOUS
      <4>2. wR \in Nat /\ cS \in Nat /\ Used(cS) = cS
        BY <1>2, CounterFacts
      <4>3. Receiving' <=> Receiving
        BY <1>3, <2>2, <3>2 DEF Receiving
      <4>4. Mine' = Mine /\ (NoAnswer' <=> NoAnswer)
        BY <1>3 DEF Mine, NoAnswer
      <4>5. \A code : Answer(Ack(cR, code)) => Answer(Ack(cR, code))'
        BY <1>3 DEF Answer
      <4>6. cpc \in ClientStates /\ cpc # "exited"
        BY <1>2 DEF IInv, TypeOK, ClientTypeOK, ClientOpen
      <4>7. /\ cpc \in {"upAck", "upSend", "upFinal"} /\ Receiving
            /\ cpc = "upAck" => cRest = Mine /\ Answer(Ack(cR, 1))
            /\ cpc = "upSend" => cRest # <<>> /\ IsEndOf(cRest, Mine)
            /\ cpc = "upFinal" => cRest = <<>> /\ NoAnswer
        BY <1>1, <1>2, <2>2, <4>6
           DEF Together, Pending, Quiet, Sending, Listed, ClientStates, ClientWaits
      <4> QED BY <1>3, <4>3, <4>4, <4>5, <4>7 DEF Together
    <3> QED BY <1>1, <1>6, <2>5, <3>4, <3>5, WorkerParts
  <2> QED BY <2>3, <2>6, <2>7
<1>8. CASE folder[wFile] # Absent
  <2>1. wpc' = "idle" /\ folder' = folder
    BY <1>1, <1>7, <1>8
  <2>2. Ready /\ ~Receives /\ Ready' /\ ~Receives'
    BY <1>1, <1>8, <2>1 DEF Ready, Receives
  <2>3. (WorkerOpen => UploadOK)'
    BY <2>1 DEF UploadOK
  <2>4. Theirs' = Theirs /\ Mine' = Mine /\ Stored' = Stored
    BY <1>3, <2>1 DEF Theirs, Mine, Stored
  <2>5. WorkerSide'
    <3>1. Requested' <=> Requested
      BY <1>3, <2>4 DEF Requested
    <3>2. WorkerView => WorkerView'
      BY <1>3, <2>1, <2>2, <3>1 DEF WorkerView
    <3> QED BY <1>2, <1>3, <3>2 DEF WorkerSide
  <2>6. ClientOpen => Together'
    <3> SUFFICES ASSUME ClientOpen PROVE Together'
      OBVIOUS
    <3>1. NoAnswer' <=> NoAnswer
      BY <1>3 DEF NoAnswer
    <3>2. Pending' <=> Pending
      BY <1>3, <2>2, <3>1 DEF Pending
    <3>3. \A code : Answer(Ack(cR, code)) => Answer(Ack(cR, code))'
      BY <1>3 DEF Answer
    <3>4. OutcomeOK => OutcomeOK'
      BY <1>1, <1>3, <2>1, <2>4 DEF OutcomeOK, ListedOK, CopyOf
    <3>5. cpc \in ClientStates /\ cpc # "exited"
      BY <1>2 DEF IInv, TypeOK, ClientTypeOK, ClientOpen
    <3>6. /\ cpc = "menu" => cS = wR /\ OutcomeOK
          /\ cpc = "upAck" =>
                /\ cRest = Mine
                /\ Pending \/ (Answer(Ack(cR, 0)) /\ cS = wR)
          /\ cpc \in {"dlAck", "lsAck", "rnAck", "rmAck", "loAck"} => Pending
          /\ cpc \notin {"upSend", "upFinal", "dlChunk", "dlClose", "lsData"}
      BY <1>1, <1>2, <2>2, <3>5
         DEF Together, Receiving, Quiet, Sending, Listed, ClientStates, ClientWaits
    <3> QED BY <1>3, <2>1, <2>2, <2>4, <3>1, <3>2, <3>3, <3>4, <3>6 DEF Together
  <2> QED BY <1>1, <1>6, <2>3, <2>5, <2>6, WorkerParts
<1> QED BY <1>7, <1>8

-----------------------------------------------------------------------------
(* The chunks of an upload.                                                *)

(* A packet that brings the next part of the user's file, of which left    *)
(* bytes are then still to come.                                           *)
Continues(p, file, size, left) ==
    LET n == ChunkPacketSize(Shorter(wTodo)) IN
    /\ file \in Content /\ size \in Nat
    /\ wTodo \in 1..size /\ left \in 0..wTodo - 1 /\ ~wError
    /\ wBuf = SubSeq(file, 1, size - wTodo)
    /\ wBuf \o p.data = SubSeq(file, 1, size - left)
    /\ wR < Used(cS) /\ InOrder(Drop(c2s, n), wR + 1, Used(cS))
    /\ \E y \in 0..size :
          /\ ChunksOf(Drop(c2s, n), wR + 1, Used(cS), file, size - left, y)
          /\ ClientOpen => y = size - Len(cRest)

LEMMA ChunkArrives ==
    ASSUME CInv, WorkerOpen, wpc = "upChunk",
           NEW p \in Whole(c2s, ChunkPacketSize(Shorter(wTodo)))
    PROVE  Continues(p, Local[wFile], Len(Local[wFile]), wTodo - Shorter(wTodo))
<1>0. PICK n : n = ChunkPacketSize(Shorter(wTodo))
  OBVIOUS
<1>1. IInv /\ UploadOK /\ WorkerLives
  BY DEF CInv, Conversation, WorkerLives
<1>2. PICK file \in Content : file = Local[wFile]
  BY <1>1, FileFacts
<1>3. PICK size \in Nat : size = Len(file)
  BY DEF Content
<1>4. /\ WorkerView /\ InOrder(c2s, wR, Used(cS)) /\ wR < Used(cS)
      /\ p \in c2s.pkts /\ p.counter = wR /\ p.size = n
      /\ InOrder(Drop(c2s, n), wR + 1, Used(cS))
      /\ \A q : In(c2s, q) /\ q.counter = wR => q = p
  BY <1>0, <1>1, WorkerReads DEF Whole
<1>5. c2s \in Streams /\ wR \in Nat /\ Used(cS) \in Nat
  BY <1>1, CounterFacts
<1>6. Uploading
  BY <1>4 DEF WorkerView, Receives
<1>7. PICK todo \in 1..size : todo = wTodo
  BY <1>2, <1>3, <1>6 DEF Uploading
<1>8. ~wError /\ wBuf = SubSeq(file, 1, size - todo)
  BY <1>2, <1>3, <1>6, <1>7 DEF Uploading
<1>9. PICK y \in 0..size :
         /\ ChunksOf(c2s, wR, Used(cS), file, size - todo, y)
         /\ ClientOpen => y = size - Len(cRest)
  BY <1>2, <1>3, <1>6, <1>7 DEF Uploading
<1>10. PICK left : left = todo - Shorter(todo)
  OBVIOUS
<1>11. /\ left \in 0..todo - 1
       /\ \E data \in Content :
             /\ In(c2s, Chunk(wR, data))
             /\ SubSeq(file, 1, size - todo) \o data = SubSeq(file, 1, size - left)
       /\ ChunksOf(Drop(c2s, n), wR + 1, Used(cS), file, size - left, y)
  <2>1. /\ c2s \in Streams /\ wR \in Nat /\ Used(cS) \in Nat /\ wR < Used(cS)
        /\ InOrder(c2s, wR, Used(cS))
    BY <1>4, <1>5
  <2>2. ChunksOf(c2s, wR, Used(cS), file, Len(file) - todo, y)
        /\ todo \in 1..Len(file) /\ y \in 0..Len(file)
    BY <1>3, <1>9
  <2>3. /\ todo - Shorter(todo) \in 0..todo - 1
        /\ \E data \in Content :
              /\ In(c2s, Chunk(wR, data)) /\ Len(data) = Shorter(todo)
              /\ SubSeq(file, 1, Len(file) - todo) \o data
                    = SubSeq(file, 1, Len(file) - (todo - Shorter(todo)))
        /\ \A q \in c2s.pkts : q.counter = wR =>
              ChunksOf(Drop(c2s, q.size), wR + 1, Used(cS), file,
                       Len(file) - (todo - Shorter(todo)), y)
    BY <2>1, <2>2, NextPiece
  <2> QED BY <1>3, <1>4, <1>10, <2>3
<1>12. PICK data : /\ In(c2s, Chunk(wR, data))
                   /\ SubSeq(file, 1, size - todo) \o data = SubSeq(file, 1, size - left)
  BY <1>11
<1>13. p.data = data
  BY <1>4, <1>12, ChunkValues
<1>14. Continues(p, file, size, left)
  BY <1>0, <1>4, <1>7, <1>8, <1>9, <1>11, <1>12, <1>13 DEF Continues
<1> QED BY <1>2, <1>3, <1>7, <1>10, <1>14

(* ... and so what the worker has of it stays a beginning of it.           *)
LEMMA ContinuesPrefix ==
    ASSUME NEW p, NEW file, NEW size, NEW left, size = Len(file), wBuf \in Content,
           Continues(p, file, size, left)
    PROVE  /\ wBuf \o p.data \in Content
           /\ IsPrefixOf(wBuf, wBuf \o p.data) /\ IsPrefixOf(wBuf \o p.data, file)
<1>1. /\ file \in Content /\ size \in Nat
      /\ wTodo \in 1..size /\ left \in 0..wTodo - 1
      /\ wBuf = SubSeq(file, 1, size - wTodo)
      /\ wBuf \o p.data = SubSeq(file, 1, size - left)
  BY DEF Continues
<1>2. PICK todo \in 1..size : todo = wTodo
  BY <1>1
<1>3. PICK k \in 0..size : k = size - left /\ size - todo \in 0..k
  <2>1. size \in Nat /\ todo \in 1..size /\ left \in 0..todo - 1
    BY <1>1, <1>2
  <2> QED BY ONLY <2>1
<1>4. PICK j \in 0..k : j = size - todo
  BY <1>3
<1>5. /\ SubSeq(file, 1, k) \in Content
      /\ IsPrefixOf(SubSeq(file, 1, k), file)
      /\ IsPrefixOf(SubSeq(file, 1, j), SubSeq(file, 1, k))
  BY <1>1, PrefixOfFile
<1> QED BY <1>1, <1>2, <1>3, <1>4, <1>5

LEMMA UploadChunkTalk == CInv /\ UploadChunk => Conversation'
<1> SUFFICES ASSUME CInv, UploadChunk PROVE Conversation'
  OBVIOUS
<1>1. PICK n : n = ChunkPacketSize(Shorter(wTodo))
  OBVIOUS
<1>2. PICK left : left = wTodo - Shorter(wTodo)
  OBVIOUS
<1>3. PICK p \in Whole(c2s, n) :
         /\ wR' = wR + 1
         /\ \/ /\ wBuf' = wBuf \o p.data
               /\ folder' \in {folder, [folder EXCEPT ![wFile] = wBuf']}
               /\ wTodo' = left
               /\ wpc' = IF left = 0 THEN "upAck" ELSE "upChunk"
               /\ UNCHANGED server
            \/ wpc' = "closed" /\ UNCHANGED folder
  BY <1>1, <1>2 DEF UploadChunk, UploadGoesOn
<1>4. /\ WorkerOpen /\ wpc = "upChunk" /\ c2s' = Drop(c2s, n)
      /\ UNCHANGED <<s2c, clientVars, wS, wFile, wRest, wNames, wError, wResult>>
  BY <1>1 DEF UploadChunk
<1>5. CASE wpc' = "closed" /\ UNCHANGED folder
  BY <1>4, <1>5, WorkerGone DEF WorkerOpen
<1>6. CASE /\ wBuf' = wBuf \o p.data
           /\ folder' \in {folder, [folder EXCEPT ![wFile] = wBuf']}
           /\ wTodo' = left
           /\ wpc' = IF left = 0 THEN "upAck" ELSE "upChunk"
           /\ UNCHANGED server
  <2>1. /\ IInv /\ CommandOK /\ UploadOK /\ WorkerLives
        /\ ClientOpen => Together
    BY <1>4 DEF CInv, Conversation, WorkerLives
  <2>2. /\ cpc' = cpc /\ cR' = cR /\ cS' = cS /\ req' = req /\ cRest' = cRest
        /\ wS' = wS /\ s2c' = s2c /\ wFile' = wFile /\ wError' = wError
        /\ (ClientOpen' <=> ClientOpen)
    BY <1>4 DEF clientVars, clientData, ClientOpen
  <2>3. PICK file : file = Local[wFile]
    OBVIOUS
  <2>4. PICK size : size = Len(file)
    OBVIOUS
  <2>5. /\ file \in Content /\ size \in Nat
        /\ wTodo \in 1..size /\ left \in 0..wTodo - 1 /\ ~wError
        /\ wBuf = SubSeq(file, 1, size - wTodo)
        /\ wBuf' = SubSeq(file, 1, size - left)
        /\ wR < Used(cS) /\ InOrder(c2s', wR', Used(cS))
        /\ wBuf' \in Content /\ IsPrefixOf(wBuf, wBuf') /\ IsPrefixOf(wBuf', file)
        /\ \E y \in 0..size :
              /\ ChunksOf(c2s', wR', Used(cS), file, size - left, y)
              /\ ClientOpen => y = size - Len(cRest)
    <3>1. p \in Whole(c2s, ChunkPacketSize(Shorter(wTodo)))
      BY <1>1
    <3>2. Continues(p, file, size, left)
      BY <1>2, <1>4, <2>3, <2>4, <3>1, ChunkArrives
    <3>3. wBuf \in Content
      BY <2>1 DEF IInv, TypeOK, WorkerTypeOK
    <3>4. /\ wBuf \o p.data \in Content
          /\ IsPrefixOf(wBuf, wBuf \o p.data) /\ IsPrefixOf(wBuf \o p.data, file)
      BY <2>4, <3>2, <3>3, ContinuesPrefix
    <3> QED BY <1>1, <1>3, <1>4, <1>6, <3>2, <3>4 DEF Continues
  <2>6. PICK y \in 0..size : /\ ChunksOf(c2s', wR', Used(cS), file, size - left, y)
                             /\ ClientOpen => y = size - Len(cRest)
    BY <2>5
  <2>7. wFile \in Names /\ folder \in [Names -> Content \cup {Absent}]
        /\ folder[wFile] # Absent /\ IsPrefixOf(folder[wFile], wBuf)
    BY <1>4, <2>1 DEF UploadOK, IInv, TypeOK, WorkerTypeOK
  <2>8. /\ wBuf \in Content /\ wBuf' \in Content
        /\ IsPrefixOf(wBuf, wBuf') /\ IsPrefixOf(wBuf', file)
    BY <2>1, <2>5 DEF IInv, TypeOK, WorkerTypeOK
  <2>9. Absent \notin Content
    BY SessionAssumption DEF SessionAssumption
  <2>10. folder'[wFile] \in Content /\ IsPrefixOf(folder'[wFile], wBuf')
    <3>1. folder[wFile] \in Content
      BY <2>7
    <3>2. CASE folder' = folder
      BY <2>7, <2>8, <3>1, <3>2, PrefixTransitive
    <3>3. CASE folder' = [folder EXCEPT ![wFile] = wBuf']
      BY <2>7, <2>8, <3>3, PrefixOfItself
    <3> QED BY <1>6, <3>2, <3>3
  <2>11. (WorkerOpen => UploadOK)'
    BY <1>6, <2>2, <2>3, <2>7, <2>8, <2>9, <2>10 DEF UploadOK
  <2>12. ClientSide' /\ UploadSide'
    <3>1. \A m \in Names : folder[m] # Absent => folder'[m] # Absent
      BY <1>6, <2>7, <2>9, <2>10
    <3>2. wpc \in UploadStates
      BY <1>4 DEF UploadStates
    <3> QED BY <1>4, <3>1, <3>2, UploadStep
  <2>13. Receives /\ ~Ready
    BY <1>4 DEF Receives, Ready
  <2>14. ClientOpen => /\ cpc \in {"upAck", "upSend", "upFinal"}
                       /\ wFile = req.args[1]
                       /\ cpc = "upAck" => cRest = Mine /\ Answer(Ack(cR, 1))
                       /\ cpc = "upSend" => cRest # <<>> /\ IsEndOf(cRest, Mine)
                       /\ cpc = "upFinal" => cRest = <<>> /\ NoAnswer
    <3>1. cpc \in ClientStates
      BY <2>1 DEF IInv, TypeOK, ClientTypeOK
    <3> QED BY <1>4, <2>1, <2>13, <3>1
            DEF Together, Pending, Receiving, Quiet, Sending, Listed,
                ClientStates, ClientWaits, ClientOpen
  <2>15. CASE left # 0
    <3>1. wpc' = "upChunk" /\ Receives' /\ ~Ready'
      BY <1>6, <2>15 DEF Receives, Ready
    <3>2. Uploading'
      <4>1. wTodo' \in 1..size /\ wTodo' = left
        <5>1. PICK todo \in 1..size : todo = wTodo /\ left \in 0..todo - 1
          BY <2>5
        <5> QED BY <1>6, <2>5, <2>15, <5>1
      <4>2. Local[wFile'] = file /\ ~wError' /\ wBuf' = SubSeq(file, 1, size - wTodo')
        BY <2>2, <2>3, <2>5, <4>1
      <4>3. ChunksOf(c2s', wR', Used(cS'), file, size - wTodo', y)
            /\ (ClientOpen' => y = size - Len(cRest'))
        BY <2>2, <2>6, <4>1
      <4> QED BY <2>4, <2>6, <4>1, <4>2, <4>3 DEF Uploading
    <3>3. WorkerSide'
      BY <2>2, <2>5, <3>1, <3>2 DEF WorkerSide, WorkerView
    <3>4. ClientOpen => Together'
      <4>1. Receiving' <=> wFile = req.args[1]
        BY <2>2, <3>1 DEF Receiving
      <4>2. Mine' = Mine /\ (NoAnswer' <=> NoAnswer)
            /\ \A code : Answer(Ack(cR, code)) => Answer(Ack(cR, code))'
        BY <2>2 DEF Mine, NoAnswer, Answer
      <4> QED BY <2>2, <2>14, <4>1, <4>2 DEF Together
    <3> QED BY <1>4, <2>11, <2>12, <3>3, <3>4, WorkerParts
  <2>16. CASE left = 0
    <3>1. wpc' = "upAck" /\ ~Receives' /\ ~Ready'
      BY <1>6, <2>16 DEF Receives, Ready
    <3>2. wR \in Nat /\ Used(cS) \in Nat /\ wR' \in Nat /\ wR' <= Used(cS)
      <4>1. wR \in Nat /\ Used(cS) \in Nat
        BY <2>1, CounterFacts
      <4> QED BY <1>3, <2>5, <4>1
    <3>3. ChunksOf(c2s', wR', Used(cS), file, Len(file), y)
      BY <2>4, <2>5, <2>6, <2>16
    <3>4. Used(cS) = wR'
      BY <2>5, <3>2, <3>3, ChunksDone
    <3>5. Len(file) = y
      BY <3>2, <3>3, <3>4, ChunksEmpty
    <3>6. wBuf' = file
      BY <2>4, <2>5, <2>16 DEF Content
    <3>7. WorkerSide'
      BY <2>2, <2>3, <2>5, <3>1, <3>4, <3>6 DEF WorkerSide, WorkerView
    <3>8. ClientOpen => Together'
      <4> SUFFICES ASSUME ClientOpen PROVE Together'
        OBVIOUS
      <4>1. Len(cRest) = 0 /\ cRest = <<>>
        <5>1. cRest \in Seq(Byte)
          BY <2>1 DEF IInv, TypeOK, ClientTypeOK, Content
        <5>2. Len(cRest) \in Nat /\ Len(cRest) = 0
          BY <2>4, <2>5, <2>6, <3>5, <5>1
        <5> QED BY <5>1, <5>2
      <4>2. cpc = "upAck" => Mine # <<>>
        BY <2>1, NameFacts DEF CommandOK
      <4>3. cpc = "upFinal" /\ wFile = req.args[1] /\ NoAnswer
        BY <2>14, <4>1, <4>2
      <4>4. NoAnswer'
        BY <2>2, <4>3 DEF NoAnswer
      <4> QED BY <2>2, <3>1, <4>1, <4>3, <4>4 DEF Together
    <3> QED BY <1>4, <2>11, <2>12, <3>7, <3>8, WorkerParts
  <2> QED BY <2>15, <2>16
<1> QED BY <1>3, <1>5, <1>6

LEMMA UploadUnreadableTalk == CInv /\ UploadUnreadable => Conversation'
<1> SUFFICES ASSUME CInv, UploadUnreadable PROVE Conversation'
  OBVIOUS
<1>1. PICK n : n = ChunkPacketSize(Shorter(wTodo))
  OBVIOUS
<1>2. /\ WorkerOpen /\ wpc = "upChunk" /\ Misread(c2s, n, ClientOpen, c2s')
      /\ wpc' \in {"upChunk", "upAck", "upClose"}
      /\ UNCHANGED <<s2c, clientVars, wS, wFile, wBuf, folder, server>>
  BY <1>1 DEF UploadUnreadable, UploadGoesOn, UploadLeaves
<1>3. /\ IInv /\ UploadOK /\ WorkerSide /\ WorkerLives
  BY <1>2 DEF CInv, Conversation, WorkerLives
<1>4. /\ c2s \in Streams /\ wR \in Nat /\ Used(cS) \in Nat /\ n \in Nat \ {0}
  BY <1>1, <1>3, CounterFacts, ChunkAwaited
<1>5. ~ClientOpen /\ c2s' = EmptyStream
  <2>1. CASE ~ClientOpen /\ c2s = EmptyStream
    BY <1>2, <1>4, <2>1 DEF Misread, Readable, EmptyStream
  <2>2. CASE InOrder(c2s, wR, Used(cS)) /\ WorkerView
    <3>1. wR < Used(cS) => Whole(c2s, n) # {}
      <4> SUFFICES ASSUME wR < Used(cS) PROVE Whole(c2s, n) # {}
        OBVIOUS
      <4>1. PICK p : In(c2s, p) /\ p.counter = wR /\ p.size = n
        BY <1>1, <1>2, <1>3, <2>2, WorkerExpects
      <4>2. p \in Whole(c2s, p.size)
        BY <1>4, <2>2, <4>1, FirstWhole
      <4> QED BY <4>1, <4>2
    <3>2. ClientOpen \in BOOLEAN
      BY DEF ClientOpen
    <3> QED BY <1>2, <1>4, <2>2, <3>1, <3>2, OrderMisread
  <2> QED BY <1>3, <2>1, <2>2 DEF WorkerSide
<1>6. (WorkerOpen => UploadOK)'
  BY <1>2, <1>3 DEF UploadOK
<1>7. ClientSide' /\ UploadSide'
  <2>1. wpc \in UploadStates /\ \A m \in Names : folder[m] # Absent => folder'[m] # Absent
    BY <1>2 DEF UploadStates
  <2> QED BY <1>2, <2>1, UploadStep
<1>8. WorkerSide'
  BY <1>2, <1>5 DEF WorkerSide, ClientOpen, clientVars
<1> QED BY <1>2, <1>5, <1>6, <1>7, <1>8, WorkerParts

LEMMA UploadRejectedTalk == CInv /\ UploadRejected => Conversation'
<1> SUFFICES ASSUME CInv, UploadRejected PROVE Conversation'
  OBVIOUS
<1>1. /\ WorkerOpen /\ wpc = "upChunk" /\ wpc' = "upClose" /\ wResult' = -1
      /\ UNCHANGED <<s2c, clientVars, wS, wFile, wBuf, folder>>
  BY DEF UploadRejected, UploadLeaves
<1>2. UploadOK
  BY <1>1 DEF CInv, Conversation
<1>3. (WorkerOpen => UploadOK)'
  BY <1>1, <1>2 DEF UploadOK
<1>4. ClientSide' /\ UploadSide'
  <2>1. wpc \in UploadStates /\ \A m \in Names : folder[m] # Absent => folder'[m] # Absent
    BY <1>1 DEF UploadStates
  <2> QED BY <1>1, <2>1, UploadStep
<1>5. ~WorkerLives'
  BY <1>1 DEF WorkerLives
<1> QED BY <1>1, <1>3, <1>4, <1>5, WorkerParts DEF WorkerSide

LEMMA UploadVerdictTalk == CInv /\ Orderly /\ UploadVerdict => Conversation'
<1> SUFFICES ASSUME CInv, Orderly, UploadVerdict PROVE Conversation'
  OBVIOUS
<1>1. PICK q : q = Ack(wS, IF wError THEN 0 ELSE 1)
  OBVIOUS
<1>2. /\ WorkerOpen /\ wpc = "upAck" /\ wpc' = "upClose"
      /\ \/ /\ s2c' \in AfterSend(s2c, q, ClientOpen)
            /\ wS' = Incremented(wS)
            /\ wResult' = IF wS = MaxCounter THEN -1 ELSE 1
         \/ ~ClientOpen
      /\ UNCHANGED <<c2s, clientVars, wR, wFile, wBuf, folder, server>>
  BY <1>1 DEF UploadVerdict, UploadLeaves
<1>3. /\ IInv /\ UploadOK /\ WorkerSide /\ WorkerLives /\ ClientSide
      /\ ClientOpen => Together
  BY <1>2 DEF CInv, Conversation, WorkerLives
<1>4. /\ cpc' = cpc /\ cR' = cR /\ cS' = cS /\ req' = req /\ cRest' = cRest
      /\ c2s' = c2s /\ wR' = wR /\ wFile' = wFile /\ wBuf' = wBuf /\ folder' = folder
      /\ (ClientOpen' <=> ClientOpen)
  BY <1>2 DEF clientVars, clientData, ClientOpen
<1>5. (WorkerOpen => UploadOK)'
  BY <1>2, <1>3, <1>4 DEF UploadOK
<1>6. \/ ~ClientOpen /\ c2s = EmptyStream
      \/ /\ InOrder(c2s, wR, Used(cS)) /\ Used(cS) = wR
         /\ ~wError /\ wBuf = Local[wFile]
  BY <1>2, <1>3 DEF WorkerSide, WorkerView, Ready, Receives
<1>7. WorkerSide'
  BY <1>2, <1>4, <1>6 DEF WorkerSide, WorkerView, Ready, Receives
<1>8. ASSUME ClientOpen
      PROVE  /\ cpc = "upFinal" /\ InOrder(s2c', cR, Used(wS')) /\ ClientView'
             /\ WorkerLives' => Together'
  <2>1. /\ s2c \in Streams /\ cR \in Nat /\ Used(cS) = cS /\ cS \in Nat /\ wR \in Nat
        /\ wS \in 0..MaxCounter /\ Used(wS) = wS
    BY <1>3, <1>8, CounterFacts
  <2>2. cpc = "upFinal" /\ cRest = <<>> /\ NoAnswer /\ wFile = req.args[1]
    <3>1. cpc \in ClientStates /\ cpc # "exited"
      BY <1>3, <1>8 DEF IInv, TypeOK, ClientTypeOK, ClientOpen
    <3>2. ~Ready /\ ~Receives
      BY <1>2 DEF Ready, Receives
    <3> QED BY <1>2, <1>3, <1>8, <3>1, <3>2
            DEF Together, Receiving, Pending, Quiet, Sending, Listed,
                ClientStates, ClientWaits
  <2>3. InOrder(s2c, cR, Used(wS))
    BY <1>2, <1>3, <1>8 DEF ClientSide
  <2>4. q = Ack(wS, 1) /\ wS = cR /\ wBuf = Mine /\ cS = wR
    BY <1>1, <1>6, <1>8, <2>1, <2>2 DEF NoAnswer, Mine
  <2>5. q \in Packets /\ q.counter = wS /\ q.at = 0
    BY <2>1, <2>4, AckType, AckValues
  <2>6. InOrder(s2c', cR, Used(wS')) /\ Used(wS') = wS + 1 /\ In(s2c', q)
    BY <1>2, <1>3, <1>8, <2>3, <2>5, Sends
  <2>7. Answer(Ack(cR, 1))' /\ ~NoAnswer'
    BY <1>4, <2>1, <2>4, <2>6 DEF Answer, NoAnswer
  <2>8. ClientView'
    BY <1>4, <2>2, <2>7 DEF ClientView
  <2>9. WorkerLives' => Together'
    <3>1. WorkerLives' => wResult' = 1
      BY <1>2, <1>8 DEF WorkerLives
    <3>2. Mine' = Mine
      BY <1>4 DEF Mine
    <3> QED BY <1>2, <1>4, <2>2, <2>4, <2>7, <3>1, <3>2 DEF Together
  <2> QED BY <2>2, <2>6, <2>8, <2>9
<1>9. ClientSide' /\ UploadSide'
  BY <1>4, <1>8 DEF ClientSide, UploadSide
<1> QED BY <1>2, <1>5, <1>7, <1>8, <1>9, WorkerParts

LEMMA UploadCloseTalk == CInv /\ UploadClose => Conversation'
<1> SUFFICES ASSUME CInv, UploadClose PROVE Conversation'
  OBVIOUS
<1>1. /\ WorkerOpen /\ wpc = "upClose"
      /\ \/ folder' = [folder EXCEPT ![wFile] = wBuf]
         \/ "diskFull" \in Faults /\ folder' = folder
      /\ wpc' = IF wResult = -1 THEN "closed" ELSE "idle"
      /\ UNCHANGED <<c2s, s2c, clientVars, wS, wR>>
  BY DEF UploadClose, WorkerReturns
<1>2. /\ IInv /\ UploadOK /\ WorkerSide
      /\ WorkerLives => wResult # -1 /\ (ClientOpen => Together)
      /\ wResult # -1 => WorkerLives
  BY <1>1 DEF CInv, Conversation, WorkerLives
<1>3. /\ cpc' = cpc /\ cR' = cR /\ cS' = cS /\ req' = req /\ cRest' = cRest
      /\ c2s' = c2s /\ wR' = wR /\ wS' = wS /\ s2c' = s2c
      /\ downloads' = downloads /\ listed' = listed /\ shown' = shown
      /\ (ClientOpen' <=> ClientOpen)
  BY <1>1 DEF clientVars, clientData, ClientOpen
<1>4. wFile \in Names /\ wBuf \in Content /\ DOMAIN folder = Names /\ Absent \notin Content
  BY <1>1, <1>2, SessionAssumption
     DEF UploadOK, IInv, TypeOK, WorkerTypeOK, SessionAssumption
<1>5. wBuf = Local[wFile] => CopyOf(folder'[wFile], Local[wFile], "diskFull")
  <2>1. /\ folder[wFile] # Absent /\ IsPrefixOf(folder[wFile], wBuf)
        /\ wBuf # Absent
    BY <1>1, <1>2, <1>4 DEF UploadOK
  <2> QED BY <1>1, <1>4, <2>1 DEF CopyOf
<1>6. (WorkerOpen => UploadOK)'
  BY <1>1 DEF UploadOK
<1>7. ClientSide' /\ UploadSide'
  <2>1. \A m \in Names : folder[m] # Absent => folder'[m] # Absent
    BY <1>1, <1>4
  <2>2. wpc \in UploadStates
    BY <1>1 DEF UploadStates
  <2> QED BY <1>1, <2>1, <2>2, UploadStep
<1>8. CASE wResult = -1
  <2>1. ~WorkerLives' /\ ~WorkerOpen'
    BY <1>1, <1>8 DEF WorkerLives, WorkerOpen
  <2> QED BY <1>1, <1>6, <1>7, <2>1, WorkerParts DEF WorkerSide
<1>9. CASE wResult # -1
  <2>1. wpc' = "idle" /\ Ready' /\ ~Receives' /\ ~Receives
    BY <1>1, <1>9 DEF Ready, Receives
  <2>2. Mine' = Mine /\ (Requested' <=> Requested)
    BY <1>3 DEF Mine, Requested
  <2>3. WorkerSide'
    <3>1. WorkerView => WorkerView'
      BY <1>3, <2>1, <2>2 DEF WorkerView
    <3> QED BY <1>2, <1>3, <1>9, <3>1 DEF WorkerSide
  <2>4. ClientOpen => Together'
    <3> SUFFICES ASSUME ClientOpen PROVE Together'
      OBVIOUS
    <3>1. NoAnswer' <=> NoAnswer
      BY <1>3 DEF NoAnswer
    <3>2. Pending => Pending'
      BY <1>3, <2>1, <3>1 DEF Pending
    <3>3. cpc \in ClientStates /\ cpc # "exited"
      BY <1>2 DEF IInv, TypeOK, ClientTypeOK, ClientOpen
    <3>4. /\ cpc = "menu" => cS = wR /\ OutcomeOK
          /\ cpc = "upAck" => cRest = Mine /\ Pending
          /\ cpc = "upFinal" => /\ cRest = <<>> /\ ~NoAnswer /\ cS = wR
                                /\ wFile = req.args[1] /\ wBuf = Mine
          /\ cpc \in {"dlAck", "lsAck", "rnAck", "rmAck", "loAck"} => Pending
          /\ cpc \notin {"upSend", "dlChunk", "lsData"}
      BY <1>1, <1>2, <1>9, <2>1, <3>3
         DEF Together, Receiving, Quiet, Sending, Listed, ClientStates, ClientWaits
    <3>5. cpc = "menu" => OutcomeOK'
      BY <1>1, <1>3, <1>5, <2>1, <2>2, <3>4 DEF OutcomeOK, Theirs, Mine
    <3>6. cpc = "upFinal" => Quiet' /\ CopyOf(Theirs', Mine, "diskFull")
      BY <1>3, <1>5, <2>1, <3>4 DEF Quiet, Theirs, Mine
    <3>7. cpc # "dlClose"
      BY <1>1, <1>2, <1>9 DEF Together, Quiet
    <3> QED BY <1>3, <2>1, <2>2, <3>1, <3>2, <3>4, <3>5, <3>6, <3>7 DEF Together
  <2> QED BY <1>1, <1>6, <1>7, <2>3, <2>4, WorkerParts
<1> QED BY <1>8, <1>9

-----------------------------------------------------------------------------
(* All steps.                                                              *)

LEMMA InitTalk == Init => Conversation
<1> SUFFICES ASSUME Init PROVE Conversation
  OBVIOUS
<1>1. IInv
  BY InitInv
<1>2. /\ c2s = EmptyStream /\ s2c = EmptyStream /\ cpc = "menu" /\ wpc = "idle"
      /\ cS = 0 /\ cR = 0 /\ wS = 0 /\ wR = 0 /\ shown = "none"
      /\ req = [op |-> "list", args |-> <<>>] /\ server = "up"
  BY DEF Init
<1>3. Used(0) = 0
  BY DEF Used
<1>4. InOrder(EmptyStream, 0, 0)
  BY DEF InOrder, EmptyStream
<1>5. CommandOK
  BY <1>2 DEF CommandOK
<1>6. UploadSide /\ UploadOK
  BY <1>2 DEF UploadSide, UploadOK
<1>7. ClientSide
  BY <1>2, <1>3, <1>4 DEF ClientSide, ClientView, NoAnswer
<1>8. WorkerSide
  BY <1>2, <1>3, <1>4 DEF WorkerSide, WorkerView, Ready, Receives
<1>9. Together
  BY <1>2 DEF Together, Ready, OutcomeOK
<1> QED BY <1>5, <1>6, <1>7, <1>8, <1>9 DEF Conversation

LEMMA StutterTalk == Conversation /\ UNCHANGED vars => Conversation'
<1> SUFFICES ASSUME Conversation, UNCHANGED vars PROVE Conversation'
  OBVIOUS
<1>1. /\ c2s' = c2s /\ s2c' = s2c
      /\ cpc' = cpc /\ cS' = cS /\ cR' = cR /\ req' = req /\ cRest' = cRest
      /\ cTodo' = cTodo /\ cError' = cError /\ downloads' = downloads
      /\ cBuf' = cBuf /\ shown' = shown /\ listed' = listed
      /\ wpc' = wpc /\ wS' = wS /\ wR' = wR /\ wFile' = wFile /\ wTodo' = wTodo
      /\ wRest' = wRest /\ wNames' = wNames /\ wBuf' = wBuf /\ wError' = wError
      /\ wResult' = wResult /\ folder' = folder /\ server' = server
  BY DEF vars, clientVars, clientData, workerVars, transfer
<1>2. /\ Mine' = Mine /\ Theirs' = Theirs /\ Stored' = Stored /\ Listable' = Listable
      /\ (NoAnswer' <=> NoAnswer) /\ (ClientOpen' <=> ClientOpen)
      /\ (WorkerOpen' <=> WorkerOpen) /\ (WorkerLives' <=> WorkerLives)
      /\ (Ready' <=> Ready) /\ (Receives' <=> Receives)
  BY <1>1 DEF Mine, Theirs, Stored, Listable, NoAnswer, ClientOpen, WorkerOpen,
              WorkerLives, Ready, Receives
<1>3. CommandOK'
  BY <1>1 DEF Conversation, CommandOK
<1>4. UploadSide'
  BY <1>1, <1>2 DEF Conversation, UploadSide
<1>5. (WorkerOpen => UploadOK)'
  BY <1>1, <1>2 DEF Conversation, UploadOK
<1>6. ClientSide'
  <2>1. FileFollows(cR + 1, 0) => FileFollows(cR + 1, 0)'
    BY <1>1, <1>2 DEF FileFollows
  <2>2. FileFollows(cR, Len(Theirs) - cTodo) => FileFollows(cR, Len(Theirs) - cTodo)'
    BY <1>1, <1>2 DEF FileFollows
  <2>3. ClientView => ClientView'
    BY <1>1, <1>2, <2>1, <2>2 DEF ClientView, Answer, Fetched
  <2> QED BY <1>1, <1>2, <2>3 DEF Conversation, ClientSide
<1>7. WorkerSide'
  <2>1. Requested' <=> Requested
    BY <1>1, <1>2 DEF Requested
  <2>2. Uploading => Uploading'
    BY <1>1, <1>2 DEF Uploading
  <2>3. WorkerView => WorkerView'
    BY <1>1, <1>2, <2>1, <2>2 DEF WorkerView
  <2> QED BY <1>1, <1>2, <2>3 DEF Conversation, WorkerSide
<1>8. Together => Together'
  <2>1. /\ Pending' <=> Pending
        /\ Quiet' <=> Quiet
        /\ Sending' <=> Sending
        /\ Listed' <=> Listed
        /\ Receiving' <=> Receiving
        /\ OutcomeOK' <=> OutcomeOK
        /\ \A code : Answer(Ack(cR, code)) => Answer(Ack(cR, code))'
        /\ Fetched(Theirs) => Fetched(Theirs)'
    BY <1>1, <1>2 DEF Pending, Quiet, Sending, Listed, Receiving, OutcomeOK, ListedOK,
                      Answer, Fetched
  <2> QED BY <1>1, <1>2, <2>1 DEF Together
<1> QED BY <1>2, <1>3, <1>4, <1>5, <1>6, <1>7, <1>8 DEF Conversation

LEMMA StepTalk == CInv /\ Orderly /\ [Next]_vars => CInv'
<1> SUFFICES ASSUME CInv, Orderly, [Next]_vars PROVE CInv'
  OBVIOUS
<1>1. IInv'
  BY StepInv DEF CInv
<1>2. CASE User
  BY <1>1, <1>2, UserTalk DEF CInv
<1>3. CASE ClientStep
  <2>1. Conversation'
    BY <1>3, SendChunkTalk, ReplyUnreadableTalk, ReplyRejectedTalk,
       ReceiveUploadAckTalk, ReceiveUploadVerdictTalk, ReceiveDownloadAckTalk,
       ReceiveChunkTalk, DownloadCloseTalk, ReceiveListAckTalk, ReceiveListingTalk,
       ReceiveRenameAckTalk, ReceiveDeleteAckTalk, ReceiveLogoutAckTalk
       DEF ClientStep
  <2> QED BY <1>1, <2>1 DEF CInv
<1>4. CASE WorkerStep
  <2>1. Conversation'
    BY <1>4, RequestRefusedTalk, UploadRequestTalk, UploadCreateTalk, UploadChunkTalk,
       UploadUnreadableTalk, UploadRejectedTalk, UploadVerdictTalk, UploadCloseTalk,
       DownloadRequestTalk, DownloadChunkTalk, ListRequestTalk, SendListingTalk,
       RenameRequestTalk, DeleteRequestTalk, LogoutRequestTalk
       DEF WorkerStep
  <2> QED BY <1>1, <2>1 DEF CInv
<1>5. CASE ClientKilled \/ ServerKilled
  BY <1>1, <1>5, ClientKilledTalk, ServerKilledTalk DEF CInv
<1>6. CASE UNCHANGED vars
  BY <1>1, <1>6, StutterTalk DEF CInv
<1> QED BY <1>2, <1>3, <1>4, <1>5, <1>6 DEF Next

LEMMA SpecTalk == ASSUME Orderly PROVE Spec => []CInv
<1>1. Init => CInv
  BY InitInv, InitTalk DEF CInv
<1>2. CInv /\ [Next]_vars => CInv'
  BY StepTalk
<1> QED BY <1>1, <1>2, PTL DEF Spec

-----------------------------------------------------------------------------
(* What follows.  The hypothesis on Faults excludes what drives the two     *)
(* apart; every other fault may happen at any moment.                      *)

LEMMA RestTalk ==
    ASSUME CInv, AtRest
    PROVE  /\ WorkerOpen /\ ClientOpen /\ WorkerLives /\ Together
           /\ InOrder(s2c, cR, Used(wS)) /\ NoAnswer
           /\ InOrder(c2s, wR, Used(cS))
<1>1. WorkerOpen /\ ClientOpen /\ WorkerLives
  BY DEF AtRest, WorkerOpen, ClientOpen, WorkerLives
<1> QED BY <1>1 DEF AtRest, CInv, Conversation, ClientSide, ClientView, WorkerSide

(* Whatever commands came before, however large the files, and whatever    *)
(* was refused, invalid or cut short by the end of a process: when the     *)
(* menu is back and the worker in its command loop, neither stream holds a *)
(* byte and each side expects the counter that the other sends next.       *)
THEOREM SidesAreInStep == ASSUME Orderly PROVE Spec => []InStep
<1>1. CInv => InStep
  <2> SUFFICES ASSUME CInv, AtRest
               PROVE  /\ c2s = EmptyStream /\ s2c = EmptyStream
                      /\ cS = wR /\ wS = cR
    BY DEF InStep, Settled
  <2>1. /\ ClientOpen /\ WorkerLives /\ Together
        /\ InOrder(s2c, cR, Used(wS)) /\ NoAnswer
        /\ InOrder(c2s, wR, Used(cS))
    BY RestTalk
  <2>2. /\ c2s \in Streams /\ s2c \in Streams /\ cR \in Nat /\ wR \in Nat
        /\ Used(cS) = cS /\ Used(wS) = wS
    BY <2>1, CounterFacts DEF CInv
  <2>3. cS = wR /\ wS = cR
    BY <2>1, <2>2 DEF Together, AtRest, NoAnswer
  <2> QED BY <2>1, <2>2, <2>3, OrderEmpty
<1> QED BY <1>1, SpecTalk, PTL

(* The counter check of either side never fires about the other one: every *)
(* packet that a recv of the right size returns has the counter that the   *)
(* reader expects, for any files, sizes, names and maximum of the counters *)
(* (Client.cpp and worker.cpp compare it after every receiveData).         *)
THEOREM NoFalseAlarm == ASSUME Orderly PROVE Spec => []NoFalseReplay
<1>1. CInv => NoFalseReplay
  <2> SUFFICES ASSUME CInv PROVE NoFalseReplay
    OBVIOUS
  <2>1. cpc \in ClientWaits => \A p \in Whole(s2c, Awaited) : p.counter = cR
    BY ClientReads
  <2>2. ASSUME WorkerOpen, wpc \in {"idle", "upChunk"}, NEW n
        PROVE  \A p \in Whole(c2s, n) : p.counter = wR
    BY <2>2, WorkerReads DEF WorkerLives
  <2> QED BY <2>1, <2>2 DEF NoFalseReplay
<1> QED BY <1>1, SpecTalk, PTL

(* Client and worker never both wait in recv for what only the other could *)
(* send: whenever the client waits and nothing is in flight to it, what    *)
(* the worker reads next is there or the worker is about to send.          *)
THEOREM NoDeadlock == ASSUME Orderly PROVE Spec => []NoMutualWait
<1>1. CInv => NoMutualWait
  <2> SUFFICES ASSUME CInv, cpc \in ClientWaits, ~Readable(s2c, Awaited), WorkerOpen,
                      NEW n,
                      \/ wpc = "idle" /\ n = RequestSize
                      \/ wpc = "upChunk" /\ n = ChunkPacketSize(Shorter(wTodo))
               PROVE  Readable(c2s, n)
    BY DEF NoMutualWait
  <2>1. /\ IInv /\ CommandOK /\ ClientOpen /\ WorkerLives /\ Together /\ UploadOK
        /\ InOrder(s2c, cR, Used(wS)) /\ ClientView
        /\ InOrder(c2s, wR, Used(cS)) /\ WorkerView
    BY DEF CInv, Conversation, ClientOpen, WorkerLives, ClientWaits, ClientSide, WorkerSide
  <2>2. /\ c2s \in Streams /\ s2c \in Streams /\ cR \in Nat /\ wR \in Nat
        /\ Used(cS) = cS /\ cS \in Nat /\ Used(wS) = wS /\ wS \in Nat
    BY <2>1, CounterFacts
  <2>3. NoAnswer
    <3>1. ASSUME cR < Used(wS) PROVE FALSE
      <4>1. PICK p : In(s2c, p) /\ p.counter = cR /\ p.size = Awaited
        BY <2>1, <3>1, ClientExpects
      <4>2. p \in Whole(s2c, p.size)
        BY <2>1, <2>2, <4>1, FirstWhole
      <4> QED BY <4>1, <4>2 DEF Whole
    <3>2. cR <= Used(wS)
      BY <2>1 DEF InOrder
    <3> QED BY <2>2, <3>1, <3>2 DEF NoAnswer
  <2>4. wR <= cS
    BY <2>1, <2>2 DEF InOrder
  <2>5. wR # cS
    <3>1. CASE cpc \in {"upAck", "dlAck", "lsAck", "rnAck", "rmAck", "loAck"}
      <4>1. cpc = "upAck" => ~Answer(Ack(cR, 0)) /\ ~Answer(Ack(cR, 1))
        BY <2>2, <2>3 DEF Answer, NoAnswer
      <4>2. cpc = "lsAck" => Used(wS) # cR + 1 /\ Used(wS) # cR + 2
        BY <2>2, <2>3 DEF NoAnswer
      <4>3. Pending
        BY <2>1, <2>3, <3>1, <4>1, <4>2 DEF Together
      <4> QED BY <2>2, <4>3 DEF Pending
    <3>2. CASE cpc = "upFinal"
      <4>1. wpc = "upChunk" /\ cRest = <<>>
        BY <2>1, <2>3, <3>2 DEF Together, Receiving, Receives, Quiet
      <4>2. PICK file \in Content : file = Local[wFile]
        BY <2>1, <4>1, FileFacts
      <4>3. PICK size \in Nat : size = Len(file)
        BY DEF Content
      <4>4. Uploading
        BY <2>1, <4>1 DEF WorkerView, Receives
      <4>5. PICK todo \in 1..size : todo = wTodo
        BY <4>2, <4>3, <4>4 DEF Uploading
      <4>6. PICK y \in 0..size : /\ ChunksOf(c2s, wR, cS, file, size - todo, y)
                                 /\ y = size - Len(cRest)
        BY <2>1, <2>2, <4>2, <4>3, <4>4, <4>5 DEF Uploading
      <4>7. y # size - todo
        BY <4>1, <4>6
      <4> QED BY <2>2, <4>6, <4>7, ChunksEmpty
    <3>3. CASE cpc = "dlChunk"
      <4>1. wpc = "idle"
        BY <2>1, <3>3 DEF Together, Quiet, Sending
      <4>2. PICK file \in Content : file = Theirs
        <5>1. req.op = "download"
          BY <2>1, <3>3 DEF CommandOK
        <5> QED BY <2>1, <3>3, <5>1, NameFacts DEF ClientView
      <4>3. PICK size \in Nat : size = Len(file)
        BY DEF Content
      <4>4. PICK todo \in 1..size : todo = cTodo
        BY <2>1, <3>3, <4>2, <4>3 DEF ClientView
      <4>5. ChunksOf(s2c, cR, cR, file, size - todo, size)
        BY <2>1, <2>3, <3>3, <4>1, <4>2, <4>3, <4>4 DEF ClientView, FileFollows, NoAnswer
      <4>6. size - todo = size
        BY <2>2, <4>5, ChunksEmpty
      <4> QED BY <4>6
    <3>4. CASE cpc = "lsData"
      BY <2>1, <2>3, <3>4 DEF Together, Listed
    <3> QED BY <3>1, <3>2, <3>3, <3>4 DEF ClientWaits
  <2>6. PICK p : In(c2s, p) /\ p.counter = wR /\ p.size = n
    <3>1. wR < Used(cS)
      BY <2>2, <2>4, <2>5
    <3> QED BY <2>1, <3>1, WorkerExpects
  <2>7. p \in Whole(c2s, p.size)
    BY <2>1, <2>2, <2>6, FirstWhole
  <2> QED BY <2>6, <2>7 DEF Whole
<1> QED BY <1>1, SpecTalk, PTL

(* What the last command printed is so when both sides are at rest: an     *)
(* uploaded or downloaded file of any length is the same on both sides     *)
(* byte for byte, or a beginning of it where the disk was full, a listing  *)
(* names what is there but for one name that was garbled, or nothing where *)
(* the folder could not be read, and every refusal has its reason.         *)
THEOREM OutcomesAreTrue == ASSUME Orderly PROVE Spec => []OutcomesTrue
<1>1. CInv => OutcomesTrue
  <2> SUFFICES ASSUME CInv, AtRest PROVE OutcomesTrue
    BY DEF OutcomesTrue
  <2>1. OutcomeOK
    BY RestTalk DEF Together, AtRest
  <2> QED BY <2>1 DEF OutcomeOK, OutcomesTrue, ListedOK, AtRest, Theirs, Mine
<1> QED BY <1>1, SpecTalk, PTL

-----------------------------------------------------------------------------
(* The folder.                                                             *)

AsAsked(n) ==
    \/ /\ req.op = "delete" /\ n = req.args[1]
       /\ folder'[n] = Absent
    \/ /\ req.op = "rename" /\ n = req.args[1]
       /\ folder'[n] = Absent /\ folder'[req.args[2]] = folder[n]
    \/ /\ req.op = "rename" /\ n = req.args[2]
       /\ folder[n] = Absent /\ folder'[n] = folder[req.args[1]]
    \/ /\ n = wFile
       /\ IF folder[n] = Absent
          THEN req = [op |-> "upload", args |-> <<n>>] /\ folder'[n] = <<>>
          ELSE IsPrefixOf(folder[n], folder'[n]) /\ IsPrefixOf(folder'[n], Local[n])

LEMMA UploadChunkAsAsked ==
    ASSUME CInv, UploadChunk, NEW n \in Names, folder'[n] # folder[n]
    PROVE  AsAsked(n)
<1>1. PICK p \in Whole(c2s, ChunkPacketSize(Shorter(wTodo))) :
         /\ wBuf' = wBuf \o p.data
         /\ folder' = [folder EXCEPT ![wFile] = wBuf']
  BY DEF UploadChunk
<1>2. WorkerOpen /\ wpc = "upChunk"
  BY DEF UploadChunk
<1>3. /\ UploadOK /\ DOMAIN folder = Names
      /\ folder \in [Names -> Content \cup {Absent}] /\ wBuf \in Content
  BY <1>2 DEF CInv, Conversation, IInv, TypeOK, WorkerTypeOK
<1>4. /\ n = wFile /\ folder'[n] = wBuf' /\ folder[n] # Absent /\ folder[n] \in Content
      /\ IsPrefixOf(folder[n], wBuf)
  BY <1>1, <1>2, <1>3 DEF UploadOK
<1>5. PICK file : file = Local[n]
  OBVIOUS
<1>6. PICK size : size = Len(file)
  OBVIOUS
<1>7. PICK left : left = wTodo - Shorter(wTodo)
  OBVIOUS
<1>8. Continues(p, file, size, left)
  BY <1>2, <1>4, <1>5, <1>6, <1>7, ChunkArrives
<1>9. /\ wBuf' \in Content /\ IsPrefixOf(wBuf, wBuf') /\ IsPrefixOf(wBuf', file)
  BY <1>1, <1>3, <1>6, <1>8, ContinuesPrefix
<1>10. IsPrefixOf(folder[n], wBuf')
  BY <1>3, <1>4, <1>9, PrefixTransitive
<1> QED BY <1>4, <1>5, <1>9, <1>10 DEF AsAsked

LEMMA StepAsAsked ==
    ASSUME CInv, Orderly, Next, NEW n \in Names, folder'[n] # folder[n]
    PROVE  AsAsked(n)
<1>1. /\ folder \in [Names -> Content \cup {Absent}] /\ DOMAIN folder = Names
      /\ WorkerOpen => UploadOK
  BY DEF CInv, Conversation, IInv, TypeOK, WorkerTypeOK
<1>2. ~ UNCHANGED folder
  OBVIOUS
<1>3. ~User
  BY <1>2 DEF User, AskUpload, RefuseUpload, AskDownload, AskList, AskRename, AskDelete,
              AskLogout, Ask, workerVars
<1>4. ~ClientStep
  BY <1>2 DEF ClientStep, SendChunk, ReplyUnreadable, ReplyRejected, ReceiveUploadAck,
              ReceiveUploadVerdict, ReceiveDownloadAck, ReceiveChunk, DownloadClose,
              ReceiveListAck, ReceiveListing, ReceiveRenameAck, ReceiveDeleteAck,
              ReceiveLogoutAck, Accept, workerVars
<1>5. ~ClientKilled /\ ~ServerKilled
  BY <1>2 DEF ClientKilled, ServerKilled, workerVars
<1>6. CASE UploadCreate
  <2>1. /\ WorkerOpen /\ wpc = "upCreate" /\ folder[wFile] = Absent
        /\ folder' = [folder EXCEPT ![wFile] = <<>>]
    BY <1>2, <1>6 DEF UploadCreate
  <2>2. req = [op |-> "upload", args |-> <<wFile>>] /\ n = wFile /\ folder'[n] = <<>>
    BY <1>1, <2>1 DEF UploadOK
  <2> QED BY <2>1, <2>2 DEF AsAsked
<1>7. CASE UploadChunk
  BY <1>7, UploadChunkAsAsked
<1>8. CASE UploadClose
  <2>1. WorkerOpen /\ wpc = "upClose" /\ folder' = [folder EXCEPT ![wFile] = wBuf]
    BY <1>2, <1>8 DEF UploadClose
  <2>2. /\ n = wFile /\ folder'[n] = wBuf /\ folder[n] # Absent
        /\ IsPrefixOf(folder[n], wBuf) /\ IsPrefixOf(wBuf, Local[n])
    BY <1>1, <2>1 DEF UploadOK
  <2> QED BY <2>2 DEF AsAsked
<1>9. CASE RenameRequest
  <2>1. PICK p \in c2s.pkts :
           /\ TakeRequest("rename", p)
           /\ folder[p.args[1]] # Absent /\ folder[p.args[2]] = Absent
           /\ folder' = [folder EXCEPT ![p.args[1]] = Absent,
                                       ![p.args[2]] = folder[p.args[1]]]
    BY <1>2, <1>9 DEF RenameRequest
  <2>2. CommandOK /\ req.op = "rename" /\ p.args = req.args
    BY <2>1, Takes
  <2>3. PICK f \in Names, g \in Names : req.args = <<f, g>>
    BY <2>2 DEF CommandOK
  <2>4. /\ req.args[1] = f /\ req.args[2] = g /\ folder[f] # Absent /\ folder[g] = Absent
        /\ folder' = [folder EXCEPT ![f] = Absent, ![g] = folder[f]]
    BY <2>1, <2>2, <2>3
  <2>5. folder'[f] = Absent /\ folder'[g] = folder[f] /\ n \in {f, g}
    BY <1>1, <2>4
  <2> QED BY <2>2, <2>4, <2>5 DEF AsAsked
<1>10. CASE DeleteRequest
  <2>1. PICK p \in c2s.pkts :
           /\ TakeRequest("delete", p)
           /\ folder' = [folder EXCEPT ![p.args[1]] = Absent]
    BY <1>2, <1>10 DEF DeleteRequest
  <2>2. req.op = "delete" /\ p.args = req.args
    BY <2>1, Takes
  <2>3. n = req.args[1] /\ folder'[n] = Absent
    BY <1>1, <2>1, <2>2
  <2> QED BY <2>2, <2>3 DEF AsAsked
<1>11. CASE \/ RequestRefused \/ UploadRequest \/ UploadUnreadable \/ UploadRejected
            \/ UploadVerdict \/ DownloadRequest \/ DownloadChunk \/ ListRequest
            \/ SendListing \/ LogoutRequest
  BY <1>2, <1>11 DEF RequestRefused, UploadRequest, UploadUnreadable, UploadRejected,
     UploadVerdict, DownloadRequest, DownloadChunk, ListRequest, SendListing,
     LogoutRequest
<1> QED BY <1>3, <1>4, <1>5, <1>6, <1>7, <1>8, <1>9, <1>10, <1>11 DEF Next, WorkerStep

(* In every session a deletion removes the named file, a rename moves      *)
(* content as it is, and an upload creates the file that was named and     *)
(* from then on only appends bytes of the user's file: for files of any    *)
(* length, whichever side ends when, and also when the last bytes reach    *)
(* the file with the user at the next command already.                     *)
THEOREM FolderAsAsked == ASSUME Orderly PROVE Spec => OnlyAsAsked
<1>1. CInv /\ [Next]_vars =>
         [\A n \in Names : folder'[n] # folder[n] =>
             \/ /\ req.op = "delete" /\ n = req.args[1]
                /\ folder'[n] = Absent
             \/ /\ req.op = "rename" /\ n = req.args[1]
                /\ folder'[n] = Absent /\ folder'[req.args[2]] = folder[n]
             \/ /\ req.op = "rename" /\ n = req.args[2]
                /\ folder[n] = Absent /\ folder'[n] = folder[req.args[1]]
             \/ /\ n = wFile
                /\ IF folder[n] = Absent
                   THEN req = [op |-> "upload", args |-> <<n>>] /\ folder'[n] = <<>>
                   ELSE IsPrefixOf(folder[n], folder'[n])
                        /\ IsPrefixOf(folder'[n], Local[n])]_vars
  BY StepAsAsked DEF AsAsked
<1> QED BY <1>1, SpecTalk, PTL DEF Spec, OnlyAsAsked
=============================================================================

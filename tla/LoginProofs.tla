---------------------------- MODULE LoginProofs -----------------------------
(* Theorems about Login, for every value of its constants.                 *)
EXTENDS Login, TLAPS

BeforeKey == {"connect", "name", "sendName", "awaitResult", "password"}

(* The client and the worker have the same secret and the same keys.       *)
Exchanged == gb # None /\ cKey = wKey /\ cPair = wPair

(* What is known of a message in flight.                                   *)
UpOK(m) ==
    /\ m.kind = "name" => m.name = user /\ cpc \notin {"connect", "name"}
    /\ m.kind = "key" => m.key = ga /\ cpc \notin BeforeKey
    /\ m.kind = "m4" => /\ m.box = Sealed(user, cPair, cKey)
                        /\ Exchanged
                        /\ cpc \in {"in", "asked", "out"}
DownOK(m) ==
    m.kind = "m3" => /\ gb # None
                     /\ m.key = gb
                     /\ m.box = Sealed(Server, wPair, wKey)

InFlight(st) == {st[i] : i \in 1..Len(st)}

FlightInv ==
    /\ \A m \in InFlight(up) : UpOK(m)
    /\ \A m \in InFlight(down) : DownOK(m)

(* What each side knows at the point it has reached.                       *)
ClientInv ==
    /\ cpc \notin {"connect", "name", "out"} => user \in Names
    /\ cpc \in {"sendKey", "awaitM3"} => ga \in Ephemeral
    /\ cpc \in {"connect", "name"} => wUser = None
    /\ cpc \in BeforeKey => wGa = None
    /\ LoggedIn => Exchanged

WorkerInv ==
    /\ wUser \in {None, user}
    /\ wGa \in {None, ga}
    /\ wpc \in {"awaitKeySize", "awaitKey", "awaitM4", "in"} => wUser # None
    /\ wpc \in {"starting", "awaitSize", "awaitName", "awaitKeySize", "awaitKey"} =>
          gb = None
    /\ wpc = "awaitM4" => gb # None
    /\ gb # None => /\ wGa # None /\ wUser # None
                    /\ wKey = SessionKey(gb, wGa)
                    /\ wPair = Concatenated(gb, wGa)
    /\ wpc = "in" => Exchanged /\ user \in Enrolled /\ cpc \in {"in", "asked", "out"}

IInv == TypeOK /\ FlightInv /\ ClientInv /\ WorkerInv

-----------------------------------------------------------------------------
(* Sending and reading a message.                                          *)

LEMMA EmptyFacts == ASSUME NEW S PROVE <<>> \in Seq(S) /\ InFlight(<<>>) = {}
BY DEF InFlight

LEMMA AppendFacts ==
    ASSUME NEW S, NEW s \in Seq(S), NEW m \in S
    PROVE  /\ Append(s, m) \in Seq(S)
           /\ InFlight(Append(s, m)) \subseteq InFlight(s) \cup {m}
<1>1. /\ Append(s, m) \in Seq(S)
      /\ \A i \in 1..Len(Append(s, m)) :
            \/ i \in 1..Len(s) /\ Append(s, m)[i] = s[i]
            \/ Append(s, m)[i] = m
  OBVIOUS
<1> QED BY <1>1 DEF InFlight

LEMMA TailFacts ==
    ASSUME NEW S, NEW s \in Seq(S), s # <<>>
    PROVE  /\ Tail(s) \in Seq(S)
           /\ Head(s) \in S /\ Head(s) \in InFlight(s)
           /\ InFlight(Tail(s)) \subseteq InFlight(s)
<1>1. /\ Tail(s) \in Seq(S)
      /\ Head(s) \in S /\ Head(s) = s[1] /\ 1 \in 1..Len(s)
      /\ \A i \in 1..Len(Tail(s)) : i + 1 \in 1..Len(s) /\ Tail(s)[i] = s[i + 1]
  OBVIOUS
<1> QED BY <1>1 DEF InFlight

LEMMA SecretType ==
    /\ \A x, y \in Ephemeral : SessionKey(x, y) \in Secrets
    /\ \A x, y \in Ephemeral : SessionKey(x, y) = SessionKey(y, x)
    /\ \A x, y \in Ephemeral : Concatenated(x, y) \in Pairs
    /\ \A x, y \in Ephemeral : Concatenated(x, y) \in Ephemeral \X Ephemeral
BY DEF SessionKey, Secrets, Concatenated, Pairs

LEMMA SealedType ==
    ASSUME NEW by \in Names \cup {Server},
           NEW pair \in Ephemeral \X Ephemeral, NEW key \in Secrets
    PROVE  /\ Sealed(by, pair, key) \in Boxes
           /\ Sealed(by, pair, key).key = key
           /\ Sealed(by, pair, key).text = [by |-> by, over |-> pair]
BY DEF Sealed, Boxes, Signatures

(* Only the text that was sealed is verified.                              *)
LEMMA OpenedVerified ==
    ASSUME NEW by, by # None
    PROVE  \A box, key, pair : \A text \in Opened(box, key) :
              Verified(text, by, pair) => box.key = key
<1> SUFFICES ASSUME NEW box, NEW key, NEW pair, NEW text \in Opened(box, key),
                    Verified(text, by, pair), box.key # key
             PROVE  FALSE
  OBVIOUS
<1>1. text = [by |-> None, over |-> <<>>] /\ text = [by |-> by, over |-> pair]
  BY DEF Opened, Verified, Garbage
<1>2. text.by = None /\ text.by = by
  BY <1>1
<1> QED BY <1>2

-----------------------------------------------------------------------------
(* What the two sends do to the streams.                                   *)
LEMMA ClientSendsFacts ==
    ASSUME TypeOK, NEW m \in UpMessages, NEW next, ClientSends(m, next)
    PROVE  /\ up' \in Seq(UpMessages)
           /\ InFlight(up') \subseteq InFlight(up) \cup {m}
           /\ cpc' \in {next, "out"}
           /\ cpc' # "out" => up' = IF WorkerOpen THEN Append(up, m) ELSE up
<1>1. Append(up, m) \in Seq(UpMessages) /\ InFlight(Append(up, m)) \subseteq InFlight(up) \cup {m}
  BY AppendFacts DEF TypeOK
<1>2. CASE up' = Append(up, m) /\ cpc' = next /\ WorkerOpen
  BY <1>1, <1>2
<1>3. CASE up' = up /\ cpc' \in {next, "out"} /\ ~WorkerOpen
  BY <1>3 DEF TypeOK
<1> QED BY <1>2, <1>3 DEF ClientSends

LEMMA WorkerSendsFacts ==
    ASSUME TypeOK, NEW m \in DownMessages, NEW next, WorkerSends(m, next)
    PROVE  /\ down' \in Seq(DownMessages)
           /\ InFlight(down') \subseteq InFlight(down) \cup {m}
           /\ wpc' \in {next, "closed"}
<1>1. /\ Append(down, m) \in Seq(DownMessages)
      /\ InFlight(Append(down, m)) \subseteq InFlight(down) \cup {m}
  BY AppendFacts DEF TypeOK
<1>2. CASE down' = Append(down, m) /\ wpc' = next
  BY <1>1, <1>2
<1>3. CASE down' = down /\ wpc' \in {next, "closed"}
  BY <1>3 DEF TypeOK
<1> QED BY <1>2, <1>3 DEF WorkerSends

-----------------------------------------------------------------------------
LEMMA InitInv == Init => IInv
<1> SUFFICES ASSUME Init PROVE IInv
  OBVIOUS
<1>1. TypeOK
  BY EmptyFacts DEF Init, TypeOK, ClientStates, WorkerStates, Pairs
<1>2. FlightInv
  BY EmptyFacts DEF Init, FlightInv
<1>3. ClientInv /\ WorkerInv
  BY DEF Init, ClientInv, WorkerInv, BeforeKey, LoggedIn
<1> QED BY <1>1, <1>2, <1>3 DEF IInv

(* The client's steps that put nothing into the stream and learn nothing.  *)
LEMMA ClientQuietInv ==
    IInv /\ (Connect \/ ReadResult \/ ClientReadFails \/ ClientKilled) => IInv'
<1> SUFFICES ASSUME IInv, Connect \/ ReadResult \/ ClientReadFails \/ ClientKilled
             PROVE  IInv'
  OBVIOUS
<1> USE DEF IInv
<1>1. UNCHANGED <<up, user, ga, cKey, cPair, wpc, wUser, wGa, gb, wKey, wPair, server, failing>>
  BY DEF Connect, ReadResult, ClientReadFails, ClientKilled, clientData, workerVars,
         workerData
<1>2. /\ cpc' \in {"name", "password", "out"}
      /\ cpc' = "name" => cpc = "connect"
      /\ cpc' = "password" => cpc = "awaitResult"
  BY DEF Connect, ReadResult, ClientReadFails, ClientKilled
<1>3. down' \in Seq(DownMessages) /\ InFlight(down') \subseteq InFlight(down)
  <2>1. CASE down' = down
    BY <2>1 DEF TypeOK
  <2>2. CASE down' = <<>>
    BY <2>2, EmptyFacts
  <2>3. CASE down # <<>> /\ down' = Tail(down)
    BY <2>3, TailFacts DEF TypeOK
  <2> QED BY <2>1, <2>2, <2>3
          DEF Connect, ReadResult, ClientReadFails, ClientKilled, Comes
<1>4. TypeOK'
  BY <1>1, <1>2, <1>3 DEF TypeOK, ClientStates
<1>5. FlightInv'
  <2>1. \A m \in InFlight(up) : UpOK(m)'
    BY <1>1, <1>2 DEF FlightInv, UpOK, BeforeKey, Exchanged
  <2>2. \A m \in InFlight(down) : DownOK(m)'
    BY <1>1 DEF FlightInv, DownOK
  <2> QED BY <1>1, <1>3, <2>1, <2>2 DEF FlightInv
<1>6. ClientInv'
  BY <1>1, <1>2 DEF ClientInv, BeforeKey, LoggedIn, Exchanged
<1>7. WorkerInv'
  BY <1>1, <1>2 DEF WorkerInv, Exchanged
<1> QED BY <1>4, <1>5, <1>6, <1>7

LEMMA TypeNameInv == IInv /\ TypeName => IInv'
<1> SUFFICES ASSUME IInv, TypeName PROVE IInv'
  OBVIOUS
<1> USE DEF IInv
<1>1. /\ UNCHANGED <<down, ga, cKey, cPair, wpc, wUser, wGa, gb, wKey, wPair, server, failing>>
      /\ cpc = "name" /\ cpc' \in {"sendName", "out"}
      /\ user' \in Names \cup {None}
      /\ cpc' # "out" => user' \in Names
      /\ up' \in Seq(UpMessages)
      /\ InFlight(up') \subseteq InFlight(up) \cup {[kind |-> "size"]}
  <2>1. [kind |-> "size"] \in UpMessages
    BY DEF UpMessages
  <2>2. CASE ClientSends([kind |-> "size"], "sendName") /\ user' \in Names
    BY <2>1, <2>2, ClientSendsFacts DEF TypeName, workerVars, workerData
  <2>3. CASE cpc' = "out" /\ UNCHANGED <<user, up>>
    BY <2>3 DEF TypeName, workerVars, workerData, TypeOK
  <2> QED BY <2>2, <2>3 DEF TypeName
<1>2. TypeOK'
  BY <1>1 DEF TypeOK, ClientStates
<1>3. \A m \in InFlight(up) : UpOK(m)'
  BY <1>1 DEF FlightInv, UpOK, BeforeKey, Exchanged
<1>4. UpOK([kind |-> "size"])'
  BY DEF UpOK
<1>5. FlightInv'
  BY <1>1, <1>3, <1>4 DEF FlightInv, DownOK
<1>6. ClientInv' /\ WorkerInv'
  BY <1>1 DEF ClientInv, WorkerInv, BeforeKey, LoggedIn, Exchanged
<1> QED BY <1>2, <1>5, <1>6

LEMMA SendNameInv == IInv /\ SendName => IInv'
<1> SUFFICES ASSUME IInv, SendName PROVE IInv'
  OBVIOUS
<1> USE DEF IInv
<1> DEFINE msg == [kind |-> "name", name |-> user]
<1>1. /\ UNCHANGED <<down, user, ga, cKey, cPair, wpc, wUser, wGa, gb, wKey, wPair, server, failing>>
      /\ cpc = "sendName" /\ cpc' \in {"awaitResult", "out"}
      /\ up' \in Seq(UpMessages)
      /\ InFlight(up') \subseteq InFlight(up) \cup {msg}
  <2>1. msg \in UpMessages
    BY DEF UpMessages, ClientInv, SendName
  <2> QED BY <2>1, ClientSendsFacts DEF SendName, workerVars, workerData, clientData
<1>2. TypeOK'
  BY <1>1 DEF TypeOK, ClientStates
<1>3. \A m \in InFlight(up) : UpOK(m)'
  BY <1>1 DEF FlightInv, UpOK, BeforeKey, Exchanged
<1>4. UpOK(msg)'
  BY <1>1 DEF UpOK
<1>5. FlightInv'
  BY <1>1, <1>3, <1>4 DEF FlightInv, DownOK, UpOK, BeforeKey, Exchanged
<1>6. ClientInv' /\ WorkerInv'
  BY <1>1 DEF ClientInv, WorkerInv, BeforeKey, LoggedIn, Exchanged
<1> QED BY <1>2, <1>5, <1>6

LEMMA TypePasswordInv == IInv /\ TypePassword => IInv'
<1> SUFFICES ASSUME IInv, TypePassword PROVE IInv'
  OBVIOUS
<1> USE DEF IInv
<1>1. /\ UNCHANGED <<down, user, cKey, cPair, wpc, wUser, wGa, gb, wKey, wPair, server, failing>>
      /\ cpc = "password" /\ cpc' \in {"sendKey", "out"}
      /\ ga' \in Ephemeral \cup {None}
      /\ cpc' # "out" => ga' \in Ephemeral
      /\ up' \in Seq(UpMessages)
      /\ InFlight(up') \subseteq InFlight(up) \cup {[kind |-> "keySize"]}
  <2>1. [kind |-> "keySize"] \in UpMessages
    BY DEF UpMessages
  <2>2. CASE ClientSends([kind |-> "keySize"], "sendKey") /\ ga' \in Ephemeral
    BY <2>1, <2>2, ClientSendsFacts DEF TypePassword, workerVars, workerData
  <2>3. CASE cpc' = "out" /\ UNCHANGED <<ga, up>>
    BY <2>3 DEF TypePassword, workerVars, workerData, TypeOK
  <2> QED BY <2>2, <2>3 DEF TypePassword
<1>2. TypeOK'
  BY <1>1 DEF TypeOK, ClientStates
<1>3. \A m \in InFlight(up) : UpOK(m)'
  BY <1>1 DEF FlightInv, UpOK, BeforeKey, Exchanged
<1>4. UpOK([kind |-> "keySize"])'
  BY DEF UpOK
<1>5. FlightInv'
  BY <1>1, <1>3, <1>4 DEF FlightInv, DownOK
<1>6. ClientInv' /\ WorkerInv'
  BY <1>1 DEF ClientInv, WorkerInv, BeforeKey, LoggedIn, Exchanged
<1> QED BY <1>2, <1>5, <1>6

LEMMA SendKeyInv == IInv /\ SendKey => IInv'
<1> SUFFICES ASSUME IInv, SendKey PROVE IInv'
  OBVIOUS
<1> USE DEF IInv
<1> DEFINE msg == [kind |-> "key", key |-> ga]
<1>1. /\ UNCHANGED <<down, user, ga, cKey, cPair, wpc, wUser, wGa, gb, wKey, wPair, server, failing>>
      /\ cpc = "sendKey" /\ cpc' \in {"awaitM3", "out"}
      /\ up' \in Seq(UpMessages)
      /\ InFlight(up') \subseteq InFlight(up) \cup {msg}
  <2>1. msg \in UpMessages
    BY DEF UpMessages, ClientInv, SendKey
  <2> QED BY <2>1, ClientSendsFacts DEF SendKey, workerVars, workerData, clientData
<1>2. TypeOK'
  BY <1>1 DEF TypeOK, ClientStates
<1>3. \A m \in InFlight(up) : UpOK(m)'
  BY <1>1 DEF FlightInv, UpOK, BeforeKey, Exchanged
<1>4. UpOK(msg)'
  BY <1>1 DEF UpOK, BeforeKey
<1>5. FlightInv'
  BY <1>1, <1>3, <1>4 DEF FlightInv, DownOK, UpOK, BeforeKey, Exchanged
<1>6. ClientInv' /\ WorkerInv'
  BY <1>1 DEF ClientInv, WorkerInv, BeforeKey, LoggedIn, Exchanged
<1> QED BY <1>2, <1>5, <1>6

(* The third message carries what the worker knows, so a client that opens *)
(* it and finds the server's signature over its own pair of keys has them. *)
LEMMA ReadM3Inv == IInv /\ ReadM3 => IInv'
<1> SUFFICES ASSUME IInv, ReadM3 PROVE IInv'
  OBVIOUS
<1> USE DEF IInv
<1> DEFINE m3 == Head(down)
           m4 == [kind |-> "m4", box |-> Sealed(user, cPair', cKey')]
<1>1. /\ UNCHANGED <<user, ga, wpc, wUser, wGa, gb, wKey, wPair, server, failing>>
      /\ cpc = "awaitM3"
      /\ down # <<>> /\ m3.kind = "m3" /\ down' = Tail(down)
      /\ cPair' = Concatenated(m3.key, ga)
      /\ cKey' \in {SessionKey(ga, m3.key), None}
      /\ AcceptM3(m3) \/ RefuseM3(m3)
  BY DEF ReadM3, Comes, workerVars, workerData
<1>2. /\ down' \in Seq(DownMessages) /\ InFlight(down') \subseteq InFlight(down)
      /\ m3 \in InFlight(down)
  BY <1>1, TailFacts DEF TypeOK
<1>3. gb # None /\ m3.key = gb /\ m3.box = Sealed(Server, wPair, wKey)
  BY <1>1, <1>2 DEF FlightInv, DownOK
<1>4. /\ wKey = SessionKey(gb, wGa) /\ wPair = Concatenated(gb, ga)
      /\ gb \in Ephemeral /\ ga \in Ephemeral /\ user \in Names
      /\ wGa = ga
  BY <1>1, <1>3 DEF WorkerInv, ClientInv, TypeOK
<1>5. /\ cPair' = wPair /\ wPair \in Pairs /\ wPair \in Ephemeral \X Ephemeral
      /\ cKey' \in Secrets \cup {None} /\ wKey \in Secrets
  <2>1. /\ Concatenated(gb, ga) \in Pairs
        /\ Concatenated(gb, ga) \in Ephemeral \X Ephemeral
        /\ SessionKey(gb, ga) \in Secrets /\ SessionKey(ga, gb) \in Secrets
    BY <1>4, SecretType
  <2>2. cPair' = Concatenated(gb, ga) /\ cKey' \in {SessionKey(ga, gb), None}
    BY <1>1, <1>3
  <2> QED BY <1>4, <2>1, <2>2
<1>6. CASE AcceptM3(m3)
  <2>1. cKey' = wKey
    <3>1. PICK text \in Opened(m3.box, cKey') : Verified(text, Server, cPair')
      BY <1>6 DEF AcceptM3
    <3>2. m3.box.key = cKey'
      <4>1. Server # None
        BY LoginAssumption DEF LoginAssumption
      <4>2. PICK box, key, pair : box = m3.box /\ key = cKey' /\ pair = cPair'
        OBVIOUS
      <4>3. text \in Opened(box, key) /\ Verified(text, Server, pair)
        BY <3>1, <4>2
      <4>4. box.key = key
        BY <4>1, <4>3, OpenedVerified
      <4> QED BY <4>2, <4>4
    <3>3. m3.box.key = wKey
      BY <1>3 DEF Sealed
    <3> QED BY <3>2, <3>3
  <2>0. PICK m : m = m4
    OBVIOUS
  <2>2. m \in UpMessages
    <3>1. Sealed(user, cPair', cKey') \in Boxes
      BY <1>4, <1>5, <2>1, SealedType
    <3> QED BY <2>0, <3>1 DEF UpMessages
  <2>3. /\ up' \in Seq(UpMessages)
        /\ InFlight(up') \subseteq InFlight(up) \cup {m}
        /\ cpc' \in {"in", "out"}
    BY <1>6, <2>0, <2>2, ClientSendsFacts DEF AcceptM3
  <2>4. TypeOK'
    BY <1>1, <1>2, <1>5, <2>3 DEF TypeOK, ClientStates
  <2>5. \A x \in InFlight(up) : UpOK(x)'
    BY <1>1, <2>3 DEF FlightInv, UpOK, BeforeKey
  <2>6. Exchanged'
    BY <1>1, <1>3, <1>5, <2>1 DEF Exchanged
  <2>7. UpOK(m)'
    BY <1>1, <2>0, <2>3, <2>6 DEF UpOK
  <2>8. \A x \in InFlight(down) : DownOK(x)'
    BY <1>1 DEF FlightInv, DownOK
  <2>9. FlightInv'
    BY <1>2, <2>3, <2>5, <2>7, <2>8 DEF FlightInv
  <2>10. ClientInv' /\ WorkerInv'
    BY <1>1, <1>4, <2>3, <2>6 DEF ClientInv, WorkerInv, BeforeKey, LoggedIn
  <2> QED BY <2>4, <2>9, <2>10
<1>7. CASE RefuseM3(m3)
  <2>1. up' = up /\ cpc' = "out"
    BY <1>7 DEF RefuseM3
  <2>2. TypeOK'
    BY <1>1, <1>2, <1>5, <2>1 DEF TypeOK, ClientStates
  <2>3. \A m \in InFlight(up) : UpOK(m)'
    BY <1>1, <2>1 DEF FlightInv, UpOK, BeforeKey
  <2>4. \A m \in InFlight(down) : DownOK(m)'
    BY <1>1 DEF FlightInv, DownOK
  <2>5. FlightInv'
    BY <1>2, <2>1, <2>3, <2>4 DEF FlightInv
  <2>6. ClientInv' /\ WorkerInv'
    BY <1>1, <2>1 DEF ClientInv, WorkerInv, BeforeKey, LoggedIn
  <2> QED BY <2>2, <2>5, <2>6
<1> QED BY <1>1, <1>6, <1>7

LEMMA SendRequestInv == IInv /\ SendRequest => IInv'
<1> SUFFICES ASSUME IInv, SendRequest PROVE IInv'
  OBVIOUS
<1> USE DEF IInv
<1>1. /\ UNCHANGED <<down, user, ga, cKey, cPair, wpc, wUser, wGa, gb, wKey, wPair, server, failing>>
      /\ cpc = "in" /\ cpc' = "asked"
      /\ up' \in Seq(UpMessages)
      /\ InFlight(up') \subseteq InFlight(up) \cup {[kind |-> "request"]}
  <2>1. [kind |-> "request"] \in UpMessages
    BY DEF UpMessages
  <2> QED BY <2>1, AppendFacts DEF SendRequest, workerVars, workerData, clientData, TypeOK
<1>2. TypeOK'
  BY <1>1 DEF TypeOK, ClientStates
<1>3. \A m \in InFlight(up) : UpOK(m)'
  BY <1>1 DEF FlightInv, UpOK, BeforeKey, Exchanged
<1>4. UpOK([kind |-> "request"])'
  BY DEF UpOK
<1>5. FlightInv'
  BY <1>1, <1>3, <1>4 DEF FlightInv, DownOK
<1>6. ClientInv' /\ WorkerInv'
  BY <1>1 DEF ClientInv, WorkerInv, BeforeKey, LoggedIn, Exchanged
<1> QED BY <1>2, <1>5, <1>6

-----------------------------------------------------------------------------
(* The worker's steps that send nothing and change none of its data.       *)
LEMMA WorkerQuietInv ==
    ASSUME IInv,
           StartWorker \/ ReadSize \/ ReadKeySize \/ WorkerReadFails \/ ServerKilled
    PROVE  IInv'
<1> USE DEF IInv
<1>1. /\ UNCHANGED <<down, cpc, user, ga, cKey, cPair, wUser, wGa, gb, wKey, wPair, failing>>
      /\ \/ wpc = "starting" /\ wpc' = "awaitSize"
         \/ wpc = "awaitSize" /\ wpc' = "awaitName"
         \/ wpc = "awaitKeySize" /\ wpc' = "awaitKey"
         \/ wpc' = "closed"
         \/ wpc' = wpc
      /\ server' \in {"up", "killed", "aborted"}
  BY DEF StartWorker, ReadSize, ReadKeySize, WorkerReadFails, ServerKilled, clientVars,
         clientData, workerData, TypeOK
<1>2. up' \in Seq(UpMessages) /\ InFlight(up') \subseteq InFlight(up)
  <2>1. CASE up' = up
    BY <2>1 DEF TypeOK
  <2>2. CASE up' = <<>>
    BY <2>2, EmptyFacts
  <2>3. CASE up # <<>> /\ up' = Tail(up)
    BY <2>3, TailFacts DEF TypeOK
  <2> QED BY <2>1, <2>2, <2>3
          DEF StartWorker, ReadSize, ReadKeySize, WorkerReadFails, ServerKilled, Comes
<1>3. TypeOK'
  BY <1>1, <1>2 DEF TypeOK, WorkerStates
<1>4. \A m \in InFlight(up) : UpOK(m)'
  BY <1>1 DEF FlightInv, UpOK, Exchanged
<1>5. \A m \in InFlight(down) : DownOK(m)'
  BY <1>1 DEF FlightInv, DownOK
<1>6. FlightInv'
  BY <1>1, <1>2, <1>4, <1>5 DEF FlightInv
<1>7. ClientInv' /\ WorkerInv'
  BY <1>1 DEF ClientInv, WorkerInv, LoggedIn, Exchanged
<1> QED BY <1>3, <1>6, <1>7

LEMMA ReadNameInv == IInv /\ ReadName => IInv'
<1> SUFFICES ASSUME IInv, ReadName PROVE IInv'
  OBVIOUS
<1> USE DEF IInv
<1>0. PICK msg : msg = [kind |-> "result", known |-> wUser' \in Users]
  OBVIOUS
<1>1. /\ UNCHANGED <<cpc, user, ga, cKey, cPair, wGa, gb, wKey, wPair, server, failing>>
      /\ wpc = "awaitName"
      /\ up # <<>> /\ Head(up).kind = "name" /\ up' = Tail(up)
      /\ wUser' = Head(up).name
  BY DEF ReadName, Comes, clientVars, clientData
<1>2. /\ up' \in Seq(UpMessages) /\ InFlight(up') \subseteq InFlight(up)
      /\ Head(up) \in InFlight(up) /\ Head(up) \in UpMessages
  BY <1>1, TailFacts DEF TypeOK
<1>3. wUser' = user /\ wUser' \in Names /\ wUser' # None /\ cpc \notin {"connect", "name"}
  BY <1>1, <1>2, LoginAssumption DEF FlightInv, UpOK, UpMessages, LoginAssumption
<1>4. /\ down' \in Seq(DownMessages)
      /\ InFlight(down') \subseteq InFlight(down) \cup {msg}
      /\ wpc' \in {"awaitKeySize", "closed"}
  <2>1. msg \in DownMessages
    BY <1>0 DEF DownMessages
  <2> QED BY <1>0, <2>1, WorkerSendsFacts DEF ReadName
<1>5. TypeOK'
  BY <1>1, <1>2, <1>3, <1>4 DEF TypeOK, WorkerStates
<1>6. \A m \in InFlight(up) : UpOK(m)'
  BY <1>1 DEF FlightInv, UpOK, Exchanged
<1>7. \A m \in InFlight(down) : DownOK(m)'
  BY <1>1 DEF FlightInv, DownOK
<1>8. DownOK(msg)'
  BY <1>0 DEF DownOK
<1>9. FlightInv'
  BY <1>2, <1>4, <1>6, <1>7, <1>8 DEF FlightInv
<1>10. ClientInv' /\ WorkerInv'
  BY <1>1, <1>3, <1>4 DEF ClientInv, WorkerInv, LoggedIn, Exchanged, BeforeKey
<1> QED BY <1>5, <1>9, <1>10

(* The worker makes its key once, before any message that depends on it.   *)
LEMMA ReadKeyInv == IInv /\ ReadKey => IInv'
<1> SUFFICES ASSUME IInv, ReadKey PROVE IInv'
  OBVIOUS
<1> USE DEF IInv
<1>0. PICK msg : msg = [kind |-> "m3", key |-> gb', box |-> Sealed(Server, wPair', wKey')]
  OBVIOUS
<1>1. /\ UNCHANGED <<cpc, user, ga, cKey, cPair, wUser, server, failing>>
      /\ wpc = "awaitKey"
      /\ up # <<>> /\ Head(up).kind = "key" /\ up' = Tail(up)
      /\ wGa' = Head(up).key
  BY DEF ReadKey, Comes, clientVars, clientData
<1>2. /\ up' \in Seq(UpMessages) /\ InFlight(up') \subseteq InFlight(up)
      /\ Head(up) \in InFlight(up) /\ Head(up) \in UpMessages
  BY <1>1, TailFacts DEF TypeOK
<1>3. wGa' = ga /\ wGa' \in Ephemeral /\ wGa' # None /\ cpc \notin BeforeKey
  BY <1>1, <1>2, LoginAssumption DEF FlightInv, UpOK, UpMessages, LoginAssumption
<1>4. gb = None /\ wUser # None /\ ~LoggedIn
  BY <1>1 DEF WorkerInv, ClientInv, Exchanged
<1>5. \A m \in InFlight(up) : UpOK(m)'
  BY <1>1, <1>4 DEF FlightInv, UpOK, Exchanged
<1>6. CASE /\ gb' \in Ephemeral
           /\ wKey' = SessionKey(gb', wGa') /\ wPair' = Concatenated(gb', wGa')
           /\ WorkerSends(msg, "awaitM4")
  <2>1. /\ wKey' \in Secrets /\ wPair' \in Pairs
        /\ wPair' \in Ephemeral \X Ephemeral /\ gb' # None
    BY <1>3, <1>6, SecretType, LoginAssumption DEF LoginAssumption
  <2>2. msg \in DownMessages
    <3>1. Sealed(Server, wPair', wKey') \in Boxes
      BY <2>1, SealedType
    <3> QED BY <1>0, <1>6, <3>1 DEF DownMessages
  <2>3. /\ down' \in Seq(DownMessages)
        /\ InFlight(down') \subseteq InFlight(down) \cup {msg}
        /\ wpc' \in {"awaitM4", "closed"}
    BY <1>6, <2>2, WorkerSendsFacts
  <2>4. TypeOK'
    BY <1>1, <1>2, <1>3, <1>6, <2>1, <2>3 DEF TypeOK, WorkerStates
  <2>5. \A m \in InFlight(down) : DownOK(m)'
    BY <1>4 DEF FlightInv, DownOK
  <2>6. DownOK(msg)'
    BY <1>0, <2>1 DEF DownOK
  <2>7. FlightInv'
    BY <1>2, <1>5, <2>3, <2>5, <2>6 DEF FlightInv
  <2>8. ClientInv' /\ WorkerInv'
    BY <1>1, <1>3, <1>4, <1>6, <2>1, <2>3 DEF ClientInv, WorkerInv, LoggedIn, BeforeKey
  <2> QED BY <2>4, <2>7, <2>8
<1>7. CASE wpc' = "closed" /\ UNCHANGED <<gb, wKey, wPair, down>>
  <2>1. TypeOK'
    BY <1>1, <1>2, <1>3, <1>7 DEF TypeOK, WorkerStates
  <2>2. FlightInv'
    BY <1>2, <1>5, <1>7 DEF FlightInv, DownOK
  <2>3. ClientInv' /\ WorkerInv'
    BY <1>1, <1>3, <1>4, <1>7 DEF ClientInv, WorkerInv, LoggedIn, BeforeKey
  <2> QED BY <2>1, <2>2, <2>3
<1> QED BY <1>0, <1>6, <1>7 DEF ReadKey

LEMMA ReadM4Inv == IInv /\ ReadM4 => IInv'
<1> SUFFICES ASSUME IInv, ReadM4 PROVE IInv'
  OBVIOUS
<1> USE DEF IInv
<1>1. /\ UNCHANGED <<down, cpc, user, ga, cKey, cPair, wUser, wGa, gb, wKey, wPair, server,
                     failing>>
      /\ wpc = "awaitM4"
      /\ up # <<>> /\ Head(up).kind = "m4" /\ up' = Tail(up)
      /\ \/ wpc' = "in" /\ wUser \in Enrolled
         \/ wpc' = "closed"
  BY DEF ReadM4, Comes, clientVars, clientData, workerData
<1>2. /\ up' \in Seq(UpMessages) /\ InFlight(up') \subseteq InFlight(up)
      /\ Head(up) \in InFlight(up)
  BY <1>1, TailFacts DEF TypeOK
<1>3. Exchanged /\ cpc \in {"in", "asked", "out"} /\ wUser = user
  BY <1>1, <1>2 DEF FlightInv, UpOK, WorkerInv
<1>4. TypeOK'
  BY <1>1, <1>2 DEF TypeOK, WorkerStates
<1>5. \A m \in InFlight(up) : UpOK(m)'
  BY <1>1 DEF FlightInv, UpOK, Exchanged
<1>6. \A m \in InFlight(down) : DownOK(m)'
  BY <1>1 DEF FlightInv, DownOK
<1>7. FlightInv'
  BY <1>1, <1>2, <1>5, <1>6 DEF FlightInv
<1>8. ClientInv' /\ WorkerInv'
  BY <1>1, <1>3 DEF ClientInv, WorkerInv, LoggedIn, Exchanged
<1> QED BY <1>4, <1>7, <1>8

-----------------------------------------------------------------------------
LEMMA StepInv == IInv /\ [Next]_vars => IInv'
<1> SUFFICES ASSUME IInv, [Next]_vars PROVE IInv'
  OBVIOUS
<1>1. CASE UNCHANGED vars
  BY <1>1 DEF vars, clientVars, clientData, workerVars, workerData, IInv, TypeOK, FlightInv,
     UpOK, DownOK, Exchanged, ClientInv, WorkerInv, LoggedIn
<1>2. CASE User
  BY <1>2, TypeNameInv, TypePasswordInv, SendRequestInv DEF User
<1>3. CASE ClientStep \/ ClientKilled
  BY <1>3, ClientQuietInv, SendNameInv, SendKeyInv, ReadM3Inv DEF ClientStep
<1>4. CASE WorkerStep \/ ServerKilled
  BY <1>4, WorkerQuietInv, ReadNameInv, ReadKeyInv, ReadM4Inv DEF WorkerStep
<1> QED BY <1>1, <1>2, <1>3, <1>4 DEF Next

LEMMA InvAlways == Spec => []IInv
BY InitInv, StepInv, PTL DEF Spec

LEMMA InvAgrees == IInv => Agreement
<1> SUFFICES ASSUME IInv, LoggedIn \/ wpc = "in" PROVE Agreement
  BY DEF Agreement
<1>1. Exchanged
  BY DEF IInv, ClientInv, WorkerInv
<1>2. /\ wGa = ga /\ wUser = user
      /\ wKey = SessionKey(gb, ga) /\ wPair = Concatenated(gb, ga)
  BY <1>1 DEF IInv, WorkerInv, Exchanged
<1>3. SessionKey(gb, ga) = SessionKey(ga, gb)
  BY DEF SessionKey
<1>4. wpc = "in" => user \in Enrolled
  BY DEF IInv, WorkerInv
<1> QED BY <1>1, <1>2, <1>3, <1>4 DEF Agreement, Exchanged

(* Every variable keeps its type, whatever is typed, fails or is killed.   *)
THEOREM TypesKept == Spec => []TypeOK
<1>1. IInv => TypeOK
  BY DEF IInv
<1> QED BY <1>1, InvAlways, PTL

(* Who is let in, on either side, shares the key, the pair of ephemeral    *)
(* keys and the name with the other side, although the client does not     *)
(* notice a derivation that failed (Client.cpp:304).                       *)
THEOREM LoginAgreement == Spec => []Agreement
BY InvAlways, InvAgrees, PTL

-----------------------------------------------------------------------------
(* The order of the messages.                                              *)

Ordered(st, script, sent, read) ==
    /\ Len(st) = sent - read
    /\ \A i \in 1..Len(st) : st[i].kind = script[read + i]

LEMMA OrderedAppend ==
    ASSUME NEW S, NEW st \in Seq(S), NEW m, NEW script, NEW sent \in Nat, NEW read \in Nat,
           Ordered(st, script, sent, read), m.kind = script[sent + 1]
    PROVE  Ordered(Append(st, m), script, sent + 1, read)
<1>1. /\ Len(Append(st, m)) = Len(st) + 1
      /\ \A i \in 1..Len(st) : Append(st, m)[i] = st[i]
      /\ Append(st, m)[Len(st) + 1] = m
  OBVIOUS
<1>2. Len(st) \in Nat /\ read + (Len(st) + 1) = sent + 1
  BY DEF Ordered
<1>3. ASSUME NEW i \in 1..Len(st) + 1 PROVE Append(st, m)[i].kind = script[read + i]
  <2>1. CASE i \in 1..Len(st)
    BY <1>1, <2>1 DEF Ordered
  <2>2. CASE i = Len(st) + 1
    <3>1. read + i = sent + 1
      BY <1>2, <2>2
    <3> QED BY <1>1, <2>2, <3>1
  <2>3. \A n \in Nat : i \in 1..n + 1 => i \in 1..n \/ i = n + 1
    OBVIOUS
  <2>4. i \in 1..Len(st) \/ i = Len(st) + 1
    BY <1>2, <2>3
  <2> QED BY <2>1, <2>2, <2>4
<1>4. Len(Append(st, m)) = sent + 1 - read
  BY <1>1, <1>2
<1>5. \A i \in 1..Len(Append(st, m)) : Append(st, m)[i].kind = script[read + i]
  BY <1>1, <1>3
<1> QED BY <1>4, <1>5 DEF Ordered

LEMMA OrderedTail ==
    ASSUME NEW S, NEW st \in Seq(S), st # <<>>, NEW script, NEW sent \in Nat, NEW read \in Nat,
           Ordered(st, script, sent, read)
    PROVE  Ordered(Tail(st), script, sent, read + 1)
<1>1. /\ Len(st) \in Nat /\ Len(Tail(st)) = Len(st) - 1
      /\ \A i \in 1..Len(Tail(st)) : i + 1 \in 1..Len(st) /\ Tail(st)[i] = st[i + 1]
  OBVIOUS
<1>2. ASSUME NEW i \in 1..Len(Tail(st)) PROVE Tail(st)[i].kind = script[(read + 1) + i]
  <2>1. i \in Nat /\ read + (i + 1) = (read + 1) + i
    BY <1>1
  <2> QED BY <1>1, <2>1 DEF Ordered
<1> QED BY <1>1, <1>2 DEF Ordered

UpOrdered == Ordered(up, UpScript, ClientSent[cpc], WorkerRead[wpc])
DownOrdered == Ordered(down, DownScript, WorkerSent[wpc], ClientRead[cpc])

LEMMA InOrderParts == InOrder <=> (ClientOpen /\ WorkerOpen => UpOrdered /\ DownOrdered)
BY DEF InOrder, UpOrdered, DownOrdered, Ordered

LEMMA ClientCounts ==
    /\ \A s \in {"connect", "name"} : ClientSent[s] = 0 /\ ClientRead[s] = 0
    /\ ClientSent["sendName"] = 1 /\ ClientRead["sendName"] = 0
    /\ ClientSent["awaitResult"] = 2 /\ ClientRead["awaitResult"] = 0
    /\ ClientSent["password"] = 2 /\ ClientRead["password"] = 1
    /\ ClientSent["sendKey"] = 3 /\ ClientRead["sendKey"] = 1
    /\ ClientSent["awaitM3"] = 4 /\ ClientRead["awaitM3"] = 1
    /\ ClientSent["in"] = 5 /\ ClientRead["in"] = 2
    /\ ClientSent["asked"] = 6 /\ ClientRead["asked"] = 2
BY DEF ClientSent, ClientRead, ClientStates

LEMMA WorkerCounts ==
    /\ \A s \in {"starting", "awaitSize"} : WorkerRead[s] = 0 /\ WorkerSent[s] = 0
    /\ WorkerRead["awaitName"] = 1 /\ WorkerSent["awaitName"] = 0
    /\ WorkerRead["awaitKeySize"] = 2 /\ WorkerSent["awaitKeySize"] = 1
    /\ WorkerRead["awaitKey"] = 3 /\ WorkerSent["awaitKey"] = 1
    /\ WorkerRead["awaitM4"] = 4 /\ WorkerSent["awaitM4"] = 2
    /\ WorkerRead["in"] = 5 /\ WorkerSent["in"] = 2
BY DEF WorkerSent, WorkerRead, WorkerStates

LEMMA CountsInNat ==
    /\ \A s \in ClientStates : ClientSent[s] \in Nat /\ ClientRead[s] \in Nat
    /\ \A s \in WorkerStates : WorkerRead[s] \in Nat /\ WorkerSent[s] \in Nat
BY DEF ClientSent, ClientRead, ClientStates, WorkerRead, WorkerSent, WorkerStates

LEMMA ClientOrder ==
    ASSUME IInv, UpOrdered, DownOrdered, ClientOpen', WorkerOpen,
           User \/ ClientStep \/ ClientKilled
    PROVE  UpOrdered' /\ DownOrdered'
<1>1. wpc' = wpc
  BY DEF User, TypeName, TypePassword, SendRequest, ClientStep, Connect, SendName, ReadResult,
         SendKey, ReadM3, ClientReadFails, ClientKilled, workerVars
<1>2. /\ WorkerRead[wpc] \in Nat /\ WorkerSent[wpc] \in Nat
      /\ up \in Seq(UpMessages) /\ down \in Seq(DownMessages)
  BY CountsInNat DEF IInv, TypeOK
<1>3. CASE Connect
  BY <1>1, <1>3, ClientCounts DEF Connect, UpOrdered, DownOrdered, ClientOpen
<1>4. CASE ReadResult
  <2>1. down # <<>> /\ down' = Tail(down) /\ up' = up
        /\ cpc = "awaitResult" /\ cpc' = "password"
    BY <1>4 DEF ReadResult, Comes, ClientOpen
  <2>2. Ordered(down', DownScript, WorkerSent[wpc], 0 + 1)
    BY <1>2, <2>1, ClientCounts, OrderedTail DEF DownOrdered
  <2> QED BY <1>1, <2>1, <2>2, ClientCounts DEF UpOrdered, DownOrdered
<1>5. ASSUME NEW m \in UpMessages, NEW next \in {"sendName", "awaitResult", "sendKey", "awaitM3"},
             ClientSends(m, next), down' = down,
             ClientSent[cpc] \in Nat, ClientSent[next] = ClientSent[cpc] + 1,
             ClientRead[next] = ClientRead[cpc], m.kind = UpScript[ClientSent[cpc] + 1]
      PROVE  UpOrdered' /\ DownOrdered'
  <2>1. up' = Append(up, m) /\ cpc' = next
    BY <1>5 DEF ClientSends, ClientOpen
  <2>2. Ordered(up', UpScript, ClientSent[cpc] + 1, WorkerRead[wpc])
    BY <1>2, <1>5, <2>1, OrderedAppend DEF UpOrdered
  <2> QED BY <1>1, <1>5, <2>1, <2>2 DEF UpOrdered, DownOrdered
<1>6. CASE TypeName
  <2>1. /\ cpc = "name" /\ ClientSends([kind |-> "size"], "sendName") /\ down' = down
        /\ [kind |-> "size"] \in UpMessages
    BY <1>6 DEF TypeName, ClientOpen, UpMessages
  <2> QED BY <1>5, <2>1, ClientCounts DEF UpScript
<1>7. CASE SendName
  <2>1. /\ cpc = "sendName" /\ down' = down
        /\ ClientSends([kind |-> "name", name |-> user], "awaitResult")
        /\ [kind |-> "name", name |-> user] \in UpMessages
    BY <1>7 DEF SendName, UpMessages, IInv, ClientInv
  <2> QED BY <1>5, <2>1, ClientCounts DEF UpScript
<1>8. CASE TypePassword
  <2>1. /\ cpc = "password" /\ ClientSends([kind |-> "keySize"], "sendKey") /\ down' = down
        /\ [kind |-> "keySize"] \in UpMessages
    BY <1>8 DEF TypePassword, ClientOpen, UpMessages
  <2> QED BY <1>5, <2>1, ClientCounts DEF UpScript
<1>9. CASE SendKey
  <2>1. /\ cpc = "sendKey" /\ down' = down
        /\ ClientSends([kind |-> "key", key |-> ga], "awaitM3")
        /\ [kind |-> "key", key |-> ga] \in UpMessages
    BY <1>9 DEF SendKey, UpMessages, IInv, ClientInv
  <2> QED BY <1>5, <2>1, ClientCounts DEF UpScript
<1>10. CASE ReadM3
  <2>1. PICK m : m = [kind |-> "m4", box |-> Sealed(user, cPair', cKey')]
    OBVIOUS
  <2>2. /\ down # <<>> /\ down' = Tail(down) /\ cpc = "awaitM3"
        /\ up' = Append(up, m) /\ cpc' = "in"
    BY <1>10, <2>1 DEF ReadM3, Comes, AcceptM3, RefuseM3, ClientSends, ClientOpen
  <2>3. Ordered(down', DownScript, WorkerSent[wpc], 1 + 1)
    BY <1>2, <2>2, ClientCounts, OrderedTail DEF DownOrdered
  <2>4. m.kind = UpScript[4 + 1]
    BY <2>1 DEF UpScript
  <2>5. Ordered(up', UpScript, 4 + 1, WorkerRead[wpc])
    BY <1>2, <2>2, <2>4, ClientCounts, OrderedAppend DEF UpOrdered
  <2> QED BY <1>1, <2>2, <2>3, <2>5, ClientCounts DEF UpOrdered, DownOrdered
<1>11. CASE SendRequest
  <2>1. cpc = "in" /\ cpc' = "asked" /\ down' = down /\ up' = Append(up, [kind |-> "request"])
    BY <1>11 DEF SendRequest
  <2>2. Ordered(up', UpScript, 5 + 1, WorkerRead[wpc])
    <3>1. [kind |-> "request"].kind = UpScript[5 + 1]
      BY DEF UpScript
    <3> QED BY <1>2, <2>1, <3>1, ClientCounts, OrderedAppend DEF UpOrdered
  <2> QED BY <1>1, <2>1, <2>2, ClientCounts DEF UpOrdered, DownOrdered
<1>12. ~ClientReadFails /\ ~ClientKilled
  BY DEF ClientReadFails, ClientKilled, ClientOpen
<1> QED BY <1>3, <1>4, <1>6, <1>7, <1>8, <1>9, <1>10, <1>11, <1>12 DEF User, ClientStep

LEMMA WorkerOrder ==
    ASSUME IInv, UpOrdered, DownOrdered, ClientOpen, WorkerOpen', WorkerStep
    PROVE  UpOrdered' /\ DownOrdered'
<1>1. cpc' = cpc
  BY DEF WorkerStep, StartWorker, ReadSize, ReadName, ReadKeySize, ReadKey, ReadM4,
         WorkerReadFails, clientVars
<1>2. /\ ClientSent[cpc] \in Nat /\ ClientRead[cpc] \in Nat
      /\ up \in Seq(UpMessages) /\ down \in Seq(DownMessages)
  BY CountsInNat DEF IInv, TypeOK
<1>3. CASE StartWorker
  BY <1>1, <1>3, WorkerCounts DEF StartWorker, UpOrdered, DownOrdered
<1>4. ASSUME up # <<>>, up' = Tail(up), WorkerRead[wpc] \in Nat,
             WorkerRead[wpc'] = WorkerRead[wpc] + 1
      PROVE  UpOrdered'
  <2>1. Ordered(up', UpScript, ClientSent[cpc], WorkerRead[wpc] + 1)
    BY <1>2, <1>4, OrderedTail DEF UpOrdered
  <2> QED BY <1>1, <1>4, <2>1 DEF UpOrdered
<1>5. CASE ReadSize \/ ReadKeySize \/ ReadM4
  <2>1. /\ up # <<>> /\ up' = Tail(up) /\ down' = down
        /\ \/ wpc = "awaitSize" /\ wpc' = "awaitName"
           \/ wpc = "awaitKeySize" /\ wpc' = "awaitKey"
           \/ wpc = "awaitM4" /\ wpc' = "in"
    BY <1>5 DEF ReadSize, ReadKeySize, ReadM4, Comes, WorkerOpen
  <2>2. UpOrdered'
    BY <1>4, <2>1, WorkerCounts
  <2>3. WorkerSent[wpc'] = WorkerSent[wpc]
    BY <2>1, WorkerCounts
  <2> QED BY <1>1, <2>1, <2>2, <2>3 DEF DownOrdered
<1>6. ASSUME NEW m, m.kind = DownScript[WorkerSent[wpc] + 1], down' = Append(down, m),
             WorkerSent[wpc] \in Nat, WorkerSent[wpc'] = WorkerSent[wpc] + 1
      PROVE  DownOrdered'
  <2>1. Ordered(down', DownScript, WorkerSent[wpc] + 1, ClientRead[cpc])
    BY <1>2, <1>6, OrderedAppend DEF DownOrdered
  <2> QED BY <1>1, <1>6, <2>1 DEF DownOrdered
<1>7. CASE ReadName
  <2>1. PICK m : m = [kind |-> "result", known |-> wUser' \in Users]
    OBVIOUS
  <2>2. /\ up # <<>> /\ up' = Tail(up) /\ wpc = "awaitName"
        /\ wpc' = "awaitKeySize" /\ down' = Append(down, m)
    BY <1>7, <2>1 DEF ReadName, Comes, WorkerSends, WorkerOpen
  <2>3. UpOrdered'
    BY <1>4, <2>2, WorkerCounts
  <2>4. m.kind = DownScript[0 + 1]
    BY <2>1 DEF DownScript
  <2>5. DownOrdered'
    BY <1>6, <2>2, <2>4, WorkerCounts
  <2> QED BY <2>3, <2>5
<1>8. CASE ReadKey
  <2>1. PICK m : m = [kind |-> "m3", key |-> gb', box |-> Sealed(Server, wPair', wKey')]
    OBVIOUS
  <2>2. /\ up # <<>> /\ up' = Tail(up) /\ wpc = "awaitKey"
        /\ wpc' = "awaitM4" /\ down' = Append(down, m)
    BY <1>8, <2>1 DEF ReadKey, Comes, WorkerSends, WorkerOpen
  <2>3. UpOrdered'
    BY <1>4, <2>2, WorkerCounts
  <2>4. m.kind = DownScript[1 + 1]
    BY <2>1 DEF DownScript
  <2>5. DownOrdered'
    BY <1>6, <2>2, <2>4, WorkerCounts
  <2> QED BY <2>3, <2>5
<1>9. ~WorkerReadFails
  BY DEF WorkerReadFails, WorkerOpen
<1> QED BY <1>3, <1>5, <1>7, <1>8, <1>9 DEF WorkerStep

LEMMA InOrderStep == IInv /\ InOrder /\ [Next]_vars => InOrder'
<1> SUFFICES ASSUME IInv, InOrder, [Next]_vars, ClientOpen', WorkerOpen'
             PROVE  UpOrdered' /\ DownOrdered'
  BY InOrderParts DEF InOrder, UpOrdered, DownOrdered, Ordered
<1>1. CASE UNCHANGED vars
  <2>1. UNCHANGED <<up, down, cpc, wpc, server>>
    BY <1>1 DEF vars, clientVars, workerVars
  <2> QED BY <2>1, InOrderParts
          DEF ClientOpen, WorkerOpen, UpOrdered, DownOrdered
<1>2. CASE User \/ ClientStep \/ ClientKilled
  <2>1. cpc # "out" /\ wpc' = wpc /\ server' = server
    BY <1>2 DEF User, TypeName, TypePassword, SendRequest, ClientStep, Connect, SendName,
       ReadResult, SendKey, ReadM3, ClientReadFails, ClientKilled, workerVars
  <2>2. ClientOpen /\ WorkerOpen
    BY <2>1 DEF ClientOpen, WorkerOpen
  <2> QED BY <1>2, <2>2, InOrderParts, ClientOrder
<1>3. CASE WorkerStep
  <2>1. cpc' = cpc /\ wpc # "closed" /\ server = "up"
    BY <1>3 DEF WorkerStep, StartWorker, ReadSize, ReadName, ReadKeySize, ReadKey, ReadM4,
       WorkerReadFails, clientVars
  <2>2. ClientOpen /\ WorkerOpen
    BY <2>1 DEF ClientOpen, WorkerOpen
  <2> QED BY <1>3, <2>2, InOrderParts, WorkerOrder
<1>4. ~ServerKilled
  BY DEF ServerKilled, WorkerOpen
<1> QED BY <1>1, <1>2, <1>3, <1>4 DEF Next

(* No read of the login ever takes bytes of another message than the one   *)
(* it is meant for.                                                        *)
THEOREM LoginInOrder == Spec => []InOrder
<1>1. Init => InOrder
  <2> SUFFICES ASSUME Init PROVE UpOrdered /\ DownOrdered
    BY InOrderParts
  <2> QED BY ClientCounts, WorkerCounts DEF Init, UpOrdered, DownOrdered, Ordered
<1> QED BY <1>1, InOrderStep, InvAlways, PTL DEF Spec

(* When both sides have logged in, nothing is left of the login in either  *)
(* stream: at most the first command of the session, which begins on empty *)
(* streams (Init of module Session).                                       *)
HandedOver ==
    LoggedIn /\ ClientOpen /\ WorkerOpen /\ wpc = "in" =>
        /\ down = <<>>
        /\ cpc = "in" => up = <<>>
        /\ cpc = "asked" => Len(up) = 1 /\ up[1].kind = "request"

THEOREM LoginHandsOver == Spec => []HandedOver
<1>1. IInv /\ InOrder => HandedOver
  <2> SUFFICES ASSUME IInv, InOrder, LoggedIn, ClientOpen, WorkerOpen, wpc = "in"
               PROVE  /\ down = <<>>
                      /\ cpc = "in" => up = <<>>
                      /\ cpc = "asked" => Len(up) = 1 /\ up[1].kind = "request"
    BY DEF HandedOver
  <2>1. UpOrdered /\ DownOrdered /\ up \in Seq(UpMessages) /\ down \in Seq(DownMessages)
    BY InOrderParts DEF IInv, TypeOK
  <2>2. Len(down) = 0
    BY <2>1, ClientCounts, WorkerCounts DEF DownOrdered, Ordered, LoggedIn
  <2>3. cpc = "in" => Len(up) = 0
    BY <2>1, ClientCounts, WorkerCounts DEF UpOrdered, Ordered
  <2>4. cpc = "asked" => Len(up) = 1 /\ up[1].kind = UpScript[5 + 1]
    BY <2>1, ClientCounts, WorkerCounts DEF UpOrdered, Ordered
  <2> QED BY <2>1, <2>2, <2>3, <2>4 DEF UpScript
<1> QED BY <1>1, InvAlways, LoginInOrder, PTL
=============================================================================

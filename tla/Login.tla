-------------------------------- MODULE Login --------------------------------
(***************************************************************************)
(* The login of one client (Client::login) with the worker thread that     *)
(* serves its connection (Worker::login): the name, the answer to it, and  *)
(* the three messages of the station-to-station exchange, up to the        *)
(* command loops of both (module Session).                                 *)
(*                                                                         *)
(* Each blocking call of either side, with the code up to the next one, is *)
(* a step.  One send puts one message into the socket; the reader asks for *)
(* as many bytes as the message it expects has.  Both ends are honest:     *)
(* what goes wrong is what a user types, a file that is missing, a call    *)
(* into OpenSSL that fails, and either process stopping at any moment.     *)
(*                                                                         *)
(* A Diffie-Hellman secret is the set of the two public keys it is made    *)
(* of; a signature tells who signed which keys; AES-CBC under another key  *)
(* fails on the padding or, by luck, gives bytes that mean nothing.        *)
(***************************************************************************)
EXTENDS Integers, Sequences

CONSTANTS
    Names,      \* what users type as their names
    Users,      \* username_list
    Enrolled,   \* the users whose public.pem on the server matches their key
    Ephemeral,  \* the public keys that ECDHKeyGeneration may give
    None,       \* no name, key or secret yet, or a derivation that failed
    Server,     \* the signer behind the server's certificate
    MayFail     \* the failures that a behaviour may have, from FailureKinds

FailureKinds ==
    {"clientKilled",    \* the client process ends at any moment
     "serverKilled",    \* so does the server: a signal, or another worker
     "cryptoFails",     \* a call into OpenSSL fails, on either side
     "noMaterial",      \* the server cannot read its key or its certificate
     "badCertificate"}  \* the certificate is expired or revoked, or the
                        \* client cannot read the CA's or the revocation list

ASSUME LoginAssumption ==
    /\ Enrolled \subseteq Users
    /\ None \notin Names \cup Ephemeral \cup {Server}
    /\ MayFail \subseteq FailureKinds

VARIABLES
    up,         \* messages from the client to the worker, in flight
    down,       \* messages from the worker to the client, in flight
    (* the client *)
    cpc,        \* which call of the client blocks
    user,       \* Client::username
    ga,         \* sClientKey, the client's ephemeral public key
    cKey,       \* Client::session_key
    cPair,      \* concatenatedKeys of the client
    (* the worker *)
    wpc,        \* which call of the worker blocks
    wUser,      \* Worker::username
    wGa,        \* sClientKey as the worker received it
    gb,         \* sServerKey, the worker's ephemeral public key
    wKey,       \* Worker::session_key
    wPair,      \* concatenatedKeys of the worker
    (* the rest of the world *)
    server,     \* the server process
    failing     \* the kinds of failure that this behaviour may have

clientData == <<user, ga, cKey, cPair>>
workerData == <<wUser, wGa, gb, wKey, wPair>>
clientVars == <<cpc, clientData>>
workerVars == <<wpc, workerData, server>>
vars == <<up, down, clientVars, workerVars, failing>>

-----------------------------------------------------------------------------
ClientStates ==
    {"connect", "name", "sendName", "awaitResult", "password", "sendKey",
     "awaitM3", "in", "asked", "out"}
WorkerStates ==
    {"starting", "awaitSize", "awaitName", "awaitKeySize", "awaitKey",
     "awaitM4", "in", "closed"}

Garbage == [by |-> None, over |-> <<>>]     \* what padding luck gives

Pairs == (Ephemeral \X Ephemeral) \cup {<<>>}
Signatures == [by : Names \cup {Server}, over : Ephemeral \X Ephemeral]
Secrets == {{x, y} : x, y \in Ephemeral}
Boxes == [key : Secrets, text : Signatures]     \* an encrypted signature

UpMessages ==
         [kind : {"size", "keySize", "request"}]
    \cup [kind : {"name"}, name : Names]
    \cup [kind : {"key"}, key : Ephemeral]
    \cup [kind : {"m4"}, box : Boxes]
DownMessages ==
         [kind : {"result"}, known : BOOLEAN]
    \cup [kind : {"m3"}, key : Ephemeral, box : Boxes]

(* The type of every variable.                                             *)
TypeOK ==
    /\ up \in Seq(UpMessages)
    /\ down \in Seq(DownMessages)
    /\ cpc \in ClientStates
    /\ user \in Names \cup {None}
    /\ ga \in Ephemeral \cup {None}
    /\ cKey \in Secrets \cup {None}
    /\ cPair \in Pairs
    /\ wpc \in WorkerStates
    /\ wUser \in Names \cup {None}
    /\ wGa \in Ephemeral \cup {None}
    /\ gb \in Ephemeral \cup {None}
    /\ wKey \in Secrets \cup {None}
    /\ wPair \in Pairs
    /\ server \in {"up", "killed", "aborted"}
    /\ failing \subseteq MayFail

Init ==
    /\ up = <<>> /\ down = <<>>
    /\ cpc = "connect"
    /\ user = None /\ ga = None /\ cKey = None /\ cPair = <<>>
    /\ wpc = "starting"
    /\ wUser = None /\ wGa = None /\ gb = None /\ wKey = None /\ wPair = <<>>
    /\ server = "up"
    /\ failing \in SUBSET MayFail

ClientOpen == cpc # "out"
WorkerOpen == server = "up" /\ wpc # "closed"

-----------------------------------------------------------------------------
(* What both sides compute.                                                *)

(* deriveSharedSecret and generateSessionKey.                              *)
SessionKey(own, peer) == {own, peer}

(* concatenatedKeys: the server's key first, on both sides.                *)
Concatenated(serverKey, clientKey) == <<serverKey, clientKey>>

(* generateDigitalSignature and encryptTextAES.                            *)
Sealed(by, pair, key) == [key |-> key, text |-> [by |-> by, over |-> pair]]

(* A variant: the IV is not sent along.                                    *)
OpenedWithoutIV(box, key) == {Garbage}

(* decryptTextAES: what may come out of it when it does not fail.          *)
Opened(box, key) == IF box.key = key THEN {box.text} ELSE {Garbage}

(* A variant: whatever can be decrypted is believed.                       *)
Believed(text, by, pair) == text = text

(* verifyDigitalSignature.                                                 *)
Verified(text, by, pair) == text = [by |-> by, over |-> pair]

(* A first message of that kind is in flight.                              *)
Comes(st, kind) == st # <<>> /\ Head(st).kind = kind

-----------------------------------------------------------------------------
(* The client.  Every failure prints a line and returns 0: start() returns,*)
(* the process ends and its socket is closed.                              *)

(* sendSize and sendData: to a closed socket they fail or are lost.        *)
ClientSends(m, next) ==
    \/ /\ up' = IF WorkerOpen THEN Append(up, m) ELSE up
       /\ cpc' = next
    \/ /\ ~WorkerOpen
       /\ cpc' = "out"
       /\ UNCHANGED up

Connect ==
    /\ cpc = "connect"
    /\ cpc' = IF server = "up" THEN "name" ELSE "out"
    /\ UNCHANGED <<up, down, clientData, workerVars, failing>>

(* A variant: the size of the name is not announced.                       *)
TypeNameUnsized ==
    /\ cpc = "name"
    /\ \/ user' \in Names /\ cpc' = "sendName"
       \/ cpc' = "out" /\ UNCHANGED user
    /\ UNCHANGED <<up, down, ga, cKey, cPair, workerVars, failing>>

(* The user types a name, or one that is empty or too long, or nothing.    *)
TypeName ==
    /\ cpc = "name"
    /\ \/ /\ user' \in Names
          /\ ClientSends([kind |-> "size"], "sendName")
       \/ /\ cpc' = "out"
          /\ UNCHANGED <<user, up>>
    /\ UNCHANGED <<down, ga, cKey, cPair, workerVars, failing>>

SendName ==
    /\ cpc = "sendName"
    /\ ClientSends([kind |-> "name", name |-> user], "awaitResult")
    /\ UNCHANGED <<down, clientData, workerVars, failing>>

ReadResult ==
    /\ cpc = "awaitResult"
    /\ Comes(down, "result")
    /\ down' = Tail(down)
    /\ cpc' = IF Head(down).known THEN "password" ELSE "out"
    /\ UNCHANGED <<up, clientData, workerVars, failing>>

(* The user types the password of the private key: the right one, and an   *)
(* ephemeral key is made; or one that is empty, too long, or does not open *)
(* the key, and the login ends, as it does when no key can be made.        *)
TypePassword ==
    /\ cpc = "password"
    /\ \/ /\ ga' \in Ephemeral
          /\ ClientSends([kind |-> "keySize"], "sendKey")
       \/ /\ cpc' = "out"
          /\ UNCHANGED <<ga, up>>
    /\ UNCHANGED <<down, user, cKey, cPair, workerVars, failing>>

SendKey ==
    /\ cpc = "sendKey"
    /\ ClientSends([kind |-> "key", key |-> ga], "awaitM3")
    /\ UNCHANGED <<down, clientData, workerVars, failing>>

(* The third message is good: sign and seal the answer, and the menu.      *)
AcceptM3(m) ==
    /\ \E text \in Opened(m.box, cKey') : Verified(text, Server, cPair')
    /\ ClientSends([kind |-> "m4", box |-> Sealed(user, cPair', cKey')], "in")

(* It is not: the certificate, the decryption or the signature fails.      *)
RefuseM3(m) ==
    /\ \/ {"cryptoFails", "badCertificate"} \cap failing # {}
       \/ cKey' # m.box.key
       \/ \E text \in Opened(m.box, cKey') : ~Verified(text, Server, cPair')
    /\ cpc' = "out"
    /\ UNCHANGED up

(* A derivation that fails returns 0 and is compared with -1, so the login *)
(* goes on with a key made of no secret.                                   *)
ReadM3 ==
    /\ cpc = "awaitM3"
    /\ Comes(down, "m3")
    /\ down' = Tail(down)
    /\ LET m == Head(down) IN
          /\ cPair' = Concatenated(m.key, ga)
          /\ \/ cKey' = SessionKey(ga, m.key)
             \/ "cryptoFails" \in failing /\ cKey' = None
          /\ AcceptM3(m) \/ RefuseM3(m)
    /\ UNCHANGED <<user, ga, workerVars, failing>>

(* The first command of the menu, sent while the worker may still be at    *)
(* the fourth message.                                                     *)
SendRequest ==
    /\ cpc = "in"
    /\ cpc' = "asked"
    /\ up' = IF WorkerOpen THEN Append(up, [kind |-> "request"]) ELSE up
    /\ UNCHANGED <<down, clientData, workerVars, failing>>

(* receiveSize or receiveData fails: the worker has closed.                *)
ClientReadFails ==
    /\ cpc \in {"awaitResult", "awaitM3"}
    /\ ~WorkerOpen
    /\ cpc' = "out"
    /\ down' = <<>>
    /\ UNCHANGED <<up, clientData, workerVars, failing>>

ClientKilled ==
    /\ "clientKilled" \in failing
    /\ cpc \notin {"connect", "out"}
    /\ cpc' = "out"
    /\ UNCHANGED <<up, down, clientData, workerVars, failing>>

-----------------------------------------------------------------------------
(* The worker.  Every failure returns 0: start() returns, and ~Worker      *)
(* closes the socket.                                                      *)

WorkerSends(m, next) ==
    \/ /\ down' = IF ClientOpen THEN Append(down, m) ELSE down
       /\ wpc' = next
    \/ /\ ~ClientOpen
       /\ wpc' = "closed"
       /\ UNCHANGED down

(* The connection is accepted and its thread runs.                         *)
StartWorker ==
    /\ server = "up"
    /\ wpc = "starting"
    /\ cpc # "connect"
    /\ wpc' = "awaitSize"
    /\ UNCHANGED <<up, down, clientVars, workerData, server, failing>>

ReadSize ==
    /\ server = "up"
    /\ wpc = "awaitSize"
    /\ Comes(up, "size")
    /\ up' = Tail(up)
    /\ wpc' = "awaitName"
    /\ UNCHANGED <<down, clientVars, workerData, server, failing>>

(* The name is looked up in username_list, and the result sent.            *)
ReadName ==
    /\ server = "up"
    /\ wpc = "awaitName"
    /\ Comes(up, "name")
    /\ up' = Tail(up)
    /\ wUser' = Head(up).name
    /\ WorkerSends([kind |-> "result", known |-> wUser' \in Users],
                   IF wUser' \in Users THEN "awaitKeySize" ELSE "closed")
    /\ UNCHANGED <<clientVars, wGa, gb, wKey, wPair, server, failing>>

ReadKeySize ==
    /\ server = "up"
    /\ wpc = "awaitKeySize"
    /\ Comes(up, "keySize")
    /\ up' = Tail(up)
    /\ wpc' = "awaitKey"
    /\ UNCHANGED <<down, clientVars, workerData, server, failing>>

(* The client's key; the worker makes its own, the secret, and the third   *)
(* message.                                                                *)
ReadKey ==
    /\ server = "up"
    /\ wpc = "awaitKey"
    /\ Comes(up, "key")
    /\ up' = Tail(up)
    /\ wGa' = Head(up).key
    /\ \/ /\ gb' \in Ephemeral
          /\ wKey' = SessionKey(gb', wGa')
          /\ wPair' = Concatenated(gb', wGa')
          /\ WorkerSends([kind |-> "m3", key |-> gb',
                           box |-> Sealed(Server, wPair', wKey')], "awaitM4")
       \/ /\ {"cryptoFails", "noMaterial"} \cap failing # {}
          /\ wpc' = "closed"
          /\ UNCHANGED <<gb, wKey, wPair, down>>
    /\ UNCHANGED <<clientVars, wUser, server, failing>>

(* The fourth message: the user's signature, by the key in commons.        *)
ReadM4 ==
    /\ server = "up"
    /\ wpc = "awaitM4"
    /\ Comes(up, "m4")
    /\ up' = Tail(up)
    /\ LET box == Head(up).box
           good(text) == wUser \in Enrolled /\ Verified(text, wUser, wPair)
       IN
       \/ /\ \E text \in Opened(box, wKey) : good(text)
          /\ wpc' = "in"
       \/ /\ \/ "cryptoFails" \in failing
             \/ box.key # wKey
             \/ \E text \in Opened(box, wKey) : ~good(text)
          /\ wpc' = "closed"
    /\ UNCHANGED <<down, clientVars, workerData, server, failing>>

(* A variant: a closed connection is not noticed in the exchange of keys.  *)
WorkerReadFailsEarly ==
    /\ server = "up"
    /\ wpc \in {"awaitSize", "awaitName"}
    /\ ~ClientOpen
    /\ up' = <<>>
    /\ wpc' = "closed"
    /\ UNCHANGED <<down, clientVars, workerData, server, failing>>

(* receiveSize or receiveData fails: the client has closed.  When that is  *)
(* the end of receiveEphemeralPublicKey, the worker frees a key that was   *)
(* never set: whatever the pointer holds, which may end the process.       *)
WorkerReadFails ==
    /\ server = "up"
    /\ wpc \notin {"starting", "closed"}
    /\ ~ClientOpen
    /\ up' = <<>>
    /\ wpc' = "closed"
    /\ \/ UNCHANGED server
       \/ wpc \in {"awaitKeySize", "awaitKey"} /\ server' = "aborted"
    /\ UNCHANGED <<down, clientVars, workerData, failing>>

ServerKilled ==
    /\ "serverKilled" \in failing
    /\ server = "up"
    /\ server' = "killed"
    /\ UNCHANGED <<up, down, clientVars, wpc, workerData, failing>>

-----------------------------------------------------------------------------
User == TypeName \/ TypePassword \/ SendRequest

ClientStep ==
    \/ Connect \/ SendName \/ ReadResult
    \/ SendKey \/ ReadM3
    \/ ClientReadFails

WorkerStep ==
    \/ StartWorker \/ ReadSize \/ ReadName
    \/ ReadKeySize \/ ReadKey \/ ReadM4
    \/ WorkerReadFails

Next ==
    \/ User \/ ClientStep \/ WorkerStep
    \/ ClientKilled \/ ServerKilled

(* Both processes keep running while they can; nothing obliges the user to *)
(* type.                                                                   *)
Spec == Init /\ [][Next]_vars /\ WF_vars(ClientStep) /\ WF_vars(WorkerStep)

-----------------------------------------------------------------------------
(* Properties.                                                             *)

LoggedIn == cpc \in {"in", "asked"}

(* Who is let in shares the key with the one that let him in: a client at  *)
(* its menu has the secret of the two ephemeral keys, the one its worker   *)
(* has, and both have the same name and signed the same pair of keys; and  *)
(* a worker in its command loop serves an enrolled user who has got that   *)
(* far (the comparison with -1 at Client.cpp:304 notwithstanding).         *)
Agreement ==
    LoggedIn \/ wpc = "in" =>
        /\ cKey = SessionKey(ga, gb) /\ wKey = cKey
        /\ cPair = Concatenated(gb, ga) /\ wPair = cPair
        /\ wUser = user
        /\ wpc = "in" => user \in Enrolled

UpScript == <<"size", "name", "keySize", "key", "m4", "request">>
DownScript == <<"result", "m3">>

(* How many of the messages each side has sent and read at each step.      *)
ClientSent ==
    [s \in ClientStates |->
        CASE s = "sendName" -> 1
          [] s \in {"awaitResult", "password"} -> 2
          [] s = "sendKey" -> 3
          [] s = "awaitM3" -> 4
          [] s = "in" -> 5
          [] s = "asked" -> 6
          [] OTHER -> 0]
ClientRead ==
    [s \in ClientStates |->
        CASE s \in {"password", "sendKey", "awaitM3"} -> 1
          [] s \in {"in", "asked"} -> 2
          [] OTHER -> 0]
WorkerRead ==
    [s \in WorkerStates |->
        CASE s = "awaitName" -> 1
          [] s = "awaitKeySize" -> 2
          [] s = "awaitKey" -> 3
          [] s = "awaitM4" -> 4
          [] s = "in" -> 5
          [] OTHER -> 0]
WorkerSent ==
    [s \in WorkerStates |->
        CASE s \in {"awaitKeySize", "awaitKey"} -> 1
          [] s \in {"awaitM4", "in"} -> 2
          [] OTHER -> 0]

(* What is in flight is what one side has sent and the other has not read, *)
(* in the order of the protocol: no read ever takes the bytes of another   *)
(* message, although messages have no boundary on the stream.  In          *)
(* particular, when both are logged in only a first request can be there.  *)
InOrder ==
    ClientOpen /\ WorkerOpen =>
        /\ Len(up) = ClientSent[cpc] - WorkerRead[wpc]
        /\ \A i \in 1..Len(up) : up[i].kind = UpScript[WorkerRead[wpc] + i]
        /\ Len(down) = WorkerSent[wpc] - ClientRead[cpc]
        /\ \A i \in 1..Len(down) : down[i].kind = DownScript[ClientRead[cpc] + i]

(* An enrolled user who types the right password gets in, on both sides,   *)
(* when nothing fails.                                                     *)
GetsIn ==
    cpc = "sendKey" /\ user \in Enrolled /\ failing = {} ~> LoggedIn /\ wpc = "in"

(* Neither side waits for ever: what the client has typed is answered, and *)
(* a worker does not outlive its client, wherever the login was cut short. *)
LoginEnds ==
    /\ cpc \in {"sendName", "awaitResult", "sendKey", "awaitM3"}
           ~> cpc \in {"password", "out"} \/ LoggedIn
    /\ cpc = "out" ~> ~WorkerOpen

-----------------------------------------------------------------------------
(* A claim of the repository that the code does not keep.                  *)

(* The server "runs continuously" (README.md:44): a user who mistypes the  *)
(* password, and whose client therefore closes the connection, does not    *)
(* end it.                                                                 *)
MistypingEndsNoServer == server # "aborted"
=============================================================================

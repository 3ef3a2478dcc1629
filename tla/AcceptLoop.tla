----------------------------- MODULE AcceptLoop -----------------------------
(***************************************************************************)
(* The server process around the sessions: the accept loop of              *)
(* src/server/server.cpp, the thread and the Worker that it makes for each *)
(* connection, and the descriptor table that all of them share.  What a    *)
(* worker says to its client is left to Session; here it matters which     *)
(* descriptors it opens, uses and closes, and when.                        *)
(*                                                                         *)
(* The threads have no lock.  A step is one system call (accept, open,     *)
(* close, exit) with the code up to the next one, or the thread's read of  *)
(* the loop variable client_socket, which it captured by reference.        *)
(***************************************************************************)
EXTENDS Integers, Sequences, FiniteSets

CONSTANTS
    Conns,          \* the connections, each with the thread made for it
    MaxDescriptor,  \* the limit of the descriptor table
    Backlog,        \* the queue of listen()
    MaxClients,     \* how many clients are connected at a time, at most
    Arrivals,       \* when a client may connect: see CanArrive
    Logouts,        \* whether sessions may end with a logout
    AcceptErrors    \* whether accept may fail although a descriptor is free

ASSUME AcceptAssumption ==
    /\ MaxDescriptor \in Nat \ {0}
    /\ Backlog \in Nat \ {0}
    /\ MaxClients \in Nat \ {0}
    /\ Arrivals \in {"spaced", "crowded"}
    /\ Logouts \in BOOLEAN
    /\ AcceptErrors \in BOOLEAN

Descriptors == 1..MaxDescriptor
NoDescriptor == -1      \* what a failed accept returns; no file open

server_socket == 1      \* the first descriptor that the process opens

(* What a descriptor stands for.                                           *)
Free == [kind |-> "free"]
Listener == [kind |-> "listener"]
Reserved == [kind |-> "reserved"]           \* for what accept will return
Connection(c) == [kind |-> "connection", of |-> c]
File(c) == [kind |-> "file", of |-> c]      \* opened by the worker of c
Entries == {Free, Listener, Reserved} \cup {Connection(c) : c \in Conns}
                                      \cup {File(c) : c \in Conns}

VARIABLES
    queue,          \* connections that wait for accept
    table,          \* the descriptor table of the process
    reserved,       \* the descriptor with which accept waits, if it does
    client_socket,  \* the variable of the accept loop, one place in memory
    phase,          \* what has become of each connection and its thread
    socket,         \* Worker::communcation_socket
    file,           \* the file that the worker has open, if any
    server          \* the process

vars == <<queue, table, reserved, client_socket, phase, socket, file, server>>

Phases ==
    {"away", "queued",
     "accepted",    \* accept has returned, the thread is not there yet
     "born",        \* the thread has not read client_socket yet
     "serving",     \* login and commands
     "exiting",     \* the socket is closed, exit() comes
     "ending",      \* start() has returned, ~Worker comes
     "done"}

TypeOK ==
    /\ queue \in Seq(Conns)
    /\ table \in [Descriptors -> Entries]
    /\ reserved \in Descriptors \cup {NoDescriptor}
    /\ client_socket \in Descriptors \cup {NoDescriptor}
    /\ phase \in [Conns -> Phases]
    /\ socket \in [Conns -> Descriptors \cup {NoDescriptor}]
    /\ file \in [Conns -> Descriptors \cup {NoDescriptor}]
    /\ server \in {"up", "exited"}

Init ==
    /\ queue = <<>>
    /\ table = [d \in Descriptors |-> IF d = server_socket THEN Listener ELSE Free]
    /\ reserved = NoDescriptor
    /\ client_socket = NoDescriptor
    /\ phase = [c \in Conns |-> "away"]
    /\ socket = [c \in Conns |-> NoDescriptor]
    /\ file = [c \in Conns |-> NoDescriptor]
    /\ server = "up"

-----------------------------------------------------------------------------
(* open and accept return the lowest free descriptor.                      *)
Lowest(d) == d \in Descriptors /\ table[d] = Free
             /\ \A e \in Descriptors : table[e] = Free => d <= e

(* close() frees a descriptor, whoever has opened it; of one that is not   *)
(* open, or that accept has only reserved, it returns an error that nobody *)
(* looks at.                                                               *)
Close(d) == table' = [e \in Descriptors |-> IF e = d /\ table[e] # Reserved
                                              THEN Free ELSE table[e]]

InLoop == \A c \in Conns : phase[c] # "accepted"
AtWork == {c \in Conns : phase[c] \notin {"away", "done"}}

(* At most MaxClients are connected; one may connect when every other has  *)
(* been accepted and its thread has read client_socket, or at any moment.  *)
CanArrive ==
    /\ Cardinality(AtWork) < MaxClients
    /\ CASE Arrivals = "spaced"  -> \A c \in AtWork : phase[c] \in {"serving", "exiting", "ending"}
         [] Arrivals = "crowded" -> Len(queue) < Backlog

Connect(c) ==
    /\ server = "up"
    /\ phase[c] = "away"
    /\ CanArrive
    /\ queue' = Append(queue, c)
    /\ phase' = [phase EXCEPT ![c] = "queued"]
    /\ UNCHANGED <<table, reserved, client_socket, socket, file, server>>

(* accept reserves a descriptor at the call, and then waits for a client.  *)
CallAccept ==
    /\ server = "up"
    /\ InLoop
    /\ reserved = NoDescriptor
    /\ \E d \in Descriptors :
          /\ Lowest(d)
          /\ table' = [table EXCEPT ![d] = Reserved]
          /\ reserved' = d
    /\ UNCHANGED <<queue, client_socket, phase, socket, file, server>>

Accept ==
    /\ server = "up"
    /\ reserved # NoDescriptor
    /\ queue # <<>>
    /\ table' = [table EXCEPT ![reserved] = Connection(Head(queue))]
    /\ client_socket' = reserved
    /\ reserved' = NoDescriptor
    /\ phase' = [phase EXCEPT ![Head(queue)] = "accepted"]
    /\ queue' = Tail(queue)
    /\ UNCHANGED <<socket, file, server>>

TableFull == reserved = NoDescriptor /\ \A d \in Descriptors : table[d] # Free

(* Variants: the error is stored as 0; the listening socket is closed, as  *)
(* after the errors of bind and listen.                                    *)
AcceptFailsWithZero ==
    /\ server = "up"
    /\ InLoop
    /\ TableFull
    /\ client_socket' = 0
    /\ UNCHANGED <<queue, table, reserved, phase, socket, file, server>>

AcceptFailsAndCloses ==
    /\ server = "up"
    /\ InLoop
    /\ TableFull
    /\ client_socket' = NoDescriptor
    /\ Close(server_socket)
    /\ UNCHANGED <<queue, reserved, phase, socket, file, server>>

(* With a full table accept fails at the call, whether or not anyone waits *)
(* in the queue; with another error it gives its descriptor back.  The     *)
(* loop stores -1 in client_socket, makes no thread and calls accept again.*)
AcceptFails ==
    /\ server = "up"
    /\ InLoop
    /\ client_socket' = NoDescriptor
    /\ \/ TableFull /\ UNCHANGED <<table, reserved>>
       \/ /\ AcceptErrors /\ reserved # NoDescriptor
          /\ table' = [table EXCEPT ![reserved] = Free]
          /\ reserved' = NoDescriptor
    /\ UNCHANGED <<queue, phase, socket, file, server>>

(* The thread is made and detached; the loop goes on to the next accept.   *)
MakeThread(c) ==
    /\ server = "up"
    /\ phase[c] = "accepted"
    /\ phase' = [phase EXCEPT ![c] = "born"]
    /\ UNCHANGED <<queue, table, reserved, client_socket, socket, file, server>>

(* The thread reads client_socket, which it has by reference: whatever is  *)
(* there by now.                                                           *)
StartWorker(c) ==
    /\ server = "up"
    /\ phase[c] = "born"
    /\ socket' = [socket EXCEPT ![c] = client_socket]
    /\ phase' = [phase EXCEPT ![c] = "serving"]
    /\ UNCHANGED <<queue, table, reserved, client_socket, file, server>>

(* The files of the login and of the handlers, one at a time.              *)
OpenFile(c) ==
    /\ server = "up"
    /\ phase[c] = "serving"
    /\ file[c] = NoDescriptor
    /\ \E d \in Descriptors :
          /\ Lowest(d)
          /\ table' = [table EXCEPT ![d] = File(c)]
          /\ file' = [file EXCEPT ![c] = d]
    /\ UNCHANGED <<queue, reserved, client_socket, phase, socket, server>>

CloseFile(c) ==
    /\ server = "up"
    /\ phase[c] = "serving"
    /\ file[c] # NoDescriptor
    /\ Close(file[c])
    /\ file' = [file EXCEPT ![c] = NoDescriptor]
    /\ UNCHANGED <<queue, reserved, client_socket, phase, socket, server>>

(* Variants: a return that waits for its own socket to be there; one that  *)
(* closes the socket, as a logout does.                                    *)
GivesUpOnOwn(c) ==
    /\ server = "up"
    /\ phase[c] = "serving"
    /\ file[c] = NoDescriptor
    /\ socket[c] # NoDescriptor /\ table[socket[c]] = Connection(c)
    /\ phase' = [phase EXCEPT ![c] = "ending"]
    /\ UNCHANGED <<queue, table, reserved, client_socket, socket, file, server>>

GivesUpAndCloses(c) ==
    /\ server = "up"
    /\ phase[c] = "serving"
    /\ file[c] = NoDescriptor
    /\ Close(socket[c])
    /\ phase' = [phase EXCEPT ![c] = "ending"]
    /\ UNCHANGED <<queue, reserved, client_socket, socket, file, server>>

(* A return of start() from the login or the command loop: the client has  *)
(* gone, or what was read is not a request, or the descriptor is no socket.*)
GivesUp(c) ==
    /\ server = "up"
    /\ phase[c] = "serving"
    /\ file[c] = NoDescriptor
    /\ phase' = [phase EXCEPT ![c] = "ending"]
    /\ UNCHANGED <<queue, table, reserved, client_socket, socket, file, server>>

(* After a logout start() closes the socket, and ~Worker will again.       *)
LogsOut(c) ==
    /\ server = "up"
    /\ Logouts
    /\ phase[c] = "serving"
    /\ file[c] = NoDescriptor
    /\ Close(socket[c])
    /\ phase' = [phase EXCEPT ![c] = "ending"]
    /\ UNCHANGED <<queue, reserved, client_socket, socket, file, server>>

(* A handler that returns -1: the socket is closed, and exit() ends every  *)
(* thread, a little later.                                                 *)
ClosesToExit(c) ==
    /\ server = "up"
    /\ phase[c] = "serving"
    /\ file[c] = NoDescriptor
    /\ Close(socket[c])
    /\ phase' = [phase EXCEPT ![c] = "exiting"]
    /\ UNCHANGED <<queue, reserved, client_socket, socket, file, server>>

ExitsServer(c) ==
    /\ server = "up"
    /\ phase[c] = "exiting"
    /\ server' = "exited"
    /\ UNCHANGED <<queue, table, reserved, client_socket, phase, socket, file>>

(* A variant: the socket is left open.                                     *)
DestroyWorkerOpen(c) ==
    /\ server = "up"
    /\ phase[c] = "ending"
    /\ phase' = [phase EXCEPT ![c] = "done"]
    /\ UNCHANGED <<queue, table, reserved, client_socket, socket, file, server>>

(* ~Worker                                                                 *)
DestroyWorker(c) ==
    /\ server = "up"
    /\ phase[c] = "ending"
    /\ Close(socket[c])
    /\ phase' = [phase EXCEPT ![c] = "done"]
    /\ UNCHANGED <<queue, reserved, client_socket, socket, file, server>>

-----------------------------------------------------------------------------
MainStep == CallAccept \/ Accept \/ AcceptFails \/ \E c \in Conns : MakeThread(c)

(* The part of a thread that ends whatever its client does, once that has  *)
(* gone.                                                                   *)
ThreadEnds(c) == StartWorker(c) \/ CloseFile(c) \/ GivesUp(c) \/ DestroyWorker(c)
                 \/ ExitsServer(c)

ThreadStep(c) == ThreadEnds(c) \/ OpenFile(c) \/ LogsOut(c) \/ ClosesToExit(c)

Next ==
    \/ \E c \in Conns : Connect(c)
    \/ MainStep
    \/ \E c \in Conns : ThreadStep(c)

(* The main thread and the workers are scheduled; and every client hangs   *)
(* up in the end, so that no worker serves, and opens files, for ever.     *)
Spec ==
    /\ Init /\ [][Next]_vars
    /\ WF_vars(MainStep)
    /\ \A c \in Conns : WF_vars(ThreadEnds(c)) /\ SF_vars(GivesUp(c))

-----------------------------------------------------------------------------
(* Properties.                                                             *)

(* The table has room for the listening socket, a connection and a file of *)
(* each client, and the descriptor of accept.                              *)
Roomy == MaxDescriptor > 2 * MaxClients + 1

(* A worker uses its own descriptors: its socket is the connection it was  *)
(* made for ("Create a new thread for each connected client",              *)
(* server.cpp:72), its file the one it opened.  So it is when clients come *)
(* spaced and do not log out, or one at a time, and accept does not fail,  *)
(* as the table is Roomy and AcceptErrors is FALSE.                        *)
OwnDescriptors ==
    \A c \in Conns : phase[c] = "serving" =>
        /\ socket[c] # NoDescriptor /\ table[socket[c]] = Connection(c)
        /\ file[c] # NoDescriptor => table[file[c]] = File(c)

(* A worker closes nothing but its own: the connection of another worker   *)
(* ends only with a step of that worker, and so does its file.             *)
ClosesOwn ==
    [][\A d \in Descriptors : table[d] \notin {Free, Reserved} /\ table'[d] = Free =>
          \E c \in Conns :
              \/ table[d] = Connection(c) /\ phase'[c] # phase[c]
              \/ table[d] = File(c) /\ file'[c] # file[c]]_vars

(* When no connection is left the process holds no descriptor but the      *)
(* listening socket and the one with which accept waits: none is leaked,   *)
(* whatever the sessions did, if clients come spaced or one at a time and  *)
(* accept does not fail.                                                   *)
NothingLeft ==
    AtWork = {} => \A d \in Descriptors \ {server_socket, reserved} : table[d] = Free

(* None of the stray closes ever hits the listening socket, and main goes  *)
(* on accepting.                                                           *)
ListenerStays == table[server_socket] = Listener

(* Every thread comes to its end, whatever descriptors it was left with.   *)
ThreadsEnd ==
    \A c \in Conns : phase[c] = "born" ~> phase[c] = "done" \/ server = "exited"

-----------------------------------------------------------------------------
(* Claims of the repository that the code does not keep.                   *)

(* "Create a new thread for each connected client" (server.cpp:72): no two *)
(* workers serve one connection.                                           *)
OneWorkerEach ==
    \A c, d \in Conns : c # d /\ phase[c] = "serving" /\ phase[d] = "serving" =>
        socket[c] # socket[d]

(* "Close communication socket with client and exit correctly"             *)
(* (worker.cpp:875): the end of one session leaves the others alone.       *)
EndsAlone ==
    [][\A c \in Conns :
          phase[c] = "serving" /\ phase'[c] = "serving" /\ server' = server
          /\ socket[c] # NoDescriptor /\ table[socket[c]] = Connection(c)
            => table'[socket[c]] = Connection(c)]_vars
=============================================================================

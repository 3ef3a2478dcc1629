-------------------------- MODULE AcceptLoopProofs --------------------------
(* Proofs about AcceptLoop, for every set of connections, every size of    *)
(* the descriptor table and every backlog.                                 *)
EXTENDS AcceptLoop, FiniteSetTheorems, FunctionTheorems, TLAPS

(* No client connects while another is on its way to its worker.           *)
Spaced == Arrivals = "spaced" \/ MaxClients = 1

(* When the descriptors of the workers do not get mixed up: the clients    *)
(* come one at a time, or spaced and without a logout.                     *)
Unmixed == MaxClients = 1 \/ (Arrivals = "spaced" /\ ~Logouts)

(* When accept does not fail: there is no other error, and no more clients *)
(* than the table has room for.                                            *)
Steady == Roomy /\ ~AcceptErrors

Waiting == {"queued", "accepted", "born"}

(* Only one connection is on its way to its worker, and it is the one in   *)
(* the queue.                                                              *)
QueueInv ==
    /\ queue # <<>> => \E c \in Conns : queue = <<c>> /\ phase[c] = "queued"
    /\ \A c \in Conns : phase[c] = "queued" => queue = <<c>>

ApartInv ==
    /\ \A c, d \in Conns :
          c # d /\ phase[c] \in Waiting => phase[d] \notin Waiting
    /\ MaxClients = 1 =>
          \A c, d \in Conns : c # d /\ phase[c] \notin {"away", "done"}
                                => phase[d] \in {"away", "done"}

(* No more clients are connected than may be.                              *)
Few == IsFiniteSet(AtWork) /\ Cardinality(AtWork) <= MaxClients

(* Where the descriptor of a connection is, from accept to close, unless   *)
(* its thread was left with -1.                                            *)
SocketInv ==
    \A c \in Conns :
        /\ phase[c] \in {"accepted", "born"} /\ client_socket # NoDescriptor =>
              /\ client_socket \in Descriptors
              /\ table[client_socket] = Connection(c)
        /\ (phase[c] = "serving" \/ (phase[c] = "ending" /\ ~Logouts))
              /\ socket[c] # NoDescriptor =>
              /\ socket[c] \in Descriptors
              /\ table[socket[c]] = Connection(c)

FileInv ==
    \A c \in Conns : file[c] # NoDescriptor =>
        /\ phase[c] = "serving"
        /\ file[c] \in Descriptors
        /\ table[file[c]] = File(c)

(* Nobody else has the descriptor with which accept waits.                 *)
ReservedInv == reserved # NoDescriptor => table[reserved] = Reserved

PhaseInv == phase \in [Conns -> Phases]

TableInv == /\ table \in [Descriptors -> Entries]
            /\ reserved \in Descriptors \cup {NoDescriptor}
            /\ socket \in [Conns -> Descriptors \cup {NoDescriptor}]
            /\ file \in [Conns -> Descriptors \cup {NoDescriptor}]

(* The order in which connections reach their workers.                     *)
OrderInv == PhaseInv /\ QueueInv /\ ApartInv /\ Few

IInv == OrderInv /\ TableInv /\ ReservedInv /\ SocketInv /\ FileInv

(* No thread was left with -1.                                             *)
FoundInv ==
    \A c \in Conns :
        /\ phase[c] \in {"accepted", "born"} => client_socket # NoDescriptor
        /\ phase[c] = "serving" => socket[c] # NoDescriptor

-----------------------------------------------------------------------------
(* What two descriptors stand for differs if their kinds or owners do.     *)
LEMMA EntriesDiffer ==
    ASSUME NEW c, NEW d
    PROVE  /\ Connection(c) \notin {Free, Listener, Reserved}
           /\ File(c) \notin {Free, Listener, Reserved}
           /\ Connection(c) # File(d)
           /\ c # d => Connection(c) # Connection(d) /\ File(c) # File(d)
<1>1. Connection(c).kind = "connection" /\ File(c).kind = "file"
      /\ Connection(c).of = c /\ File(c).of = c
  BY DEF Connection, File
<1>2. File(d).kind = "file" /\ Connection(d).of = d /\ File(d).of = d
  BY DEF Connection, File
<1>3. Free.kind = "free" /\ Listener.kind = "listener" /\ Reserved.kind = "reserved"
  BY DEF Free, Listener, Reserved
<1> QED BY <1>1, <1>2, <1>3

LEMMA PlainEntriesDiffer == Free # Listener /\ Free # Reserved /\ Listener # Reserved
<1>1. Free.kind = "free" /\ Listener.kind = "listener" /\ Reserved.kind = "reserved"
  BY DEF Free, Listener, Reserved
<1> QED BY <1>1

LEMMA EntriesType ==
    ASSUME NEW c \in Conns
    PROVE  /\ Free \in Entries /\ Listener \in Entries /\ Reserved \in Entries
           /\ Connection(c) \in Entries /\ File(c) \in Entries
BY DEF Entries

LEMMA NoDescriptorIsNone == NoDescriptor \notin Descriptors
BY AcceptAssumption DEF NoDescriptor, Descriptors, AcceptAssumption

(* A close changes the one entry, and not that of accept.                  *)
LEMMA CloseOne ==
    ASSUME NEW d, Close(d), TableInv
    PROVE  /\ table' \in [Descriptors -> Entries]
           /\ \A e \in Descriptors : e # d => table'[e] = table[e]
           /\ \A e \in Descriptors : table[e] = Reserved => table'[e] = Reserved
BY DEF Close, TableInv, Entries

-----------------------------------------------------------------------------
(* How many are at work.                                                   *)
LEMMA FewLess ==
    ASSUME Few, PhaseInv, NEW c \in Conns, NEW p,
           phase[c] \notin {"away", "done"}, phase' = [phase EXCEPT ![c] = p]
    PROVE  Few'
<1>1. AtWork' \in SUBSET AtWork
  BY DEF AtWork, PhaseInv
<1>2. /\ IsFiniteSet(AtWork') /\ Cardinality(AtWork') <= Cardinality(AtWork)
      /\ Cardinality(AtWork) \in Nat /\ Cardinality(AtWork') \in Nat
  BY <1>1, FS_Subset, FS_CardinalityType DEF Few
<1> QED BY <1>2, AcceptAssumption DEF Few, AcceptAssumption

LEMMA FewMore ==
    ASSUME Few, PhaseInv, NEW c \in Conns, CanArrive,
           phase[c] = "away", phase' = [phase EXCEPT ![c] = "queued"]
    PROVE  Few'
<1>1. AtWork' = AtWork \cup {c} /\ c \notin AtWork
  BY DEF AtWork, PhaseInv
<1>2. IsFiniteSet(AtWork') /\ Cardinality(AtWork') = Cardinality(AtWork) + 1
  BY <1>1, FS_AddElement DEF Few
<1>3. Cardinality(AtWork) \in Nat /\ Cardinality(AtWork) < MaxClients
  BY FS_CardinalityType DEF Few, CanArrive
<1> QED BY <1>2, <1>3, AcceptAssumption DEF Few, AcceptAssumption

(* Whoever connects where only one may be connected finds nobody at work.  *)
LEMMA OnlyOne ==
    ASSUME Few, MaxClients = 1, CanArrive PROVE AtWork = {}
<1>1. Cardinality(AtWork) \in Nat /\ Cardinality(AtWork) < 1
  BY FS_CardinalityType DEF Few, CanArrive
<1>2. Cardinality(AtWork) = 0
  BY <1>1
<1> QED BY <1>2, FS_EmptySet DEF Few

-----------------------------------------------------------------------------
LEMMA InitInv == Init => IInv /\ FoundInv
<1> SUFFICES ASSUME Init PROVE IInv /\ FoundInv
  OBVIOUS
<1>1. PhaseInv /\ QueueInv /\ ApartInv /\ SocketInv /\ FoundInv
  BY DEF Init, PhaseInv, Phases, QueueInv, ApartInv, Waiting, SocketInv, FoundInv
<1>2. TableInv /\ FileInv /\ ReservedInv
  BY DEF Init, TableInv, FileInv, ReservedInv, Entries
<1>3. Few
  <2>1. AtWork = {}
    BY DEF Init, AtWork
  <2> QED BY <2>1, FS_EmptySet, AcceptAssumption DEF Few, AcceptAssumption
<1> QED BY <1>1, <1>2, <1>3 DEF IInv, OrderInv

(* Connecting, when not everyone may at once.                              *)
LEMMA ConnectOrder ==
    ASSUME OrderInv, Spaced, NEW c \in Conns, Connect(c)
    PROVE  /\ OrderInv'
           /\ phase[c] = "away" /\ phase'[c] = "queued"
           /\ \A d \in Conns : d # c => phase'[d] = phase[d]
<1>1. PhaseInv'
  BY DEF OrderInv, Connect, PhaseInv, Phases
<1>2. /\ phase[c] = "away" /\ phase'[c] = "queued"
      /\ \A d \in Conns : d # c => phase'[d] = phase[d]
  BY DEF OrderInv, Connect, PhaseInv
<1>3. MaxClients = 1 => \A d \in Conns : phase[d] \in {"away", "done"}
  BY OnlyOne DEF Connect, OrderInv, AtWork
<1>4. \A d \in Conns : phase[d] \in {"away", "done", "serving", "exiting", "ending"}
  BY <1>3 DEF Spaced, Connect, CanArrive, AtWork
<1>5. queue' = <<c>>
  <2>1. queue = <<>>
    BY <1>4 DEF OrderInv, QueueInv
  <2> QED BY <2>1 DEF Connect
<1>6. QueueInv'
  BY <1>2, <1>4, <1>5 DEF QueueInv
<1>7. ApartInv'
  BY <1>2, <1>3, <1>4 DEF ApartInv, Waiting
<1>8. Few'
  BY FewMore DEF Connect, OrderInv
<1> QED BY <1>1, <1>2, <1>6, <1>7, <1>8 DEF OrderInv

LEMMA ConnectInv ==
    ASSUME IInv, Spaced, NEW c \in Conns, Connect(c)
    PROVE  IInv' /\ (FoundInv => FoundInv')
<1>1. /\ OrderInv' /\ phase[c] = "away" /\ phase'[c] = "queued"
      /\ \A d \in Conns : d # c => phase'[d] = phase[d]
  BY ConnectOrder DEF IInv
<1>2. TableInv' /\ ReservedInv'
  BY DEF IInv, Connect, TableInv, ReservedInv
<1>3. SocketInv' /\ FileInv'
  BY <1>1 DEF IInv, SocketInv, FileInv, Connect
<1>4. FoundInv => FoundInv'
  BY <1>1 DEF FoundInv, Connect
<1> QED BY <1>1, <1>2, <1>3, <1>4 DEF IInv

(* The main thread.                                                        *)
LEMMA CallAcceptInv ==
    ASSUME IInv, CallAccept PROVE IInv' /\ (FoundInv => FoundInv')
<1> PICK d \in Descriptors :
        Lowest(d) /\ table' = [table EXCEPT ![d] = Reserved] /\ reserved' = d
  BY DEF CallAccept
<1>1. /\ TableInv'
      /\ table'[d] = Reserved /\ table[d] = Free
      /\ \A e \in Descriptors : e # d => table'[e] = table[e]
  BY DEF CallAccept, IInv, TableInv, Lowest, Entries
<1>2. ReservedInv'
  BY <1>1 DEF ReservedInv
<1>3. SocketInv' /\ FileInv'
  BY <1>1, EntriesDiffer DEF IInv, SocketInv, FileInv, CallAccept
<1>4. OrderInv' /\ (FoundInv => FoundInv')
  BY DEF CallAccept, IInv, OrderInv, PhaseInv, QueueInv, ApartInv, Few, AtWork, FoundInv
<1> QED BY <1>1, <1>2, <1>3, <1>4 DEF IInv

(* The connection at the head of the queue goes on its way.                *)
LEMMA AcceptOrder ==
    ASSUME OrderInv, Accept
    PROVE  /\ OrderInv'
           /\ \E c \in Conns :
                 /\ Head(queue) = c /\ phase[c] = "queued" /\ phase'[c] = "accepted"
                 /\ \A e \in Conns : e # c => phase'[e] = phase[e] /\ phase[e] \notin Waiting
<1> PICK c \in Conns : queue = <<c>> /\ phase[c] = "queued"
  BY DEF Accept, OrderInv, QueueInv
<1>1. Head(queue) = c /\ queue' = <<>>
  BY DEF Accept
<1>2. /\ phase' = [phase EXCEPT ![c] = "accepted"]
      /\ phase'[c] = "accepted"
      /\ \A e \in Conns : e # c => phase'[e] = phase[e] /\ phase[e] \notin Waiting
  BY <1>1 DEF Accept, OrderInv, PhaseInv, ApartInv, Waiting
<1>3. PhaseInv'
  BY <1>2 DEF OrderInv, PhaseInv, Phases
<1>4. QueueInv'
  BY <1>1, <1>2 DEF QueueInv, Waiting
<1>5. ApartInv'
  BY <1>2 DEF OrderInv, ApartInv, Waiting
<1>6. Few'
  BY <1>2, FewLess DEF OrderInv
<1> QED BY <1>1, <1>2, <1>3, <1>4, <1>5, <1>6 DEF OrderInv

LEMMA AcceptInv ==
    ASSUME IInv, Accept PROVE IInv' /\ (FoundInv => FoundInv')
<1>1. OrderInv'
  BY AcceptOrder DEF IInv
<1> PICK c \in Conns :
        /\ Head(queue) = c /\ phase[c] = "queued" /\ phase'[c] = "accepted"
        /\ \A e \in Conns : e # c => phase'[e] = phase[e] /\ phase[e] \notin Waiting
  BY AcceptOrder DEF IInv
<1>2. reserved \in Descriptors /\ table[reserved] = Reserved
  BY DEF Accept, IInv, TableInv, ReservedInv
<1>3. /\ TableInv'
      /\ table'[reserved] = Connection(c)
      /\ \A e \in Descriptors : e # reserved => table'[e] = table[e]
  BY <1>2, EntriesType DEF Accept, IInv, TableInv
<1>4. ReservedInv'
  BY DEF Accept, ReservedInv
<1>5. UNCHANGED <<socket, file>> /\ client_socket' = reserved
  BY DEF Accept
<1>7. SocketInv'
  BY <1>2, <1>3, <1>5, EntriesDiffer DEF IInv, SocketInv, Waiting
<1>8. FileInv'
  BY <1>2, <1>3, <1>5, EntriesDiffer DEF IInv, FileInv
<1>6. FoundInv => FoundInv'
  BY <1>2, NoDescriptorIsNone DEF FoundInv, Accept
<1> QED BY <1>1, <1>3, <1>4, <1>6, <1>7, <1>8 DEF IInv

LEMMA AcceptFailsInv ==
    ASSUME IInv, AcceptFails PROVE IInv'
<1>1. OrderInv'
  BY DEF AcceptFails, IInv, OrderInv, PhaseInv, QueueInv, ApartInv, Few, AtWork
<1>2. CASE UNCHANGED <<table, reserved>>
  BY <1>1, <1>2 DEF AcceptFails, IInv, TableInv, ReservedInv, SocketInv, FileInv
<1>3. CASE /\ reserved # NoDescriptor
           /\ table' = [table EXCEPT ![reserved] = Free]
           /\ reserved' = NoDescriptor
  <2>1. reserved \in Descriptors /\ table[reserved] = Reserved
    BY <1>3 DEF IInv, TableInv, ReservedInv
  <2>2. /\ table' \in [Descriptors -> Entries]
        /\ \A e \in Descriptors : e # reserved => table'[e] = table[e]
    BY <1>3, <2>1 DEF IInv, TableInv, Entries
  <2>3. TableInv' /\ ReservedInv'
    BY <1>3, <2>2 DEF AcceptFails, IInv, TableInv, ReservedInv
  <2>4. SocketInv' /\ FileInv'
    BY <2>1, <2>2, EntriesDiffer DEF AcceptFails, IInv, SocketInv, FileInv
  <2> QED BY <1>1, <2>3, <2>4 DEF IInv
<1> QED BY <1>2, <1>3 DEF AcceptFails

LEMMA MakeThreadOrder ==
    ASSUME OrderInv, NEW c \in Conns, MakeThread(c)
    PROVE  /\ OrderInv'
           /\ phase[c] = "accepted" /\ phase'[c] = "born"
           /\ \A d \in Conns : d # c => phase'[d] = phase[d]
<1>1. /\ phase[c] = "accepted" /\ phase'[c] = "born"
      /\ \A d \in Conns : d # c => phase'[d] = phase[d]
  BY DEF MakeThread, OrderInv, PhaseInv
<1>2. PhaseInv'
  BY DEF MakeThread, OrderInv, PhaseInv, Phases
<1>3. QueueInv'
  BY <1>1 DEF MakeThread, OrderInv, QueueInv
<1>4. ApartInv'
  BY <1>1 DEF OrderInv, ApartInv, Waiting
<1>5. Few'
  BY <1>1, FewLess DEF MakeThread, OrderInv
<1> QED BY <1>1, <1>2, <1>3, <1>4, <1>5 DEF OrderInv

LEMMA MakeThreadInv ==
    ASSUME IInv, NEW c \in Conns, MakeThread(c)
    PROVE  IInv' /\ (FoundInv => FoundInv')
<1>1. /\ OrderInv' /\ phase[c] = "accepted" /\ phase'[c] = "born"
      /\ \A d \in Conns : d # c => phase'[d] = phase[d]
  BY MakeThreadOrder DEF IInv
<1>2. TableInv' /\ ReservedInv'
  BY DEF MakeThread, IInv, TableInv, ReservedInv
<1>3. SocketInv' /\ FileInv' /\ (FoundInv => FoundInv')
  BY <1>1 DEF MakeThread, IInv, SocketInv, FileInv, FoundInv
<1> QED BY <1>1, <1>2, <1>3 DEF IInv

-----------------------------------------------------------------------------
(* The threads.                                                            *)

(* A step of a thread that serves, from "born" on, leaves the queue and    *)
(* the order of arrivals as they are.                                      *)
LEMMA ThreadKeepsApart ==
    ASSUME OrderInv, NEW c \in Conns, NEW p \in {"serving", "exiting", "ending", "done"},
           phase[c] \in {"born", "serving", "exiting", "ending"},
           phase' = [phase EXCEPT ![c] = p], UNCHANGED queue
    PROVE  /\ OrderInv'
           /\ phase'[c] = p
           /\ \A d \in Conns : d # c => phase'[d] = phase[d]
<1>1. /\ phase'[c] = p
      /\ \A d \in Conns : d # c => phase'[d] = phase[d]
  BY DEF OrderInv, PhaseInv
<1>2. PhaseInv'
  BY DEF OrderInv, PhaseInv, Phases
<1>3. QueueInv'
  BY <1>1 DEF OrderInv, QueueInv
<1>4. ApartInv'
  BY <1>1 DEF OrderInv, ApartInv, Waiting
<1>5. Few'
  BY FewLess DEF OrderInv
<1> QED BY <1>1, <1>2, <1>3, <1>4, <1>5 DEF OrderInv

LEMMA StartWorkerInv ==
    ASSUME IInv, NEW c \in Conns, StartWorker(c)
    PROVE  IInv' /\ (FoundInv => FoundInv')
<1>1. /\ OrderInv' /\ phase[c] = "born" /\ phase'[c] = "serving"
      /\ \A d \in Conns : d # c => phase'[d] = phase[d]
  BY ThreadKeepsApart DEF StartWorker, IInv
<1>2. client_socket # NoDescriptor =>
          client_socket \in Descriptors /\ table[client_socket] = Connection(c)
  BY <1>1 DEF IInv, SocketInv
<1>3. /\ TableInv' /\ ReservedInv' /\ socket'[c] = client_socket
      /\ \A d \in Conns : d # c => socket'[d] = socket[d]
  BY <1>2 DEF StartWorker, IInv, TableInv, ReservedInv
<1>4. SocketInv'
  BY <1>1, <1>2, <1>3 DEF StartWorker, IInv, SocketInv
<1>5. FileInv' /\ (FoundInv => FoundInv')
  BY <1>1, <1>3 DEF StartWorker, IInv, FileInv, FoundInv
<1> QED BY <1>1, <1>3, <1>4, <1>5 DEF IInv

LEMMA OpenFileInv ==
    ASSUME IInv, NEW c \in Conns, OpenFile(c)
    PROVE  IInv' /\ (FoundInv => FoundInv')
<1> PICK d \in Descriptors :
        /\ Lowest(d)
        /\ table' = [table EXCEPT ![d] = File(c)]
        /\ file' = [file EXCEPT ![c] = d]
  BY DEF OpenFile
<1>1. /\ TableInv'
      /\ table'[d] = File(c) /\ table[d] = Free
      /\ \A e \in Descriptors : e # d => table'[e] = table[e]
      /\ file'[c] = d /\ \A e \in Conns : e # c => file'[e] = file[e]
  BY EntriesType DEF OpenFile, IInv, TableInv, Lowest
<1>2. SocketInv'
  BY <1>1, EntriesDiffer DEF OpenFile, IInv, SocketInv
<1>3. FileInv'
  BY <1>1, EntriesDiffer DEF OpenFile, IInv, FileInv
<1>4. ReservedInv'
  BY <1>1, PlainEntriesDiffer DEF OpenFile, IInv, TableInv, ReservedInv
<1>5. OrderInv' /\ (FoundInv => FoundInv')
  BY DEF OpenFile, IInv, OrderInv, PhaseInv, QueueInv, ApartInv, Few, AtWork, FoundInv
<1> QED BY <1>1, <1>2, <1>3, <1>4, <1>5 DEF IInv

LEMMA CloseFileInv ==
    ASSUME IInv, NEW c \in Conns, CloseFile(c)
    PROVE  IInv' /\ (FoundInv => FoundInv')
<1>1. file[c] \in Descriptors /\ table[file[c]] = File(c)
  BY DEF CloseFile, IInv, FileInv
<1>2. /\ table' \in [Descriptors -> Entries]
      /\ \A e \in Descriptors : e # file[c] => table'[e] = table[e]
      /\ \A e \in Descriptors : table[e] = Reserved => table'[e] = Reserved
  BY CloseOne DEF CloseFile, IInv
<1>3. /\ TableInv' /\ ReservedInv'
      /\ file'[c] = NoDescriptor /\ \A e \in Conns : e # c => file'[e] = file[e]
  BY <1>2 DEF CloseFile, IInv, TableInv, ReservedInv
<1>4. SocketInv'
  BY <1>1, <1>2, EntriesDiffer DEF CloseFile, IInv, SocketInv
<1>5. FileInv'
  BY <1>1, <1>2, <1>3, EntriesDiffer DEF CloseFile, IInv, FileInv
<1>6. OrderInv' /\ (FoundInv => FoundInv')
  BY DEF CloseFile, IInv, OrderInv, PhaseInv, QueueInv, ApartInv, Few, AtWork, FoundInv
<1> QED BY <1>3, <1>4, <1>5, <1>6 DEF IInv

LEMMA GivesUpInv ==
    ASSUME IInv, NEW c \in Conns, GivesUp(c)
    PROVE  IInv' /\ (FoundInv => FoundInv')
<1>1. /\ OrderInv' /\ phase[c] = "serving" /\ phase'[c] = "ending"
      /\ \A d \in Conns : d # c => phase'[d] = phase[d]
  BY ThreadKeepsApart DEF GivesUp, IInv
<1>2. TableInv' /\ ReservedInv' /\ SocketInv' /\ FileInv' /\ (FoundInv => FoundInv')
  BY <1>1 DEF GivesUp, IInv, TableInv, ReservedInv, SocketInv, FileInv, FoundInv
<1> QED BY <1>1, <1>2 DEF IInv

(* A close of a descriptor that no other worker holds, with which the      *)
(* worker stops using it.                                                  *)
LEMMA SocketCloseInv ==
    ASSUME Unmixed, IInv, NEW c \in Conns, NEW p \in {"exiting", "ending", "done"},
           phase[c] \in {"serving", "ending"}, file[c] = NoDescriptor,
           p = "ending" => Logouts,
           phase' = [phase EXCEPT ![c] = p],
           Close(socket[c]),
           UNCHANGED <<queue, reserved, client_socket, socket, file>>
    PROVE  IInv' /\ (FoundInv => FoundInv')
<1>1. /\ OrderInv' /\ phase'[c] = p
      /\ \A d \in Conns : d # c => phase'[d] = phase[d]
  BY ThreadKeepsApart DEF IInv
<1>2. /\ table' \in [Descriptors -> Entries]
      /\ \A e \in Descriptors : e # socket[c] => table'[e] = table[e]
      /\ \A e \in Descriptors : table[e] = Reserved => table'[e] = Reserved
  BY CloseOne DEF IInv
<1>3. TableInv' /\ ReservedInv'
  BY <1>2 DEF IInv, TableInv, ReservedInv
<1>4. FoundInv => FoundInv'
  BY <1>1 DEF FoundInv
<1>5. CASE MaxClients = 1
  <2>1. \A d \in Conns : d # c => phase'[d] \in {"away", "done"}
    BY <1>1, <1>5 DEF IInv, OrderInv, ApartInv
  <2>2. SocketInv' /\ FileInv'
    BY <2>1, <1>1, <1>5 DEF IInv, SocketInv, FileInv
  <2> QED BY <1>1, <1>3, <1>4, <2>2 DEF IInv
<1>6. CASE MaxClients # 1
  <2>1. socket[c] # NoDescriptor =>
            socket[c] \in Descriptors /\ table[socket[c]] = Connection(c)
    BY <1>6 DEF IInv, SocketInv, Unmixed
  <2>2. \A e \in Conns, d \in Descriptors :
            (e # c /\ table[d] = Connection(e)) \/ table[d] = File(e) => d # socket[c]
    BY <2>1, EntriesDiffer, NoDescriptorIsNone
  <2>3. SocketInv'
    BY <1>1, <1>2, <1>6, <2>2 DEF IInv, SocketInv, Unmixed
  <2>4. FileInv'
    BY <1>1, <1>2, <2>2 DEF IInv, FileInv
  <2> QED BY <1>1, <1>3, <1>4, <2>3, <2>4 DEF IInv
<1> QED BY <1>5, <1>6

(* Only a failure of accept can leave a thread with -1.                    *)
LEMMA NextInv ==
    Unmixed /\ IInv /\ [Next]_vars => IInv' /\ (FoundInv /\ ~AcceptFails => FoundInv')
<1> SUFFICES ASSUME Unmixed, IInv, [Next]_vars
             PROVE  IInv' /\ (FoundInv /\ ~AcceptFails => FoundInv')
  OBVIOUS
<1>1. ASSUME NEW c \in Conns, Connect(c) PROVE IInv' /\ (FoundInv => FoundInv')
  BY <1>1, ConnectInv DEF Unmixed, Spaced
<1>2. CASE CallAccept
  BY <1>2, CallAcceptInv
<1>3. CASE Accept
  BY <1>3, AcceptInv
<1>4. CASE AcceptFails
  BY <1>4, AcceptFailsInv
<1>5. ASSUME NEW c \in Conns, MakeThread(c) PROVE IInv' /\ (FoundInv => FoundInv')
  BY <1>5, MakeThreadInv
<1>6. ASSUME NEW c \in Conns, ThreadStep(c) PROVE IInv' /\ (FoundInv => FoundInv')
  <2>1. CASE StartWorker(c)
    BY <2>1, StartWorkerInv
  <2>2. CASE OpenFile(c)
    BY <2>2, OpenFileInv
  <2>3. CASE CloseFile(c)
    BY <2>3, CloseFileInv
  <2>4. CASE GivesUp(c)
    BY <2>4, GivesUpInv
  <2>5. CASE LogsOut(c)
    BY <2>5, SocketCloseInv DEF LogsOut
  <2>6. CASE ClosesToExit(c)
    BY <2>6, SocketCloseInv DEF ClosesToExit
  <2>7. CASE ExitsServer(c)
    BY <2>7 DEF ExitsServer, IInv, OrderInv, PhaseInv, TableInv, QueueInv, ApartInv,
                Few, AtWork, ReservedInv, SocketInv, FileInv, FoundInv
  <2>8. CASE DestroyWorker(c)
    <3>1. file[c] = NoDescriptor
      BY <2>8 DEF DestroyWorker, IInv, FileInv
    <3> QED BY <2>8, <3>1, SocketCloseInv DEF DestroyWorker
  <2> QED
    BY <1>6, <2>1, <2>2, <2>3, <2>4, <2>5, <2>6, <2>7, <2>8
       DEF ThreadStep, ThreadEnds
<1>7. CASE UNCHANGED vars
  BY <1>7 DEF vars, IInv, OrderInv, PhaseInv, TableInv, QueueInv, ApartInv,
              Few, AtWork, ReservedInv, SocketInv, FileInv, FoundInv
<1> QED BY <1>1, <1>2, <1>3, <1>4, <1>5, <1>6, <1>7 DEF Next, MainStep

(* As long as connections come apart and nobody logs out, no worker closes *)
(* the descriptor of another, also if accept fails or the table is full:   *)
(* the one close of each is enough.                                        *)
THEOREM WorkersCloseTheirOwn ==
    ASSUME Arrivals = "spaced", ~Logouts PROVE Spec => ClosesOwn
<1> Unmixed
  BY DEF Unmixed
<1>1. Init => IInv
  BY InitInv
<1>2. IInv /\ [Next]_vars => IInv'
  BY NextInv
<1> DEFINE Own ==
        \A d \in Descriptors : table[d] \notin {Free, Reserved} /\ table'[d] = Free =>
          \E c \in Conns :
              \/ table[d] = Connection(c) /\ phase'[c] # phase[c]
              \/ table[d] = File(c) /\ file'[c] # file[c]
<1>3. IInv /\ [Next]_vars => [Own]_vars
  <2> SUFFICES ASSUME IInv, Next PROVE Own
    OBVIOUS
  <2> SUFFICES ASSUME NEW d \in Descriptors, table[d] \notin {Free, Reserved}, table'[d] = Free
               PROVE  \E c \in Conns :
                        \/ table[d] = Connection(c) /\ phase'[c] # phase[c]
                        \/ table[d] = File(c) /\ file'[c] # file[c]
    OBVIOUS
  <2>1. ~ UNCHANGED table
    OBVIOUS
  <2>2. ASSUME NEW e \in Descriptors, NEW x \in Entries \ {Free},
               table' = [table EXCEPT ![e] = x]
        PROVE  FALSE
    BY <2>2 DEF IInv, TableInv
  <2>3. ~ Accept
    <3> SUFFICES ASSUME Accept PROVE FALSE
      OBVIOUS
    <3>1. Head(queue) \in Conns /\ reserved \in Descriptors
      BY AcceptOrder DEF Accept, IInv, TableInv
    <3> QED BY <3>1, <2>2, EntriesType, EntriesDiffer DEF Accept
  <2>4. ~ CallAccept
    BY <2>2, PlainEntriesDiffer DEF CallAccept, Entries
  <2>5. ~ AcceptFails
    <3>1. CASE reserved # NoDescriptor /\ table' = [table EXCEPT ![reserved] = Free]
      <4>1. reserved \in Descriptors /\ table[reserved] = Reserved /\ d # reserved
        BY <3>1 DEF IInv, TableInv, ReservedInv
      <4> QED BY <3>1, <4>1 DEF IInv, TableInv
    <3> QED BY <2>1, <3>1 DEF AcceptFails
  <2>6. ASSUME NEW c \in Conns, OpenFile(c) PROVE FALSE
    BY <2>2, <2>6, EntriesType, EntriesDiffer DEF OpenFile
  <2>7. ASSUME NEW c \in Conns, CloseFile(c)
        PROVE  table[d] = File(c) /\ file'[c] # file[c]
    <3>1. file[c] \in Descriptors /\ table[file[c]] = File(c)
      BY <2>7 DEF CloseFile, IInv, FileInv
    <3>2. d = file[c]
      BY <2>7, CloseOne DEF CloseFile, IInv
    <3>3. file'[c] = NoDescriptor
      BY <2>7 DEF CloseFile, IInv, TableInv
    <3> QED BY <3>1, <3>2, <3>3, NoDescriptorIsNone
  <2>8. ASSUME NEW c \in Conns, ClosesToExit(c) \/ DestroyWorker(c)
        PROVE  table[d] = Connection(c) /\ phase'[c] # phase[c]
    <3>1. d = socket[c]
      BY <2>8, CloseOne DEF ClosesToExit, DestroyWorker, IInv
    <3>2. phase'[c] # phase[c] /\ phase[c] \in {"serving", "ending"}
      BY <2>8 DEF ClosesToExit, DestroyWorker, IInv, OrderInv, PhaseInv
    <3>3. table[socket[c]] = Connection(c)
      BY <3>1, <3>2, NoDescriptorIsNone DEF IInv, SocketInv
    <3> QED BY <3>1, <3>2, <3>3
  <2>9. (\E c \in Conns : CloseFile(c) \/ ClosesToExit(c) \/ DestroyWorker(c))
        \/ Accept \/ CallAccept \/ AcceptFails \/ \E c \in Conns : OpenFile(c)
    BY <2>1 DEF Next, MainStep, ThreadStep, ThreadEnds, Connect,
                MakeThread, StartWorker, GivesUp, LogsOut, ExitsServer
  <2> QED BY <2>3, <2>4, <2>5, <2>6, <2>7, <2>8, <2>9
<1> QED BY <1>1, <1>2, <1>3, PTL DEF Spec, ClosesOwn

-----------------------------------------------------------------------------
(* The types, whatever the descriptors are mixed up with.                  *)
LEMMA EntryStored ==
    ASSUME TypeOK, NEW d \in Descriptors, NEW e \in Entries,
           table' = [table EXCEPT ![d] = e]
    PROVE  table' \in [Descriptors -> Entries]
BY DEF TypeOK

LEMMA CloseStored ==
    ASSUME TypeOK, NEW d, Close(d) PROVE table' \in [Descriptors -> Entries]
BY DEF TypeOK, Close, Entries

LEMMA TypeStep == TypeOK /\ [Next]_vars => TypeOK'
<1> SUFFICES ASSUME TypeOK, [Next]_vars PROVE TypeOK'
  OBVIOUS
<1>1. CASE UNCHANGED vars
  BY <1>1 DEF vars, TypeOK
<1>2. ASSUME NEW c \in Conns, Connect(c) PROVE TypeOK'
  BY <1>2 DEF Connect, TypeOK, Phases
<1>3. CASE Accept
  <2>1. Head(queue) \in Conns /\ Tail(queue) \in Seq(Conns) /\ reserved \in Descriptors
    BY <1>3 DEF Accept, TypeOK
  <2>2. table' \in [Descriptors -> Entries]
    BY <1>3, <2>1, EntriesType, EntryStored DEF Accept
  <2> QED BY <1>3, <2>1, <2>2 DEF Accept, TypeOK, Phases
<1>4. CASE CallAccept
  <2>1. PICK d \in Descriptors : table' = [table EXCEPT ![d] = Reserved] /\ reserved' = d
    BY <1>4 DEF CallAccept
  <2>2. table' \in [Descriptors -> Entries]
    BY <2>1, EntryStored DEF Entries
  <2> QED BY <1>4, <2>1, <2>2 DEF CallAccept, TypeOK
<1>8. CASE AcceptFails
  <2>1. CASE reserved # NoDescriptor /\ table' = [table EXCEPT ![reserved] = Free]
    <3>1. table' \in [Descriptors -> Entries]
      BY <2>1, EntryStored DEF TypeOK, Entries
    <3> QED BY <1>8, <3>1 DEF AcceptFails, TypeOK
  <2> QED BY <1>8, <2>1 DEF AcceptFails, TypeOK
<1>5. ASSUME NEW c \in Conns, MakeThread(c) \/ StartWorker(c) \/ GivesUp(c) \/ ExitsServer(c)
      PROVE  TypeOK'
  BY <1>5 DEF MakeThread, StartWorker, GivesUp, ExitsServer, TypeOK, Phases
<1>6. ASSUME NEW c \in Conns, OpenFile(c) PROVE TypeOK'
  <2>1. PICK d \in Descriptors :
           table' = [table EXCEPT ![d] = File(c)] /\ file' = [file EXCEPT ![c] = d]
    BY <1>6 DEF OpenFile
  <2>2. table' \in [Descriptors -> Entries]
    BY <2>1, EntriesType, EntryStored
  <2> QED BY <1>6, <2>1, <2>2 DEF OpenFile, TypeOK
<1>7. ASSUME NEW c \in Conns, CloseFile(c) \/ LogsOut(c) \/ ClosesToExit(c) \/ DestroyWorker(c)
      PROVE  TypeOK'
  <2>1. table' \in [Descriptors -> Entries]
    BY <1>7, CloseStored DEF CloseFile, LogsOut, ClosesToExit, DestroyWorker
  <2> QED BY <1>7, <2>1 DEF CloseFile, LogsOut, ClosesToExit, DestroyWorker, TypeOK, Phases
<1> QED
  BY <1>1, <1>2, <1>3, <1>4, <1>5, <1>6, <1>7, <1>8 DEF Next, MainStep, ThreadStep, ThreadEnds

LEMMA TypeInit == Init => TypeOK
BY DEF Init, TypeOK, Entries, Phases

(* The variables keep their types, also when client_socket and the sockets *)
(* of the workers stand for somebody else's connection or for nothing.     *)
THEOREM AcceptTypes == Spec => []TypeOK
BY TypeInit, TypeStep, PTL DEF Spec

-----------------------------------------------------------------------------
(* No worker ever has the number of the listening socket, so that nothing  *)
(* that a worker closes, once or twice, its own or not, can hit it.        *)
ListenerInv ==
    /\ ListenerStays
    /\ client_socket # server_socket /\ reserved # server_socket
    /\ \A c \in Conns : socket[c] # server_socket /\ file[c] # server_socket

LEMMA ListenerStep == TypeOK /\ ListenerInv /\ [Next]_vars => ListenerInv'
<1> SUFFICES ASSUME TypeOK, ListenerInv, [Next]_vars PROVE ListenerInv'
  OBVIOUS
<1>0. server_socket \in Descriptors /\ NoDescriptor # server_socket
  BY AcceptAssumption DEF AcceptAssumption, Descriptors, server_socket, NoDescriptor
<1>2. ASSUME NEW d \in Descriptors, Lowest(d) PROVE d # server_socket
  BY <1>2, PlainEntriesDiffer DEF Lowest, ListenerInv, ListenerStays
<1>3. ASSUME NEW d, d # server_socket, Close(d) PROVE ListenerStays'
  BY <1>0, <1>3 DEF Close, TypeOK, ListenerInv, ListenerStays
<1>4. CASE UNCHANGED vars
  BY <1>4 DEF vars, ListenerInv, ListenerStays
<1>1. CASE CallAccept
  <2>1. PICK d \in Descriptors :
           Lowest(d) /\ table' = [table EXCEPT ![d] = Reserved] /\ reserved' = d
    BY <1>1 DEF CallAccept
  <2>2. d # server_socket
    BY <1>2, <2>1
  <2> QED BY <1>0, <1>1, <2>1, <2>2 DEF CallAccept, TypeOK, ListenerInv, ListenerStays
<1>5. CASE Accept
  BY <1>0, <1>5 DEF Accept, TypeOK, ListenerInv, ListenerStays
<1>6. CASE AcceptFails
  BY <1>0, <1>6 DEF AcceptFails, TypeOK, ListenerInv, ListenerStays
<1>7. ASSUME NEW c \in Conns, Connect(c) \/ MakeThread(c) \/ GivesUp(c) \/ ExitsServer(c)
      PROVE  ListenerInv'
  BY <1>7 DEF Connect, MakeThread, GivesUp, ExitsServer, ListenerInv, ListenerStays
<1>8. ASSUME NEW c \in Conns, StartWorker(c) PROVE ListenerInv'
  BY <1>8 DEF StartWorker, TypeOK, ListenerInv, ListenerStays
<1>9. ASSUME NEW c \in Conns, OpenFile(c) PROVE ListenerInv'
  <2>1. PICK d \in Descriptors :
           /\ Lowest(d) /\ table' = [table EXCEPT ![d] = File(c)]
           /\ file' = [file EXCEPT ![c] = d]
    BY <1>9 DEF OpenFile
  <2>2. d # server_socket
    BY <1>2, <2>1
  <2> QED BY <1>0, <1>9, <2>1, <2>2 DEF OpenFile, TypeOK, ListenerInv, ListenerStays
<1>10. ASSUME NEW c \in Conns, CloseFile(c) PROVE ListenerInv'
  <2>1. ListenerStays'
    BY <1>3, <1>10 DEF CloseFile, ListenerInv
  <2> QED BY <1>0, <1>10, <2>1 DEF CloseFile, TypeOK, ListenerInv
<1>11. ASSUME NEW c \in Conns, LogsOut(c) \/ ClosesToExit(c) \/ DestroyWorker(c)
       PROVE  ListenerInv'
  <2>1. ListenerStays'
    BY <1>3, <1>11 DEF LogsOut, ClosesToExit, DestroyWorker, ListenerInv
  <2> QED BY <1>11, <2>1 DEF LogsOut, ClosesToExit, DestroyWorker, ListenerInv
<1> QED
  BY <1>1, <1>4, <1>5, <1>6, <1>7, <1>8, <1>9, <1>10, <1>11
     DEF Next, MainStep, ThreadStep, ThreadEnds

(* No stray close hits the listening socket, however the clients come and  *)
(* go, and main can always accept again.                                   *)
THEOREM ListenerIsKept == Spec => []ListenerStays
<1>1. Init => ListenerInv
  BY AcceptAssumption DEF Init, ListenerInv, ListenerStays, AcceptAssumption, Descriptors,
     server_socket, NoDescriptor
<1>2. ListenerInv => ListenerStays
  BY DEF ListenerInv
<1> QED BY <1>1, <1>2, ListenerStep, AcceptTypes, PTL DEF Spec

-----------------------------------------------------------------------------
(* Every descriptor that is in use has one who will close it: its worker,  *)
(* or the thread that is about to have it.                                 *)
Holds(c, d) ==
    \/ /\ table[d] = Connection(c)
       /\ \/ phase[c] \in {"accepted", "born"} /\ client_socket = d
          \/ phase[c] \in {"serving", "exiting", "ending"} /\ socket[c] = d
    \/ table[d] = File(c) /\ phase[c] = "serving" /\ file[c] = d

HeldInv ==
    \A d \in Descriptors \ {server_socket, reserved} :
        table[d] = Free \/ \E c \in Conns : Holds(c, d)

LeakInv == OrderInv /\ HeldInv

LEMMA RangeCount ==
    ASSUME NEW S, NEW T, NEW f \in [S -> T], IsFiniteSet(S)
    PROVE  IsFiniteSet(Range(f)) /\ Cardinality(Range(f)) <= Cardinality(S)
<1>1. f \in Surjection(S, Range(f))
  BY Fun_RangeProperties
<1> QED BY <1>1, FS_Surjection

LEMMA UnionCount ==
    ASSUME NEW S, NEW T, IsFiniteSet(S), IsFiniteSet(T)
    PROVE  IsFiniteSet(S \cup T) /\ Cardinality(S \cup T) <= Cardinality(S) + Cardinality(T)
<1>1. IsFiniteSet(S \cap T)
  BY FS_Subset
<1>2. /\ Cardinality(S) \in Nat /\ Cardinality(T) \in Nat /\ Cardinality(S \cap T) \in Nat
  BY <1>1, FS_CardinalityType
<1>3. /\ IsFiniteSet(S \cup T)
      /\ Cardinality(S \cup T) = Cardinality(S) + Cardinality(T) - Cardinality(S \cap T)
  BY FS_Union
<1> QED BY <1>2, <1>3

(* With every descriptor held, each client holds two at most, and there is *)
(* one more for accept.                                                    *)
LEMMA NotFull ==
    ASSUME TypeOK, LeakInv, Roomy, reserved = NoDescriptor
    PROVE  \E d \in Descriptors : table[d] = Free
<1> DEFINE sockets == [c \in AtWork |-> IF phase[c] \in {"accepted", "born"}
                                           THEN client_socket ELSE socket[c]]
           files == [c \in AtWork |-> file[c]]
           used == Range(sockets) \cup Range(files) \cup {server_socket}
<1>1. IsFiniteSet(AtWork) /\ Cardinality(AtWork) <= MaxClients /\ Cardinality(AtWork) \in Nat
  BY FS_CardinalityType DEF LeakInv, OrderInv, Few
<1>2. /\ sockets \in [AtWork -> Descriptors \cup {NoDescriptor}]
      /\ files \in [AtWork -> Descriptors \cup {NoDescriptor}]
  BY DEF TypeOK, AtWork
<1>3. IsFiniteSet(Range(sockets)) /\ Cardinality(Range(sockets)) <= Cardinality(AtWork)
  BY <1>1, <1>2, RangeCount
<1>4. IsFiniteSet(Range(files)) /\ Cardinality(Range(files)) <= Cardinality(AtWork)
  BY <1>1, <1>2, RangeCount
<1> HIDE DEF sockets, files
<1>5. /\ IsFiniteSet(Range(sockets) \cup Range(files))
      /\ Cardinality(Range(sockets) \cup Range(files))
            <= Cardinality(Range(sockets)) + Cardinality(Range(files))
  BY <1>3, <1>4, UnionCount
<1>6. IsFiniteSet(used) /\ Cardinality(used) < MaxDescriptor
  <2>0. IsFiniteSet({server_socket}) /\ Cardinality({server_socket}) = 1
    BY FS_Singleton
  <2>1. /\ IsFiniteSet(used)
        /\ Cardinality(used) <= Cardinality(Range(sockets) \cup Range(files)) + 1
    BY <1>5, <2>0, UnionCount
  <2>2. /\ Cardinality(used) \in Nat
        /\ Cardinality(Range(sockets) \cup Range(files)) \in Nat
        /\ Cardinality(Range(sockets)) \in Nat /\ Cardinality(Range(files)) \in Nat
    BY <1>3, <1>4, <1>5, <2>1, FS_CardinalityType
  <2> QED
    BY <1>1, <1>3, <1>4, <1>5, <2>1, <2>2, AcceptAssumption DEF Roomy, AcceptAssumption
<1>7. PICK d \in Descriptors : d \notin used
  <2> SUFFICES ASSUME Descriptors \subseteq used PROVE FALSE
    OBVIOUS
  <2>1. Cardinality(Descriptors) = MaxDescriptor /\ Cardinality(Descriptors) <= Cardinality(used)
    BY <1>6, FS_Subset, FS_Interval, AcceptAssumption DEF Descriptors, AcceptAssumption
  <2> QED BY <1>6, <2>1, FS_CardinalityType, AcceptAssumption DEF AcceptAssumption
<1>8. ASSUME NEW c \in Conns, Holds(c, d) PROVE FALSE
  <2>1. c \in AtWork
    BY <1>8 DEF Holds, AtWork
  <2>2. sockets[c] \in Range(sockets) /\ files[c] \in Range(files)
    BY <1>2, <2>1 DEF Range
  <2>3. sockets[c] = d \/ files[c] = d
    BY <1>8, <2>1 DEF Holds, sockets, files
  <2> QED BY <1>7, <2>2, <2>3
<1> QED BY <1>7, <1>8, NoDescriptorIsNone DEF LeakInv, HeldInv

(* So accept does not fail.                                                *)
LEMMA NeverFails ==
    ASSUME Steady, TypeOK, LeakInv PROVE ~AcceptFails
BY NotFull DEF Steady, AcceptFails, TableFull

LEMMA LeakStep ==
    Steady /\ Spaced /\ TypeOK /\ LeakInv /\ [Next]_vars => LeakInv'
<1> SUFFICES ASSUME Steady, Spaced, TypeOK, LeakInv, [Next]_vars PROVE LeakInv'
  OBVIOUS
<1>0. /\ OrderInv /\ HeldInv
      /\ \A d \in Descriptors : d # NoDescriptor
  BY NoDescriptorIsNone DEF LeakInv
<1>1. CASE UNCHANGED vars
  BY <1>0, <1>1 DEF vars, LeakInv, OrderInv, PhaseInv, QueueInv, ApartInv, Few, AtWork,
                    HeldInv, Holds
<1>2. ASSUME NEW c \in Conns, Connect(c) PROVE LeakInv'
  <2>1. /\ OrderInv' /\ phase[c] = "away"
        /\ \A d \in Conns : d # c => phase'[d] = phase[d]
    BY <1>0, <1>2, ConnectOrder
  <2>2. HeldInv'
    BY <1>0, <1>2, <2>1 DEF Connect, HeldInv, Holds
  <2> QED BY <2>1, <2>2 DEF LeakInv
<1>3. CASE CallAccept
  <2> PICK d \in Descriptors : table' = [table EXCEPT ![d] = Reserved] /\ reserved' = d
    BY <1>3 DEF CallAccept
  <2>1. \A e \in Descriptors : e # d => table'[e] = table[e]
    BY DEF TypeOK
  <2>2. HeldInv'
    BY <1>0, <1>3, <2>1 DEF CallAccept, HeldInv, Holds
  <2> QED
    BY <1>0, <1>3, <2>2
       DEF CallAccept, LeakInv, OrderInv, PhaseInv, QueueInv, ApartInv, Few, AtWork
<1>4. CASE Accept
  <2>1. OrderInv'
    BY <1>0, <1>4, AcceptOrder
  <2> PICK c \in Conns :
          /\ Head(queue) = c /\ phase[c] = "queued" /\ phase'[c] = "accepted"
          /\ \A e \in Conns : e # c => phase'[e] = phase[e] /\ phase[e] \notin Waiting
    BY <1>0, <1>4, AcceptOrder
  <2>2. /\ reserved \in Descriptors /\ table'[reserved] = Connection(c)
        /\ client_socket' = reserved /\ UNCHANGED <<socket, file>>
        /\ \A e \in Descriptors : e # reserved => table'[e] = table[e]
    BY <1>4 DEF Accept, TypeOK
  <2>3. HeldInv'
    BY <1>0, <2>2 DEF HeldInv, Holds, Waiting
  <2> QED BY <2>1, <2>3 DEF LeakInv
<1>12. ~AcceptFails
  BY NeverFails
<1>5. ASSUME NEW c \in Conns, MakeThread(c) PROVE LeakInv'
  <2>1. /\ OrderInv' /\ phase[c] = "accepted" /\ phase'[c] = "born"
        /\ \A d \in Conns : d # c => phase'[d] = phase[d]
    BY <1>0, <1>5, MakeThreadOrder
  <2>2. HeldInv'
    BY <1>0, <1>5, <2>1 DEF MakeThread, HeldInv, Holds
  <2> QED BY <2>1, <2>2 DEF LeakInv
<1>6. ASSUME NEW c \in Conns, StartWorker(c) PROVE LeakInv'
  <2>1. /\ OrderInv' /\ phase[c] = "born" /\ phase'[c] = "serving"
        /\ \A d \in Conns : d # c => phase'[d] = phase[d]
    BY <1>0, <1>6, ThreadKeepsApart DEF StartWorker, OrderInv
  <2>2. /\ socket'[c] = client_socket /\ UNCHANGED <<table, reserved, client_socket, file>>
        /\ \A d \in Conns : d # c => socket'[d] = socket[d]
    BY <1>6 DEF StartWorker, TypeOK
  <2>3. HeldInv'
    BY <1>0, <2>1, <2>2 DEF HeldInv, Holds
  <2> QED BY <2>1, <2>3 DEF LeakInv
<1>7. ASSUME NEW c \in Conns, OpenFile(c) PROVE LeakInv'
  <2> PICK d \in Descriptors :
          table' = [table EXCEPT ![d] = File(c)] /\ file' = [file EXCEPT ![c] = d]
    BY <1>7 DEF OpenFile
  <2>1. /\ table'[d] = File(c) /\ \A e \in Descriptors : e # d => table'[e] = table[e]
        /\ file'[c] = d /\ \A e \in Conns : e # c => file'[e] = file[e]
        /\ file[c] = NoDescriptor /\ phase[c] = "serving"
        /\ UNCHANGED <<queue, reserved, client_socket, phase, socket>>
    BY <1>7 DEF OpenFile, TypeOK
  <2>2. HeldInv'
    BY <1>0, <2>1 DEF HeldInv, Holds
  <2> QED
    BY <1>0, <2>1, <2>2 DEF LeakInv, OrderInv, PhaseInv, QueueInv, ApartInv, Few, AtWork
<1>8. ASSUME NEW c \in Conns, CloseFile(c) PROVE LeakInv'
  <2>1. /\ \A e \in Descriptors : table'[e] = IF e = file[c] /\ table[e] # Reserved THEN Free ELSE table[e]
        /\ \A e \in Conns : e # c => file'[e] = file[e]
        /\ UNCHANGED <<queue, reserved, client_socket, phase, socket>>
    BY <1>8 DEF CloseFile, Close, TypeOK
  <2>2. HeldInv'
    BY <1>0, <2>1, EntriesDiffer, PlainEntriesDiffer DEF HeldInv, Holds
  <2> QED
    BY <1>0, <2>1, <2>2 DEF LeakInv, OrderInv, PhaseInv, QueueInv, ApartInv, Few, AtWork
<1>9. ASSUME NEW c \in Conns, GivesUp(c) PROVE LeakInv'
  <2>1. /\ OrderInv' /\ phase[c] = "serving" /\ phase'[c] = "ending"
        /\ \A d \in Conns : d # c => phase'[d] = phase[d]
    BY <1>0, <1>9, ThreadKeepsApart DEF GivesUp, OrderInv
  <2>2. file[c] = NoDescriptor /\ UNCHANGED <<table, reserved, client_socket, socket, file>>
    BY <1>9 DEF GivesUp
  <2>3. HeldInv'
    BY <1>0, <2>1, <2>2 DEF HeldInv, Holds
  <2> QED BY <2>1, <2>3 DEF LeakInv
<1>10. ASSUME NEW c \in Conns, LogsOut(c) \/ ClosesToExit(c) \/ DestroyWorker(c)
       PROVE  LeakInv'
  <2>1. PICK p \in {"exiting", "ending", "done"} : phase' = [phase EXCEPT ![c] = p]
    BY <1>10 DEF LogsOut, ClosesToExit, DestroyWorker
  <2>2. /\ OrderInv' /\ \A d \in Conns : d # c => phase'[d] = phase[d]
    BY <1>0, <1>10, <2>1, ThreadKeepsApart
       DEF LogsOut, ClosesToExit, DestroyWorker, OrderInv
  <2>3. /\ \A e \in Descriptors : table'[e] = IF e = socket[c] /\ table[e] # Reserved THEN Free ELSE table[e]
        /\ phase[c] = "ending" \/ (phase[c] = "serving" /\ file[c] = NoDescriptor)
        /\ UNCHANGED <<reserved, client_socket, socket, file>>
    BY <1>10 DEF LogsOut, ClosesToExit, DestroyWorker, Close
  <2>4. HeldInv'
    BY <1>0, <2>2, <2>3, EntriesDiffer, PlainEntriesDiffer DEF HeldInv, Holds
  <2> QED BY <2>2, <2>4 DEF LeakInv
<1>11. ASSUME NEW c \in Conns, ExitsServer(c) PROVE LeakInv'
  BY <1>0, <1>11 DEF ExitsServer, LeakInv, OrderInv, PhaseInv, QueueInv, ApartInv, Few, AtWork,
                     HeldInv, Holds
<1> QED
  BY <1>1, <1>2, <1>3, <1>4, <1>5, <1>6, <1>7, <1>8, <1>9, <1>10, <1>11, <1>12
     DEF Next, MainStep, ThreadStep, ThreadEnds

LEMMA LeakInit == Init => LeakInv
<1> SUFFICES ASSUME Init PROVE LeakInv
  OBVIOUS
<1>1. OrderInv
  BY InitInv DEF IInv
<1> QED BY <1>1 DEF Init, LeakInv, HeldInv

(* When clients come spaced, or one at a time, to a table that has room    *)
(* for all of them, no descriptor is left behind, also when the second     *)
(* close of a worker that logs out has hit what another had opened.        *)
THEOREM NothingLeaks ==
    ASSUME Spaced, Roomy, ~AcceptErrors PROVE Spec => []NothingLeft
<1>1. TypeOK /\ LeakInv => NothingLeft
  <2> SUFFICES ASSUME TypeOK, LeakInv, AtWork = {},
                      NEW d \in Descriptors \ {server_socket, reserved}
               PROVE  table[d] = Free
    BY DEF NothingLeft
  <2>1. \A c \in Conns : phase[c] \in {"away", "done"}
    BY DEF AtWork
  <2> QED BY <2>1 DEF LeakInv, HeldInv, Holds
<1>2. TypeOK /\ LeakInv /\ [Next]_vars => LeakInv'
  BY LeakStep DEF Steady
<1> QED BY <1>1, <1>2, LeakInit, AcceptTypes, PTL DEF Spec

(* When clients come one at a time, or spaced and without a logout, to a   *)
(* table that has room for all of them, every worker reads and writes the  *)
(* connection it was made for and the file it opened, although all threads *)
(* share one descriptor table and each reads its socket from a variable    *)
(* that the accept loop overwrites, with -1 when the table is full.        *)
THEOREM WorkersOwnDescriptors ==
    ASSUME Unmixed, Roomy, ~AcceptErrors PROVE Spec => []OwnDescriptors
<1> DEFINE Inv == LeakInv /\ IInv /\ FoundInv
<1>1. Init => Inv
  BY InitInv, LeakInit
<1>2. TypeOK /\ Inv /\ [Next]_vars => Inv'
  <2> SUFFICES ASSUME TypeOK, Inv, [Next]_vars PROVE Inv'
    OBVIOUS
  <2>1. LeakInv' /\ ~AcceptFails
    BY LeakStep, NeverFails DEF Steady, Unmixed, Spaced
  <2> QED BY <2>1, NextInv
<1>3. Inv => OwnDescriptors
  BY DEF IInv, SocketInv, FileInv, FoundInv, OwnDescriptors
<1> QED BY <1>1, <1>2, <1>3, AcceptTypes, PTL DEF Spec
=============================================================================

# A TLA+ verification of the secure cloud storage client and server

The repository (C++17, about 5 300 lines) is a client and a server that keep
files for registered users.  A client logs in with a station-to-station key
exchange, and then sends encrypted, counted packets over one TCP connection to
the worker thread that the server gave it.  The modules here model that system
from its source, TLC checks them on small instances, and TLAPS proves theorems
for all instances.

## 1. Inventory

| Component | Source | State it keeps | Operations | What makes it correct |
|---|---|---|---|---|
| Wire | `packets/*`, `security/Util.cpp` | the bytes in flight of the two directions | serialize, deserialize, sendData, receiveData, incrementCounter | a read takes exactly one packet; counters are never used twice |
| Client session | `client/Client.cpp` 472-1374 | `s_counter`, `r_counter`, the file of the transfer, `../downloads` | start, the menu, upload, download, list, rename, delete, logout | what it prints is so; every command ends |
| Worker session | `server/worker.cpp` 303-885 | `s_counter`, `r_counter`, the file of the transfer | start, the six handlers, the destructor | in step with its client; changes the folder only as asked; ends when the client has |
| File and folder | `tools/file.cpp` | the files of `../data/<user>`, the buffers of the streams | create, writeChunk, read, readChunk, exists, getFileNames, changeFileName, deleteFile, close | nothing half done is reported as done; sessions of one user that keep to different names do not notice each other |
| Accept loop | `server/server.cpp`, `Worker` constructor, `start`, destructor | the listening socket, the descriptor table, the running workers | accept, create a thread, detach | each connection has one worker, each worker one connection |
| Login | `client/Client.cpp` 39-471, `server/worker.cpp` 34-302, `security/Diffie-Hellman.cpp` | the user name, ephemeral keys, the session key | the name and its answer, the messages of the exchange, the certificate | who is let in has the key of the one that let it in; a login that is given up ends on both sides |
| Cryptography | `security/crypto.cpp`, OpenSSL | none | encrypt, decrypt, sign, verify, hash | taken as ideal when it succeeds; that it may fail is modelled |
| Console | `client/Main.cpp`, the prompts | none | getline, print | - |

How they interact: the accept loop starts one thread for each connection; the
thread runs the login and then the command loop of a `Worker`; client and
worker exchange packets over two byte streams; the workers of one process share
the file system, the descriptor table and the fate of the process.

What is hard: packets have no boundary on the stream, so one read of the wrong
size puts everything after it out of place; both ends compute the number and
the size of the chunks by themselves; counters are incremented in some twenty
places, each with an early return beside it; either process may stop between
any two steps; the folder is changed before the answer is sent, and the answer
of an upload is sent before the file is closed; workers share descriptors and
folders without a lock; an exception or `exit` in one thread ends all of them.

## 2. Modules

`Wire.tla` - the byte stream between two ends.  A stream is the number of bytes
in flight and the packets among them with their places, so that a read of the
wrong size is what it is in the program: it takes the bytes, yields no packet
(AES-CCM accepts nothing but the bytes of one whole packet) and leaves the rest
of the packet in front of the next read.  Sizes follow the `getSize` functions.
`deserialize` never looks at the command code, so a packet of the awaited size
is read as what was awaited (`AckCodes`, `AckAmounts`).

`Session.tla` - one client and its worker from the end of the login to the end
of both.  A step is one blocking call (`send`, `recv`) with the code up to the
next one.

| Model | Code |
|---|---|
| `cpc`, `wpc` | the call at which `Client` and `Worker` are blocked |
| `cS`, `cR`, `wS`, `wR` | `s_counter`, `r_counter` of both; -1 as `incrementCounter` returns it |
| `cRest`, `cTodo`, `wTodo`, `wRest` | the rest of the loops over full chunks and the last one |
| `wBuf`, `folder` | the buffer of the upload's output stream, and the files as the file system has them; the stream may be emptied at any chunk, and is at the latest by `~File` (`UploadClose`) |
| `cBuf`, `downloads` | the buffer of the download's output stream, and `../downloads` as the file system has it; `~File` empties it after the outcome was printed (`DownloadLeaves`, `DownloadClose`) |
| `shown`, `listed` | what the client printed; `Printed` is what a listing without a terminator may look like, `Junk` what is no name of a file |
| `server` | the process: `exit` by a handler that returns -1, `abort` by an uncaught exception, or stopped from outside |
| `Ask...`, `SendChunk` | the sends of the six commands |
| `Receive...`, `ReplyUnreadable`, `ReplyRejected` | the receives: accepted, not decrypted, wrong counter |
| `...Request`, `Upload...`, `Download...`, `SendListing` | the handlers; `Listable` is what `getFileNames` may return, the empty string after an error included |
| `RequestRefused` | the three early returns of `Worker::start` |

The environment can be as bad as `Faults` says: either process stopped at any
step, the user's folder missing while it has no file, or not readable, `../downloads` missing
(creating it throws, or another client has just created it, in which case
`download_file` returns with the chunks unread), a full disk on either side (a
write throws and ends the process, or the error comes at the close and nobody looks), `rename`
and `remove` failing, and OpenSSL failing to encrypt a packet: `serialize` then
returns an empty buffer, which `sendData` sends as nothing and the sender counts
(`AfterSend`).

`Login.tla` - one client and its worker from `connect` to the two command loops.

| Model | Code |
|---|---|
| `cpc`, `wpc` | the call at which `Client::login` and `Worker::login` are blocked |
| `user`, `wUser` | `username` of both; `Users` is `username_list`, `Enrolled` those with a matching `public.pem` |
| `ga`, `wGa`, `gb` | the ephemeral public keys as each side has them |
| `cKey`, `wKey` | `session_key`; the secret of two keys is the set of the two |
| `cPair`, `wPair` | `concatenatedKeys` |
| `TypeName` ... `SendRequest` | the client, up to its first command |
| `StartWorker` ... `ReadM4` | the worker, up to its command loop |
| `ClientReadFails`, `WorkerReadFails` | a read that fails because the peer has closed |
| `AcceptM3`, `RefuseM3` | the third message believed or not: certificate, decryption, signature |

A derivation of the secret that fails on the client is compared with -1 but
returns 0, and the login goes on with no secret (`cKey' = None` in `ReadM3`).
Text sealed under another key fails to decrypt, or decrypts to `Garbage`.
`MayFail` names the failures: either process stopped, a call into OpenSSL, the
server's key or certificate not readable, a certificate that does not verify.
A login has all or any of them (`failing`).

`SharedFolder.tla` - several sessions of one user on `../data/<user>`.  Nothing
locks that folder, so each system call of a handler is a step: `exists`,
`open`, `write`, `rename`, `remove`, the listing's look at one name.

| Model | Code |
|---|---|
| `dir`, `data` | the directory, and the files by inode: a worker keeps the inode it has opened, whatever happens to the name |
| `pc` | the next system call of each worker |
| `wrote`, `flushed` | chunks given to the output stream of an upload, and those of them that have been written to the file |
| `size`, `copy` | `file_size` as `read` found it, and what the download has sent |
| `seen`, `unseen` | the iteration of `getFileNames` |
| `astray` | client and worker no longer agree on what comes next (the client of an upload was told to go on, or not to, and the worker found the opposite); they stay there until the client gives up and logs in anew |
| `UploadCheck` ... `ListEnd` | the handlers, cut at their system calls |
| `uses` | which names each session keeps to |

The bytes on the wire are those of `Session` and are left out, up to the last
acknowledgement of an upload, which is sent before the file is closed.

`CloudFolder.tla` - what a user may rely on: the files of a folder by name, an
upload that makes its name and then only grows, every other command in one step,
and a listing that looks at each name once.  It has no inodes, no buffers and no
system calls.  `SharedFolder` is shown to implement it (`Cloud == INSTANCE
CloudFolder WITH ...`) for sessions that keep to different names (`Apart`).

`AcceptLoop.tla` - the process around the sessions: the accept loop, the thread
and the `Worker` that it makes for each connection, and the one descriptor table
they share.  A step is one system call (`accept`, `open`, `close`, `exit`), or
the read of `client_socket`, which a thread has by reference.

| Model | Code |
|---|---|
| `queue`, `Connect` | the queue of `listen`; `MaxClients` says how many clients there are at a time, `Arrivals` whether one may connect at any moment or only when the threads of the others have read their socket |
| `table`, `Lowest`, `Close` | the descriptor table: a new descriptor is the lowest free one, a close frees it whoever opened it |
| `client_socket` | the variable of the loop, one place in memory for all iterations; its lifetime has ended when a late thread reads it, and the model takes what the place holds |
| `phase`, `socket`, `file` | where a thread is, `communcation_socket`, the file it has open |
| `CallAccept`, `reserved`, `Accept` | `accept` takes a descriptor at the call, as Linux does, and waits with it for a client |
| `AcceptFails` | the call fails at once when the table is full, whether or not anyone waits, and with `AcceptErrors` for other reasons too; the loop stores -1 and tries again |
| `MakeThread` | the thread is made and detached |
| `StartWorker` | the lambda reads `client_socket`, the constructor stores it |
| `GivesUp` | every `return` of `start` that leaves the socket to `~Worker` |
| `LogsOut`, `ClosesToExit`, `ExitsServer`, `DestroyWorker` | the closes at the end of `start`, `exit`, and the close in `~Worker` |

What a worker says on its socket is left to `Session`: here it may give up,
log out, or end the process at any moment at which it has no file open.

How they fit together: `AcceptLoop` makes the worker that `Login` begins with;
`Login` hands over to `Session` on empty streams (theorem `LoginHandsOver`; the
first request may be there already), with equal keys; `Session` shows that one
client and its worker agree on what each command did to the folder, with every
other process left out; `SharedFolder` puts several workers on that folder.

`MCSession.tla`, `MCAcceptLoop.tla`, `MCLogin.tla` and `MCSharedFolder.tla` give
the constants their values.  `WireProofs.tla`, `SessionProofs.tla`,
`SessionConversation.tla`, `AcceptLoopProofs.tla`, `LoginProofs.tla`,
`SharedFolderProofs.tla`, `SharedFolderRefinement.tla` and
`SharedFolderOutcomes.tla` hold the proofs.  The operators whose comment begins with "A variant" are wrong versions of the
definition after them; putting one in its place shows that a property notices.

## 3. Runs

| Run | Faults | Shows |
|---|---|---|
| `session` | client or server stopped, failing rename and remove | `TypeOK`, `CountersUsedOnce`, `OutcomesTrue`, `InStep`, `NoFalseReplay`, `NoMutualWait`, `OnlyAsAsked`, `Answered`, `WorkerEnds` |
| `session_skewed` | client stopped, `../downloads` missing, no folder, failing encryption; full disk on either side, unreadable folder, failing rename and remove | `CountersUsedOnce`, `WorkerEnds`, although everything after an unread chunk or a lost packet is out of place; `OutcomesTrue` whenever the two have found each other |
| `login` | either process stopped, failing OpenSSL, server files missing, bad certificate, any input | `TypeOK`, `Agreement`, `InOrder`, `GetsIn`, `LoginEnds` |
| `shared` | clients that go in the middle of an upload | two sessions with names of their own, and two that share one: `TypeOK`, `PrivateOutcomes`, `Implements`, `Served` |
| `accept_spaced` | - | two clients at a time, each started before the next connects, room in the table, no logouts: `OwnDescriptors`, `NothingLeft`, `ClosesOwn` |
| `accept_crowded` | `accept` failing | connections at any moment, with logouts, a table that fills up: `TypeOK`, `ListenerStays`, `ThreadsEnd` |

The two `accept_*` runs say under which conditions the descriptors stay apart, and
what holds in any case.  None of the conditions can be dropped: clients that come
spaced (`claim_thread_each`), no logout for another worker to suffer from
(`claim_close_once`), and room in the table.  With a full table `accept` fails at
once: main stores -1 while the last thread may not have read its socket.  That
worker has no socket and closes nothing, so the descriptor is leaked, and clients
may wait for ever; `accept_crowded` passes through such states.  With one client
at a time logouts are harmless again, for there is nobody else to hit, and nothing
is leaked by the logouts of several spaced clients either; both are proved, in
section 4.

`OutcomesTrue` says of each message what it means for both sides.  Where the
program promises more than it keeps, the property says less than the message: a
listing misses one name at most, which was garbled (`Client.cpp:1020` makes a
string of a buffer without a terminator); a copy may be cut short on a full disk,
for the success is printed before the stream is emptied; and a folder that cannot
be read is listed as empty, with the code of success, as `getFileNames` catches the
error (`file.cpp:157`).  It speaks of the moments at which both are at rest, nothing
is unread and the counters agree (`Settled`), which in `session` is whenever both
are at rest (`InStep`).  Out of step an answer may be that to another command: when
another client makes `../downloads` at the same time, `download_file` returns with the
chunks unread (`Client.cpp:812`), and a chunk of one byte has the size and the counter
of the acknowledgement that the next rename awaits.

`NoMutualWait` and `Answered` are not claimed in `session_skewed`: a request
that was never encrypted is awaited by the worker while its client awaits the
answer, and both wait until the client is stopped.  The same holds for a user
without a folder (the repository ships that of `user1` only): the worker cannot
create the file and says nothing, as in `claim_shared_upload`.

Bounds.  In `Session`: two names; local files of three bytes and of one, with a chunk of two:
a full chunk and a last one, and a last one only (`session_skewed`: exactly one
chunk, and an empty file, which is refused).  Folders that hold nothing, a file
of either shape, and an empty one.  `MaxCounter` 4: a session of two or three commands
reaches the maximum of one counter in every place where it is incremented, so
the bound that keeps the state space finite is the program's own.  The overhead of 30
bytes is the code's (12 of IV, 4 of counter, 14 of tag); a request of 100 bytes
stands for one of 550, and is, as in the code, longer than any chunk.  With 30 and these payloads a chunk of
one byte has the size of an acknowledgement, as in the program.

`AcceptLoop` has four connections of which two are there at a time, and six
descriptors, the fewest that are `Roomy`: the listening socket's, a socket and a
file of each client, and that of the next `accept`.
`accept_crowded` has three connections and four descriptors, so that sockets and
files fill the table and `accept` fails.  A backlog of two (5 in the code) is enough for a connection to be accepted while
the thread of the one before is not there yet.

`Login` has three names (an enrolled user, one whose key the server does not
have, and one that is not a user) and two ephemeral keys, so that the two sides
may draw the same one; one login is finite by itself.

`SharedFolder` has two sessions, three names, two commands each
(`MaxCommands`), files of two chunks, of one and of none, and a folder that is
empty or has one file.  Five inodes (`MaxInodes`) are one for each name and one
open in each worker, so no bound stops an upload.  Two commands each are enough
for a session to rely on what its first command did while the other runs both of
its own.  `Sharings` has a case in which the names are apart, which `Implements`
is about, and one in which a name is shared and another is not, which
`PrivateOutcomes` and `Served` are about as well.  `Served` leaves out the
uploads of a shared name: they may end in `astray`, which is no end
(`claim_shared_upload`).

Deadlock is not checked: the system stops when both ends are gone, and rests
when the user asks for nothing.

Fairness.  Weak fairness of `ClientStep` and of `WorkerStep`: the two processes
(the thread, for the worker) are scheduled while they can move, and TCP
delivers.  None for `User` (nobody has to type), for `ClientKilled` and
`ServerKilled`.  A `recv` with nothing to read is not enabled, so fairness does
not make it return.  In `AcceptLoop` the main thread and the threads of the
workers have weak fairness, and `GivesUp` has strong fairness: a client hangs up
in the end, at a moment at which the worker may be anywhere in a handler, and
every handler then returns.  Nothing forces a client to connect, a worker to
open a file, a logout, or the exit of the process.  In `SharedFolder` each
worker thread has weak fairness of its own, which includes that the chunks of an
upload come; `UploadBreaks`, `Ask` and `Return` are the client's and have none.
In `Login` typing (`User`) has none, nor has a kill.

### Claims that the code does not keep

Each of these runs checks one property that a message, a comment or the
project's README states, and TLC finds a behaviour of the code against it.

| Run | What happens |
|---|---|
| `claim_download_missing` | after "does not exist" the worker goes on to read chunks of a file that was never opened, as many as an uninitialised size says; the exception ends the process |
| `claim_login_password` | the password is mistyped, the client closes, and the worker frees a key that it never set, which may end the process |
| `claim_renamed_over` | another session makes the new name after the check and before `rename(2)`, which replaces its file |
| `claim_shared_upload` | two sessions upload one name; the second is told to go on, its `create()` throws, and nobody answers its chunks |
| `claim_thread_each` | the next connection is in `client_socket` before the thread of the last one has read it; two workers share it, and nobody has the other |
| `claim_close_once` | the second close of a worker that logged out hits a connection accepted between the two |

Nothing is promised of a name that two sessions use at a time: the second of two
uploads may open, and truncate, the file of the first (`file.cpp:107`), and a file
that is taken away while `File::read` looks at it ends the process as one that is
not there does.

Three more are in the model and have no run.  One session's counter limit is
`exit(EXIT_FAILURE)` for all of them (`worker.cpp:870`), although
`constants.h:38` speaks of shutting down the session.  The success of an upload
is sent before the stream is emptied, and a disk that is full by then cuts the
file short without a word (`worker.cpp:448`).  An empty file in the folder gets
the answer of a missing one (`worker.cpp:482`).

## 4. Theorems

Proved by TLAPS for every value of the constants that satisfies
`WireAssumption` and `SessionAssumption`, and for every set of faults:

* `TypeCorrect`: `Spec => []TypeOK`.
* `CountersAreUsedOnce`: `Spec => []CountersUsedOnce`.  In each direction the
  counters in flight are distinct, the receiver has accepted none of them, and
  the sender will use none of them again.  This is what the nonces and the
  replay check rest on, and it does not depend on the two ends being in step.

Both follow from the inductive invariant `IInv`.  `CountersUsedOnce` is not
inductive alone: a counter at -1 must not be used (`CountersUsable`: a side that
can still act has counters left, and an upload that used the last one returns
-1), and the type invariant needs to know that the file of a download is open
while chunks are appended to it (`DownloadOpen`).  `WireProofs` has what
sending, dropping and misreading do to a stream (`FreshSent`, `FreshDrop`,
`FreshMisread`, `FreshAccept`); `SessionProofs` has one lemma for each action
or group of like actions, over three lemmas for the steps they share
(`ClientSendsInv`, `AcceptInv`, `HandlerInv`).

Proved in `SessionConversation` for every value of those constants, but not for
every set of faults:

* `SidesAreInStep`, `NoFalseAlarm`, `NoDeadlock`: `Orderly` gives
  `Spec => []InStep`, `Spec => []NoFalseReplay` and `Spec => []NoMutualWait`.
* `FolderAsAsked`: `Orderly` gives `Spec => OnlyAsAsked`.
* `OutcomesAreTrue`: `Orderly` gives `Spec => []OutcomesTrue`.

`Orderly` excludes the three faults that drive the two sides apart: a packet that
OpenSSL fails to encrypt is not sent, yet a handler may return as if it were; a
missing `../downloads` makes the client leave a download whose chunks are still
coming; and a missing folder makes the worker leave an upload that it has
accepted.  All else may happen: either process stopped at any step, a failing
rename or remove, a folder that cannot be read, and a full disk on either side.
That is more than the run `session` allows, with files of any length, any chunk
size and any maximum of the counters.  `Settled` follows then, so `OutcomesTrue`
holds at every rest; that it holds at a rest where `Settled` does, with all the
faults that `Orderly` excludes, is checked in `session_skewed` only.  TLC refutes `InStep`, `NoMutualWait` and
`OnlyAsAsked` when encryption fails or the downloads directory is missing, and
`NoMutualWait` when the folder is.  The hypothesis is not the weakest for each
theorem: on the instance of `session`, a missing folder alone violates none of
the other four, and `NoFalseReplay` is not violated by any one of the three.

The invariant that all five follow from is `CInv`: `IInv` and `Conversation`.

* `ClientView` says what the client may find in flight at each point of its
  program: nothing yet, or the answer to the command it has sent, with the value
  that the folder gives it; `WorkerView` says the same of the worker.
* In both directions the packets in flight are those with the counters from the
  next one the reader expects to the last one the sender used, one after another
  (`InOrder` of `WireProofs`).  For a transfer `ChunksOf` says which bytes of the
  file each of them carries.
* `Together` says which points of the two programs go with each other, and
  `OutcomeOK` in it what the last command printed has to do with the folder: an
  upload that is reported before the worker has closed its file is the reason
  why it needs the worker's buffer as well, and a download that is reported
  before the client has closed its own needs the client's (`Fetched`).
* `UploadOK` and `UploadSide` say what is left of an upload whose client is gone or
  has gone on to the next command.

No part is inductive alone: what the worker reads next is known only from where
the client is, and where the client is from what it has been sent.  The properties
follow from it with the lemmas `ClientExpects` and `WorkerExpects` (the size that
a `recv` asks for is that of the first packet in flight) and `FirstWhole` (only
the first packet in flight can be read whole).  There is one lemma for
each action, named after it.  TLC checked `CInv` as an invariant first.

Proved for every value of the constants of `AcceptLoop` that satisfies
`AcceptAssumption`, and any set of connections:

* `WorkersOwnDescriptors`: `Unmixed`, `Roomy` and `~AcceptErrors` give
  `Spec => []OwnDescriptors`.  `Unmixed` says that there is one client at a time,
  or that none connects while another waits for its worker and nobody logs out;
  `Roomy` that the table has room for `MaxClients` connections, a file of each,
  the listening socket and the next `accept`.
* `NothingLeaks`: `Spaced`, `Roomy` and `~AcceptErrors` give
  `Spec => []NothingLeft`, logouts or not.  `Spaced` is `Unmixed` without the
  condition on logouts.
* `WorkersCloseTheirOwn`: with `Arrivals = "spaced"` and no logouts,
  `Spec => ClosesOwn`, also when `accept` fails.
* `AcceptTypes` and `ListenerIsKept`: `Spec => []TypeOK` and
  `Spec => []ListenerStays`, however clients come and go.

`Roomy` is there because a failing `accept` overwrites `client_socket` although no
client has come, and the last thread may not have read it.
That `accept` never fails then is proved by counting (`NotFull`, `NeverFails`): each
descriptor in use is the listening socket's, that of the waiting `accept`, or
held by a client that is connected, as its connection or its file, and there are at
most `MaxClients` of those (`Few`), so a full table would have
`2 * MaxClients + 1` descriptors at most.

The inductive invariant follows a connection from the queue to the close: only
one is on its way to its worker (`ApartInv`, `QueueInv`), and its descriptor is
in `client_socket` until the thread has read it, and in the worker's `socket`
from then to the close in `~Worker` (`SocketInv`), unless it was left with -1,
which `FoundInv` excludes where `accept` does not fail; a file is open only in a
worker that serves (`FileInv`).  `OwnDescriptors` speaks of workers that serve
and is not inductive without the way before.  With logouts the invariant says
nothing of a worker that is ending, whose socket may have been closed: with one
client at a time there is no other worker that the second close could hit.

`ListenerInv` is why the listening socket survives the stray closes: its number
is never in `client_socket`, nor in the socket or the file of a worker, nor
reserved, because `accept` and `open` take free descriptors only.  `NothingLeaks`
does not need the descriptors to be kept apart, only that each one in use has
somebody who will close it (`HeldInv`): the worker that has it, or the thread
that has not read it from `client_socket` yet.  With crowded arrivals that is
false, for the next accept overwrites the variable, and a descriptor may be left
behind.

Proved for every value of the constants of `Login` that satisfies
`LoginAssumption`, and every set of failures:

* `TypesKept`, `LoginAgreement`, `LoginInOrder`: `Spec` implies `[]TypeOK`,
  `[]Agreement` and `[]InOrder`.
* `LoginHandsOver`: once both sides are logged in, nothing of the login is left
  in flight.

The inductive invariant (`IInv` of `LoginProofs`) follows a message from the
variables of its sender to those of its reader: a key in flight is the sender's
own (`UpOK`, `DownOK`), a box in flight is sealed by its sender with the sender's
key over the sender's pair, and a client past the third message has verified a
signature that its worker sealed (`Exchanged`).  This is why the derivation that
is not checked does no harm: what a client without a secret decrypts is never
verified (`OpenedVerified`).  `InOrder` is inductive with it, message by message,
over the tables of how many messages each state has sent and read.

Proved for every value of the constants of `SharedFolder` that satisfies
`SharedAssumption`:

* `SharedTypes`: `Spec => []TypeOK`, also with shared names.
* `SharedFolderImplements`: `Spec => Implements`, the refinement.
* `OwnNamesAreSafe`: `Spec => []PrivateOutcomes`, whatever other names are shared.

`IInv` of `SharedFolderProofs` adds to the types that no inode has two names
(`rename` moves the one it has), that the command fits the step (`CommandOK`),
that a worker that reads or writes has a file open (`OpenOK`), and what each
worker may rely on when nobody else uses its names (`ApartOK`): what it found in
one system call is still so in the next, the inode it has open is the one under
the name, what is flushed is the beginning of what was uploaded, and what a
download has sent is the beginning of the file.  The view of the folder (`CloudFile`) counts
what an upload has given to its stream as written; `ViewOK` says what that view
is in terms of `dir` and `data`.  There is one lemma for each action.  `UploadOpen` is `StartUpload`,
`UploadWrite` is `Grow`, `UploadVerdict` is `EndUpload`; a download takes place
when its last chunk is read, a rename when it is refused or moved, a removal at
`remove`; checks, sizes, opens and closes are stutters, for what they have seen
cannot change while names are apart.  The abort after a download of a missing
name is `Crash`, in which an upload that was acknowledged and not yet closed may
lose its end.

`PrivateOutcomes` speaks of one name at a time, so `OwnInv` of
`SharedFolderOutcomes` does too, with `Own(s)` in the place of `Apart`.  Other names
may have become confused, so it relies on less (nothing about what a download
has read) and needs one thing more: that no other worker has the file open which
this one has made, because an inode that nobody has open or under a name is taken
for it, and it is reached only by a name that nobody else uses.  `Frame` says once
what a step of any session leaves alone.

Each invariant and action property of the passing runs is stated by one of these
theorems, and so is the refinement `Implements`.  Out of the prover's reach and
left to TLC is liveness: `Answered`, `WorkerEnds`, `ThreadsEnd`,
`GetsIn`, `LoginEnds`, `Served`.

## 5. Not modelled

* The inside of encryption, signatures, key agreement and certificates: ideal
  when they succeed.  The certificate is one event, good or not.
* The byte layout of packets beyond size and fields (the fixed lengths of the
  third login message among it); name validation; prompts.
* A peer that does not run this program, in all modules.
* Losing or reordering bytes: TCP does not.
* The menu when its input ends: `getline` fails and the same wrong choice is read
  for ever.  No state changes and nothing is sent; to the worker it is a user who
  asks for nothing.
* File-system faults in `SharedFolder`, and sessions there beyond what they do to
  the folder: both are `Session`'s.
* The errors of `socket`, `bind` and `listen`, which end `main` before anything
  is accepted; a failing creation of a thread.
* `int` overflow of the chunk count: sizes are below 2^32 and a chunk has 15
  bytes, so the count is below 2^31.

## 6. Plan

1. `Wire`, `Session` with their proofs (done).
2. `AcceptLoop` with its proofs (done).
3. `CloudFolder` and `SharedFolder`, with the refinement and its proof (done).
4. `Login` with its proofs (done).
5. `SessionConversation`: the conversation of client and worker (done).
6. Next: a missing folder inside `Orderly`, with `NoMutualWait` claimed only
   without it; an abstract session, one step for each command of the menu, that
   `Session` implements under `Orderly`.

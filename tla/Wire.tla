-------------------------------- MODULE Wire --------------------------------
(***************************************************************************)
(* What travels between a client and its worker (src/packets,              *)
(* src/security/Util.cpp).  A TCP stream carries no packet boundaries: the *)
(* reader asks for a number of bytes and gets that many, whatever packets  *)
(* they come from.  A stream is therefore kept as the number of bytes in   *)
(* flight and the set of the packets among them, each with the place (at)  *)
(* of its first byte counted from the reader's position.  A packet whose   *)
(* first bytes were already read is no longer in the set, but its last     *)
(* bytes are still counted: they cannot be decrypted any more.             *)
(*                                                                         *)
(* The session key, the IV and the tag stay out of the model: decryption   *)
(* succeeds exactly on the bytes of one whole packet (AES-CCM rejects      *)
(* every other run of bytes).                                              *)
(***************************************************************************)
EXTENDS Integers, Sequences, FiniteSets

CONSTANTS
    Names,          \* the file names in use, all of one length
    NameLength,     \* that length
    Byte,           \* the bytes of file contents
    Overhead,       \* IV + counter + tag around every payload (30 in the code)
    ChunkSize,      \* MAX::max_file_chunk
    RequestLength,  \* MAX::initial_request_length
    MaxFileSize,    \* MAX::max_file_size, one more than a 32-bit size can say
    MaxCounter      \* MAX::counter_max_value

ASSUME WireAssumption ==
    /\ IsFiniteSet(Names)
    /\ NameLength \in Nat \ {0}
    /\ Overhead \in Nat \ {0}
    /\ ChunkSize \in Nat \ {0}
    /\ RequestLength \in Nat
    /\ RequestLength > ChunkSize + 6
    /\ MaxFileSize \in Nat
    /\ MaxCounter \in Nat

Content == Seq(Byte)

-----------------------------------------------------------------------------
(* Sizes.  The four request packets, and the two that carry no argument,   *)
(* are all padded to RequestLength bytes, so the worker can read a command *)
(* before it knows which one it is.                                        *)

WrapperSize(n) == Overhead + n

RequestSize == WrapperSize(RequestLength)
AckSize == WrapperSize(2)               \* command code, ack code
SizedAckSize == WrapperSize(6)          \* command code, 32-bit size, ack code
ChunkPacketSize(n) == WrapperSize(1 + n)
ListingSize(n) == WrapperSize(1 + n)

Requests == {"upload", "download", "list", "rename", "delete", "logout"}
Kinds == Requests \cup {"ack", "sizedAck", "chunk", "listing"}

(* A packet with the fields its kind does not use left at a default.       *)
Packet(kind, size, counter) ==
    [at |-> 0, size |-> size, counter |-> counter, kind |-> kind,
     args |-> <<>>, amount |-> 0, code |-> 0, data |-> <<>>, names |-> {}]

PacketFields ==
    [at : Nat, size : Nat \ {0}, counter : 0..MaxCounter, kind : Kinds,
     args : Seq(Names), amount : Nat, code : 0..2, data : Content,
     names : SUBSET Names]

(* A command about a file names one.                                       *)
Packets ==
    {p \in PacketFields : p.kind \in Requests \ {"list", "logout"} => p.args # <<>>}

Request(kind, counter, args, amount) ==
    [Packet(kind, RequestSize, counter) EXCEPT !.args = args, !.amount = amount]

Ack(counter, code) ==
    [Packet("ack", AckSize, counter) EXCEPT !.code = code]

SizedAck(counter, code, amount) ==
    [Packet("sizedAck", SizedAckSize, counter) EXCEPT !.code = code,
                                                      !.amount = amount]

Chunk(counter, data) ==
    [Packet("chunk", ChunkPacketSize(Len(data)), counter) EXCEPT !.data = data]

(* The joined names: NameLength each, and a comma between two of them.     *)
ListLength(names) ==
    IF names = {} THEN 0 ELSE Cardinality(names) * (NameLength + 1) - 1

Listing(counter, names) ==
    [Packet("listing", ListingSize(ListLength(names)), counter)
        EXCEPT !.names = names]

(* What a reader may find in a packet it takes for an acknowledgement: the *)
(* deserialize functions copy bytes by position and never look at the      *)
(* command code, so the bytes of a chunk or of a listing give any code (3  *)
(* stands for those that mean nothing) and any 32-bit size.                *)
AckCodes(p) == IF p.kind \in {"ack", "sizedAck"} THEN {p.code} ELSE 0..3
AckAmounts(p) == IF p.kind = "sizedAck" THEN {p.amount} ELSE 0..MaxFileSize - 1

-----------------------------------------------------------------------------
(* Streams.                                                                *)

Streams == [len : Nat, pkts : SUBSET Packets]

EmptyStream == [len |-> 0, pkts |-> {}]

Sent(st, p) ==
    [len |-> st.len + p.size, pkts |-> st.pkts \cup {[p EXCEPT !.at = st.len]}]

(* MSG_WAITALL: a read of n bytes returns when n bytes are there.          *)
Readable(st, n) == st.len >= n

(* The packets that an n-byte read would return complete and alone.        *)
Whole(st, n) == {p \in st.pkts : Readable(st, n) /\ p.at = 0 /\ p.size = n}

Drop(st, n) ==
    [len |-> st.len - n,
     pkts |-> {[p EXCEPT !.at = p.at - n] : p \in {q \in st.pkts : q.at >= n}}]

(* A variant: a closed peer is not noticed.                                *)
MisreadIfReadable(st, n, peerOpen, rest) ==
    Readable(st, n) /\ Whole(st, n) = {} /\ rest = Drop(st, n)

(* A read of n bytes that yields no packet.  Either n bytes are there and  *)
(* they are not one packet, so that the tag does not verify; or the peer's *)
(* socket is closed, and recv returns 0, fails, or returns fewer bytes,    *)
(* which receiveData hands on as if they were n.                           *)
Misread(st, n, peerOpen, rest) ==
    \/ /\ Readable(st, n)
       /\ Whole(st, n) = {}
       /\ rest = Drop(st, n)
    \/ /\ ~peerOpen
       /\ rest = EmptyStream

(* A variant: no check for the maximum.                                    *)
IncrementedPastMaximum(counter) == counter + 1

(* incrementCounter, used for both counters of both ends.                  *)
Incremented(counter) == IF counter = MaxCounter THEN -1 ELSE counter + 1

(* The counters that one side has used up: all of them once it is at -1.   *)
Used(counter) == IF counter = -1 THEN MaxCounter + 1 ELSE counter

(* The receiver of a stream has accepted the counters below accepted, the  *)
(* sender has used those below sent, and what is in flight lies between.   *)
Fresh(st, accepted, sent) ==
    /\ accepted <= sent
    /\ \A p \in st.pkts : accepted <= p.counter /\ p.counter < sent
    /\ \A p, q \in st.pkts : p.counter = q.counter => p = q
=============================================================================

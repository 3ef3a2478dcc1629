----------------------------- MODULE WireProofs -----------------------------
(* What the operators of Wire return and preserve.                         *)
EXTENDS Wire, FiniteSetTheorems, TLAPS

(* The constructors build packets: what serialize() lays out.              *)
LEMMA SizesType ==
    /\ RequestSize \in Nat \ {0}
    /\ AckSize \in Nat \ {0}
    /\ SizedAckSize \in Nat \ {0}
    /\ \A n \in Nat : ChunkPacketSize(n) \in Nat \ {0}
    /\ \A n \in Nat : ListingSize(n) \in Nat \ {0}
BY WireAssumption DEF WireAssumption, RequestSize, AckSize, SizedAckSize,
   ChunkPacketSize, ListingSize, WrapperSize

LEMMA PacketType ==
    ASSUME NEW kind \in Kinds, NEW size \in Nat \ {0},
           NEW counter \in 0..MaxCounter
    PROVE  /\ Packet(kind, size, counter) \in PacketFields
           /\ Packet(kind, size, counter).kind = kind
           /\ Packet(kind, size, counter).counter = counter
<1>1. <<>> \in Seq(Names) /\ <<>> \in Seq(Byte) /\ {} \in SUBSET Names
  OBVIOUS
<1> QED BY <1>1 DEF Packet, PacketFields, Content

LEMMA RequestType ==
    ASSUME NEW op \in Requests, NEW counter \in 0..MaxCounter,
           NEW args \in Seq(Names), NEW amount \in Nat,
           op \in Requests \ {"list", "logout"} => args # <<>>
    PROVE  /\ Request(op, counter, args, amount) \in Packets
           /\ Request(op, counter, args, amount).counter = counter
<1> DEFINE p == Packet(op, RequestSize, counter)
<1>1. p \in PacketFields /\ p.kind = op /\ p.counter = counter
  <2>1. op \in Kinds
    BY DEF Kinds
  <2>2. RequestSize \in Nat \ {0}
    BY SizesType
  <2> QED BY <2>1, <2>2, PacketType
<1>2. Request(op, counter, args, amount) = [p EXCEPT !.args = args, !.amount = amount]
  BY DEF Request
<1> HIDE DEF p
<1> QED BY <1>1, <1>2 DEF Packets, PacketFields

LEMMA AckType ==
    ASSUME NEW counter \in 0..MaxCounter, NEW code \in 0..2
    PROVE  /\ Ack(counter, code) \in Packets
           /\ Ack(counter, code).counter = counter
<1> DEFINE p == Packet("ack", AckSize, counter)
<1>1. p \in PacketFields /\ p.kind = "ack" /\ p.counter = counter
  <2>1. "ack" \in Kinds
    BY DEF Kinds
  <2> QED BY <2>1, PacketType, SizesType
<1>2. Ack(counter, code) = [p EXCEPT !.code = code]
  BY DEF Ack
<1> HIDE DEF p
<1> QED BY <1>1, <1>2 DEF Packets, PacketFields, Requests

LEMMA SizedAckType ==
    ASSUME NEW counter \in 0..MaxCounter, NEW code \in 0..2, NEW amount \in Nat
    PROVE  /\ SizedAck(counter, code, amount) \in Packets
           /\ SizedAck(counter, code, amount).counter = counter
<1> DEFINE p == Packet("sizedAck", SizedAckSize, counter)
<1>1. p \in PacketFields /\ p.kind = "sizedAck" /\ p.counter = counter
  <2>1. "sizedAck" \in Kinds
    BY DEF Kinds
  <2> QED BY <2>1, PacketType, SizesType
<1>2. SizedAck(counter, code, amount) = [p EXCEPT !.code = code, !.amount = amount]
  BY DEF SizedAck
<1> HIDE DEF p
<1> QED BY <1>1, <1>2 DEF Packets, PacketFields, Requests

LEMMA ChunkType ==
    ASSUME NEW counter \in 0..MaxCounter, NEW data \in Content
    PROVE  /\ Chunk(counter, data) \in Packets
           /\ Chunk(counter, data).counter = counter
<1> DEFINE p == Packet("chunk", ChunkPacketSize(Len(data)), counter)
<1>1. Len(data) \in Nat
  BY DEF Content
<1>2. p \in PacketFields /\ p.kind = "chunk" /\ p.counter = counter
  <2>1. "chunk" \in Kinds /\ ChunkPacketSize(Len(data)) \in Nat \ {0}
    BY <1>1, SizesType DEF Kinds
  <2> QED BY <2>1, PacketType
<1>3. Chunk(counter, data) = [p EXCEPT !.data = data]
  BY DEF Chunk
<1> HIDE DEF p
<1> QED BY <1>2, <1>3 DEF Packets, PacketFields, Requests

(* getFileNames(folder).length() is a length.                              *)
LEMMA ListLengthType ==
    ASSUME NEW names \in SUBSET Names
    PROVE  ListLength(names) \in Nat
<1>1. CASE names = {}
  BY <1>1 DEF ListLength
<1>2. CASE names # {}
  <2>1. IsFiniteSet(names)
    BY FS_Subset, WireAssumption DEF WireAssumption
  <2>2. Cardinality(names) \in Nat \ {0}
    BY <2>1, <1>2, FS_CardinalityType, FS_EmptySet
  <2>3. \A c, k \in Nat \ {0} : c * (k + 1) - 1 \in Nat
    <3> SUFFICES ASSUME NEW c \in Nat \ {0}, NEW k \in Nat \ {0}
                 PROVE  c * (k + 1) - 1 \in Nat
      OBVIOUS
    <3>1. c * (k + 1) >= c
      OBVIOUS
    <3> QED BY <3>1
  <2> QED BY <2>2, <2>3, <1>2, WireAssumption DEF ListLength, WireAssumption
<1> QED BY <1>1, <1>2

LEMMA ListingType ==
    ASSUME NEW counter \in 0..MaxCounter, NEW names \in SUBSET Names
    PROVE  /\ Listing(counter, names) \in Packets
           /\ Listing(counter, names).counter = counter
<1> DEFINE p == Packet("listing", ListingSize(ListLength(names)), counter)
<1>1. p \in PacketFields /\ p.kind = "listing" /\ p.counter = counter
  <2>1. "listing" \in Kinds /\ ListingSize(ListLength(names)) \in Nat \ {0}
    BY ListLengthType, SizesType DEF Kinds
  <2> QED BY <2>1, PacketType
<1>2. Listing(counter, names) = [p EXCEPT !.names = names]
  BY DEF Listing
<1> HIDE DEF p
<1> QED BY <1>1, <1>2 DEF Packets, PacketFields, Requests

-----------------------------------------------------------------------------
(* Sending and reading keep a stream a stream.                             *)

LEMMA SentType ==
    ASSUME NEW st \in Streams, NEW p \in Packets
    PROVE  Sent(st, p) \in Streams
<1>1. [p EXCEPT !.at = st.len] \in Packets
  BY DEF Streams, Packets, PacketFields
<1>2. st.len + p.size \in Nat
  BY DEF Streams, Packets, PacketFields
<1> QED BY <1>1, <1>2 DEF Sent, Streams

LEMMA DropType ==
    ASSUME NEW st \in Streams, NEW n \in Nat, Readable(st, n)
    PROVE  Drop(st, n) \in Streams
<1>1. ASSUME NEW q \in st.pkts, q.at >= n
      PROVE  [q EXCEPT !.at = q.at - n] \in Packets
  <2>1. q \in Packets /\ q \in PacketFields
    BY DEF Streams, Packets
  <2>2. q.at - n \in Nat
    BY <1>1, <2>1 DEF PacketFields
  <2> DEFINE moved == [q EXCEPT !.at = q.at - n]
  <2>3. moved \in PacketFields
    BY <2>1, <2>2 DEF PacketFields
  <2>4. moved.kind = q.kind /\ moved.args = q.args
    BY <2>1 DEF PacketFields
  <2> QED BY <2>1, <2>3, <2>4 DEF Packets
<1>2. st.len - n \in Nat
  BY DEF Streams, Readable
<1> QED BY <1>1, <1>2 DEF Drop, Streams

LEMMA MisreadType ==
    ASSUME NEW st \in Streams, NEW n \in Nat, NEW peerOpen \in BOOLEAN, NEW rest,
           Misread(st, n, peerOpen, rest)
    PROVE  rest \in Streams
BY DropType DEF Misread, EmptyStream, Streams

-----------------------------------------------------------------------------
(* What keeps the counters in flight fresh.                                *)

LEMMA FreshSent ==
    ASSUME NEW st \in Streams, NEW p \in Packets, NEW accepted \in Nat,
           Fresh(st, accepted, p.counter)
    PROVE  Fresh(Sent(st, p), accepted, p.counter + 1)
<1> DEFINE placed == [p EXCEPT !.at = st.len]
<1>1. placed.counter = p.counter /\ p.counter \in Nat
  BY WireAssumption DEF Packets, PacketFields, WireAssumption
<1>2. \A q \in st.pkts : q.counter \in Nat /\ accepted <= q.counter /\ q.counter < p.counter
  BY WireAssumption DEF Fresh, Streams, Packets, PacketFields, WireAssumption
<1>3. Sent(st, p).pkts = st.pkts \cup {placed}
  BY DEF Sent
<1>4. accepted <= p.counter
  BY DEF Fresh
<1>5. \A q, r \in st.pkts : q.counter = r.counter => q = r
  BY DEF Fresh
<1> HIDE DEF placed
<1> QED BY <1>1, <1>2, <1>3, <1>4, <1>5 DEF Fresh

LEMMA FreshDrop ==
    ASSUME NEW st \in Streams, NEW n \in Nat, NEW accepted \in Nat, NEW sent \in Nat,
           Fresh(st, accepted, sent)
    PROVE  Fresh(Drop(st, n), accepted, sent)
<1>1. ASSUME NEW p \in Drop(st, n).pkts
      PROVE  \E q \in st.pkts : p = [q EXCEPT !.at = q.at - n] /\ p.counter = q.counter
  BY <1>1 DEF Drop, Streams, Packets, PacketFields
<1>2. \A p \in Drop(st, n).pkts : accepted <= p.counter /\ p.counter < sent
  BY <1>1 DEF Fresh
<1>3. ASSUME NEW p \in Drop(st, n).pkts, NEW q \in Drop(st, n).pkts,
             p.counter = q.counter
      PROVE  p = q
  BY <1>1, <1>3 DEF Fresh
<1> QED BY <1>2, <1>3 DEF Fresh

LEMMA FreshMisread ==
    ASSUME NEW st \in Streams, NEW n \in Nat, NEW peerOpen \in BOOLEAN, NEW rest,
           NEW accepted \in Nat, NEW sent \in Nat,
           Misread(st, n, peerOpen, rest),
           Fresh(st, accepted, sent)
    PROVE  Fresh(rest, accepted, sent)
<1>1. CASE rest = Drop(st, n)
  BY <1>1, FreshDrop
<1>2. CASE rest = EmptyStream
  BY <1>2 DEF Fresh, EmptyStream
<1> QED BY <1>1, <1>2 DEF Misread

(* Accepting the packet at the front uses its counter up for the receiver. *)
LEMMA FreshAccept ==
    ASSUME NEW st \in Streams, NEW n \in Nat \ {0}, NEW accepted \in Nat,
           NEW sent \in Nat, NEW p \in Whole(st, n),
           p.counter = accepted,
           Fresh(st, accepted, sent)
    PROVE  Fresh(Drop(st, n), accepted + 1, sent)
<1>1. Fresh(Drop(st, n), accepted, sent)
  BY FreshDrop
<1>2. p \in st.pkts /\ p.at = 0
  BY DEF Whole
<1>3. ASSUME NEW q \in Drop(st, n).pkts
      PROVE  q.counter # accepted /\ q.counter \in Nat
  <2>1. PICK r \in st.pkts : r.at >= n /\ q = [r EXCEPT !.at = r.at - n]
    BY DEF Drop
  <2>2. q.counter = r.counter /\ r.counter \in Nat /\ r.at \in Nat
    <3>1. r \in PacketFields
      BY DEF Streams, Packets
    <3>2. r.counter \in 0..MaxCounter /\ r.at \in Nat /\ MaxCounter \in Nat
      BY <3>1, WireAssumption DEF PacketFields, WireAssumption
    <3>3. [r EXCEPT !.at = r.at - n].counter = r.counter
      BY <3>1 DEF PacketFields
    <3> QED BY <2>1, <3>2, <3>3
  <2>3. r # p
    BY <2>1, <2>2, <1>2
  <2> QED BY <1>2, <2>2, <2>3 DEF Fresh
<1>4. accepted + 1 <= sent
  BY <1>2 DEF Fresh
<1> QED BY <1>1, <1>3, <1>4 DEF Fresh

-----------------------------------------------------------------------------
(* The packets of a stream that is neither cut short nor read out of step. *)

(* The packets in flight have the counters from a to b - 1 and follow one  *)
(* another without a gap, from the reader's position to the end.           *)
InOrder(st, a, b) ==
    /\ a <= b
    /\ a = b => st.len = 0
    /\ \A i \in a..b - 1 : \E p \in st.pkts : p.counter = i
    /\ \A p \in st.pkts :
          /\ p.counter \in a..b - 1
          /\ p.counter = a => p.at = 0
          /\ p.counter = b - 1 => p.at + p.size = st.len
    /\ \A p, q \in st.pkts :
          /\ p.counter = q.counter => p = q
          /\ p.counter < q.counter => p.at + p.size <= q.at
          /\ p.counter + 1 = q.counter => p.at + p.size = q.at

(* A packet is among them, wherever it starts.                             *)
In(st, p) == \E q \in st.pkts : p = [q EXCEPT !.at = 0]

(* What the constructors put into the fields of a packet.                  *)
LEMMA AckValues ==
    ASSUME NEW c, NEW code
    PROVE  /\ Ack(c, code).at = 0 /\ Ack(c, code).size = AckSize
           /\ Ack(c, code).counter = c
           /\ Ack(c, code).kind = "ack" /\ Ack(c, code).code = code
BY DEF Ack, Packet

LEMMA SizedAckValues ==
    ASSUME NEW c, NEW code, NEW amount
    PROVE  /\ SizedAck(c, code, amount).at = 0
           /\ SizedAck(c, code, amount).size = SizedAckSize
           /\ SizedAck(c, code, amount).counter = c
           /\ SizedAck(c, code, amount).kind = "sizedAck"
           /\ SizedAck(c, code, amount).code = code
           /\ SizedAck(c, code, amount).amount = amount
BY DEF SizedAck, Packet

LEMMA ChunkValues ==
    ASSUME NEW c, NEW data
    PROVE  /\ Chunk(c, data).at = 0 /\ Chunk(c, data).size = ChunkPacketSize(Len(data))
           /\ Chunk(c, data).counter = c /\ Chunk(c, data).data = data
BY DEF Chunk, Packet

LEMMA ListingValues ==
    ASSUME NEW c, NEW names
    PROVE  /\ Listing(c, names).at = 0
           /\ Listing(c, names).size = ListingSize(ListLength(names))
           /\ Listing(c, names).counter = c /\ Listing(c, names).names = names
BY DEF Listing, Packet

LEMMA RequestValues ==
    ASSUME NEW op, NEW c, NEW args, NEW amount
    PROVE  /\ Request(op, c, args, amount).at = 0
           /\ Request(op, c, args, amount).size = RequestSize
           /\ Request(op, c, args, amount).counter = c
           /\ Request(op, c, args, amount).kind = op
           /\ Request(op, c, args, amount).args = args
           /\ Request(op, c, args, amount).amount = amount
BY DEF Request, Packet

(* The numbers among the fields of a packet in flight.                     *)
LEMMA PacketNumbers ==
    ASSUME NEW st \in Streams
    PROVE  /\ st.len \in Nat
           /\ \A p \in st.pkts :
                 /\ p \in PacketFields /\ p \in Packets
                 /\ p.at \in Nat /\ p.size \in Nat \ {0} /\ p.counter \in Nat
BY WireAssumption DEF Streams, Packets, PacketFields, WireAssumption

LEMMA InFacts ==
    ASSUME NEW st \in Streams, NEW p, In(st, p)
    PROVE  /\ p.at = 0
           /\ \E q \in st.pkts : /\ q.counter = p.counter /\ q.size = p.size
                                 /\ p = [q EXCEPT !.at = 0]
<1>1. PICK q \in st.pkts : p = [q EXCEPT !.at = 0]
  BY DEF In
<1>2. q \in PacketFields
  BY PacketNumbers
<1>3. p.at = 0 /\ p.counter = q.counter /\ p.size = q.size
  BY <1>1, <1>2 DEF PacketFields
<1> QED BY <1>1, <1>3

(* A stream with nothing in flight is empty.                               *)
LEMMA OrderEmpty ==
    ASSUME NEW st \in Streams, NEW a \in Nat, InOrder(st, a, a)
    PROVE  st = EmptyStream
<1>1. st.len = 0
  BY DEF InOrder
<1>2. st.pkts = {}
  BY PacketNumbers DEF InOrder
<1> QED BY <1>1, <1>2 DEF Streams, EmptyStream

(* No packet reaches beyond the end of the stream.                         *)
LEMMA OrderFits ==
    ASSUME NEW st \in Streams, NEW a \in Nat, NEW b \in Nat, InOrder(st, a, b),
           NEW p \in st.pkts
    PROVE  p.at + p.size <= st.len /\ a < b
<1>1. /\ p.counter \in a..b - 1 /\ p.at \in Nat /\ p.size \in Nat /\ st.len \in Nat
  BY PacketNumbers DEF InOrder
<1>2. PICK q \in st.pkts : q.counter = b - 1
  BY <1>1 DEF InOrder
<1>3. q.at + q.size = st.len /\ q.at \in Nat /\ q.size \in Nat
  BY <1>2, PacketNumbers DEF InOrder
<1>4. CASE p.counter = b - 1
  BY <1>1, <1>4 DEF InOrder
<1>5. CASE p.counter # b - 1
  <2>1. p.counter < q.counter
    BY <1>1, <1>2, <1>5
  <2>2. p.at + p.size <= q.at
    BY <2>1 DEF InOrder
  <2> QED BY <1>1, <1>3, <2>2
<1> QED BY <1>1, <1>4, <1>5

(* sendData puts the next packet behind the last one.                      *)
LEMMA OrderSent ==
    ASSUME NEW st \in Streams, NEW a \in Nat, NEW b \in Nat, InOrder(st, a, b),
           NEW p \in Packets, p.counter = b
    PROVE  InOrder(Sent(st, p), a, b + 1)
<1> DEFINE placed == [p EXCEPT !.at = st.len]
<1>1. /\ placed.at = st.len /\ placed.size = p.size /\ placed.counter = b
      /\ p.size \in Nat
  BY DEF Packets, PacketFields
<1>2. Sent(st, p).pkts = st.pkts \cup {placed} /\ Sent(st, p).len = st.len + p.size
  BY DEF Sent
<1> HIDE DEF placed
<1> DEFINE all == Sent(st, p).pkts
<1>3. /\ st.len \in Nat
      /\ \A q \in st.pkts : /\ q.at \in Nat /\ q.size \in Nat /\ q.counter \in a..b - 1
                            /\ q.at + q.size <= st.len
  BY PacketNumbers, OrderFits DEF InOrder
<1>4. \A i \in a..b : \E q \in all : q.counter = i
  <2> SUFFICES ASSUME NEW i \in a..b PROVE \E q \in all : q.counter = i
    OBVIOUS
  <2>1. CASE i = b
    BY <1>1, <1>2, <2>1
  <2>2. CASE i # b
    <3>1. i \in a..b - 1
      BY <2>2
    <3> QED BY <1>2, <3>1 DEF InOrder
  <2> QED BY <2>1, <2>2
<1>5. a <= b
  BY DEF InOrder
<1>6. ASSUME NEW q \in all
      PROVE  /\ q.counter \in a..b
             /\ q.counter = a => q.at = 0
             /\ q.counter = b => q.at + q.size = st.len + p.size
  <2>1. CASE q = placed
    BY <1>1, <1>5, <2>1 DEF InOrder
  <2>2. CASE q \in st.pkts
    BY <1>3, <2>2 DEF InOrder
  <2> QED BY <1>2, <2>1, <2>2
<1>7. ASSUME NEW q \in all, NEW r \in all
      PROVE  /\ q.counter = r.counter => q = r
             /\ q.counter < r.counter => q.at + q.size <= r.at
             /\ q.counter + 1 = r.counter => q.at + q.size = r.at
  <2>1. CASE q \in st.pkts /\ r \in st.pkts
    BY <2>1 DEF InOrder
  <2>2. CASE q \in st.pkts /\ r = placed
    BY <1>1, <1>3, <2>2 DEF InOrder
  <2>3. CASE q = placed /\ r \in all
    BY <1>1, <1>2, <1>3, <2>3
  <2> QED BY <1>2, <2>1, <2>2, <2>3
<1> HIDE DEF all
<1>8. b + 1 - 1 = b /\ a # b + 1 /\ a <= b + 1
  BY <1>5
<1> QED BY <1>2, <1>4, <1>6, <1>7, <1>8 DEF InOrder, all

(* The first packet is taken off: the second is the first of the rest.     *)
LEMMA OrderDrop ==
    ASSUME NEW st \in Streams, NEW a \in Nat, NEW b \in Nat, InOrder(st, a, b),
           NEW p \in st.pkts, p.counter = a
    PROVE  InOrder(Drop(st, p.size), a + 1, b)
<1> DEFINE rest == Drop(st, p.size).pkts
           n == p.size
<1>1. /\ p.at = 0 /\ n \in Nat \ {0} /\ st.len \in Nat /\ a < b
  BY PacketNumbers, OrderFits DEF InOrder
<1>2. Drop(st, n).len = st.len - n
  BY DEF Drop
<1>3. ASSUME NEW q \in rest
      PROVE  \E r \in st.pkts : /\ q = [r EXCEPT !.at = r.at - n]
                                /\ q.counter = r.counter /\ q.size = r.size
                                /\ q.at = r.at - n
                                /\ r.counter \in a + 1..b - 1
                                /\ r.at \in Nat /\ r.size \in Nat
  <2>1. PICK r \in st.pkts : r.at >= n /\ q = [r EXCEPT !.at = r.at - n]
    BY DEF Drop
  <2>2. r \in PacketFields /\ r.at \in Nat /\ r.size \in Nat /\ r.counter \in a..b - 1
    BY PacketNumbers DEF InOrder
  <2>3. q.counter = r.counter /\ q.size = r.size /\ q.at = r.at - n
    BY <2>1, <2>2 DEF PacketFields
  <2>4. r.counter # a
    <3>1. r.counter = p.counter => r = p
      BY DEF InOrder
    <3>2. r.at # p.at
      BY <1>1, <2>1, <2>2
    <3> QED BY <3>1, <3>2
  <2>5. r.counter \in a + 1..b - 1
    BY <2>2, <2>4
  <2> QED BY <2>1, <2>2, <2>3, <2>5
<1>4. ASSUME NEW r \in st.pkts, r.counter # a
      PROVE  \E q \in rest : q.counter = r.counter
  <2>1. r \in PacketFields /\ r.counter \in a..b - 1 /\ r.at \in Nat
    BY PacketNumbers DEF InOrder
  <2>2. n <= r.at
    <3>1. p.counter < r.counter
      BY <1>4, <2>1
    <3>2. p.at + p.size <= r.at
      BY <3>1 DEF InOrder
    <3> QED BY <1>1, <3>2
  <2>3. [r EXCEPT !.at = r.at - n] \in rest
    BY <2>1, <2>2 DEF Drop
  <2>4. [r EXCEPT !.at = r.at - n].counter = r.counter
    BY <2>1 DEF PacketFields
  <2> QED BY <2>3, <2>4
<1> HIDE DEF rest, n
<1>5. a + 1 <= b
  BY <1>1
<1>6. a + 1 = b => Drop(st, n).len = 0
  <2>1. a + 1 = b => p.at + n = st.len
    BY DEF InOrder, n
  <2> QED BY <1>1, <1>2, <2>1
<1>7. \A i \in a + 1..b - 1 : \E q \in rest : q.counter = i
  <2> SUFFICES ASSUME NEW i \in a + 1..b - 1 PROVE \E q \in rest : q.counter = i
    OBVIOUS
  <2>1. PICK r \in st.pkts : r.counter = i
    BY DEF InOrder
  <2> QED BY <1>4, <2>1
<1>8. ASSUME NEW q \in rest
      PROVE  /\ q.counter \in a + 1..b - 1
             /\ q.counter = a + 1 => q.at = 0
             /\ q.counter = b - 1 => q.at + q.size = Drop(st, n).len
  <2>1. PICK r \in st.pkts : /\ q.counter = r.counter /\ q.size = r.size
                             /\ q.at = r.at - n
                             /\ r.counter \in a + 1..b - 1
                             /\ r.at \in Nat /\ r.size \in Nat
    BY <1>3
  <2>2. q.counter = a + 1 => r.at = n
    <3>1. p.counter + 1 = r.counter => p.at + p.size = r.at
      BY DEF InOrder
    <3> QED BY <1>1, <2>1, <3>1 DEF n
  <2>3. q.counter = b - 1 => r.at + r.size = st.len
    BY <2>1 DEF InOrder
  <2> QED BY <1>1, <1>2, <2>1, <2>2, <2>3
<1>9. ASSUME NEW q \in rest, NEW r \in rest
      PROVE  /\ q.counter = r.counter => q = r
             /\ q.counter < r.counter => q.at + q.size <= r.at
             /\ q.counter + 1 = r.counter => q.at + q.size = r.at
  <2>1. PICK q0 \in st.pkts : /\ q = [q0 EXCEPT !.at = q0.at - n]
                              /\ q.counter = q0.counter /\ q.size = q0.size
                              /\ q.at = q0.at - n
                              /\ q0.at \in Nat /\ q0.size \in Nat
    BY <1>3
  <2>2. PICK r0 \in st.pkts : /\ r = [r0 EXCEPT !.at = r0.at - n]
                              /\ r.counter = r0.counter /\ r.size = r0.size
                              /\ r.at = r0.at - n
                              /\ r0.at \in Nat /\ r0.size \in Nat
    BY <1>3
  <2>3. /\ q0.counter = r0.counter => q0 = r0
        /\ q0.counter < r0.counter => q0.at + q0.size <= r0.at
        /\ q0.counter + 1 = r0.counter => q0.at + q0.size = r0.at
    BY DEF InOrder
  <2>4. q.counter = r.counter => q = r
    BY <2>1, <2>2, <2>3
  <2>5. q.counter < r.counter => q.at + q.size <= r.at
    BY <1>1, <2>1, <2>2, <2>3
  <2>6. q.counter + 1 = r.counter => q.at + q.size = r.at
    BY <1>1, <2>1, <2>2, <2>3
  <2> QED BY <2>4, <2>5, <2>6
<1> QED BY <1>5, <1>6, <1>7, <1>8, <1>9 DEF InOrder, rest, n

(* Only the first packet can be read complete and alone, so the counter    *)
(* that the reader finds is the one it expects.                            *)
LEMMA OrderFirst ==
    ASSUME NEW st \in Streams, NEW a \in Nat, NEW b \in Nat, InOrder(st, a, b),
           NEW n, NEW p \in Whole(st, n)
    PROVE  p \in st.pkts /\ p.counter = a /\ p.size = n /\ a < b
<1>1. p \in st.pkts /\ p.at = 0 /\ p.size = n
  BY DEF Whole
<1>2. p.counter \in a..b - 1 /\ a < b
  BY <1>1, OrderFits DEF InOrder
<1>3. PICK q \in st.pkts : q.counter = a
  BY <1>2 DEF InOrder
<1>4. q.counter < p.counter => q.at + q.size <= p.at
  BY <1>1 DEF InOrder
<1>5. q.at \in Nat /\ q.size \in Nat \ {0}
  BY PacketNumbers
<1> QED BY <1>1, <1>2, <1>3, <1>4, <1>5

(* ... and the first packet is read so by a reader that asks for its size. *)
LEMMA FirstWhole ==
    ASSUME NEW st \in Streams, NEW a \in Nat, NEW b \in Nat, InOrder(st, a, b),
           NEW p, In(st, p), p.counter = a
    PROVE  /\ p \in Whole(st, p.size)
           /\ \A n : \A q \in Whole(st, n) : q = p
<1>1. PICK q \in st.pkts : q.counter = a /\ p = [q EXCEPT !.at = 0]
  BY InFacts
<1>2. q.at = 0 /\ q \in PacketFields
  BY <1>1, PacketNumbers DEF InOrder
<1>3. p = q
  BY <1>1, <1>2 DEF PacketFields
<1>4. p.size <= st.len
  <2>1. q.at + q.size <= st.len /\ q.size \in Nat /\ st.len \in Nat
    BY OrderFits, PacketNumbers
  <2> QED BY <1>2, <1>3, <2>1
<1>5. p \in Whole(st, p.size)
  <2>1. p \in st.pkts /\ p.at = 0
    BY <1>2, <1>3
  <2>2. Readable(st, p.size)
    <3>1. p.size \in Nat /\ st.len \in Nat
      BY <2>1, PacketNumbers
    <3> QED BY <1>4, <3>1 DEF Readable
  <2> QED BY <2>1, <2>2 DEF Whole
<1>6. ASSUME NEW n, NEW r \in Whole(st, n) PROVE r = p
  <2>1. r \in st.pkts /\ r.counter = a
    BY OrderFirst
  <2> QED BY <1>1, <1>3, <2>1 DEF InOrder
<1> QED BY <1>5, <1>6

(* A reader that asks for the size of the first packet misses it only when *)
(* the peer has closed its socket.                                         *)
LEMMA OrderMisread ==
    ASSUME NEW st \in Streams, NEW a \in Nat, NEW b \in Nat, InOrder(st, a, b),
           NEW n \in Nat \ {0}, a < b => Whole(st, n) # {},
           NEW peerOpen \in BOOLEAN, NEW rest, Misread(st, n, peerOpen, rest)
    PROVE  ~peerOpen /\ rest = EmptyStream
<1>1. CASE a < b
  BY <1>1 DEF Misread
<1>2. CASE ~(a < b)
  <2>1. a <= b
    BY DEF InOrder
  <2>2. a = b
    BY <1>2, <2>1
  <2>3. st.len = 0
    BY <2>2 DEF InOrder
  <2> QED BY <2>3 DEF Misread, Readable
<1> QED BY <1>1, <1>2

LEMMA InSent ==
    ASSUME NEW st \in Streams, NEW p \in Packets, p.at = 0
    PROVE  /\ In(Sent(st, p), p)
           /\ \A q : In(st, q) => In(Sent(st, p), q)
<1>1. Sent(st, p).pkts = st.pkts \cup {[p EXCEPT !.at = st.len]}
  BY DEF Sent
<1>2. p = [[p EXCEPT !.at = st.len] EXCEPT !.at = 0]
  BY DEF Packets, PacketFields
<1> QED BY <1>1, <1>2 DEF In

LEMMA InDrop ==
    ASSUME NEW st \in Streams, NEW a \in Nat, NEW b \in Nat, InOrder(st, a, b),
           NEW p \in st.pkts, p.counter = a,
           NEW q, In(st, q), q.counter # a
    PROVE  In(Drop(st, p.size), q)
<1>1. PICK r \in st.pkts : r.counter = q.counter /\ q = [r EXCEPT !.at = 0]
  BY InFacts
<1>2. r \in PacketFields /\ r.at \in Nat /\ p.size \in Nat /\ p.at = 0
      /\ r.counter \in a..b - 1
  BY PacketNumbers DEF InOrder
<1>3. p.size <= r.at
  <2>1. p.counter < r.counter
    BY <1>1, <1>2
  <2>2. p.at + p.size <= r.at
    BY <2>1 DEF InOrder
  <2> QED BY <1>2, <2>2
<1> DEFINE moved == [r EXCEPT !.at = r.at - p.size]
<1>4. moved \in Drop(st, p.size).pkts
  BY <1>2, <1>3 DEF Drop
<1>5. q = [moved EXCEPT !.at = 0]
  BY <1>1, <1>2 DEF PacketFields
<1> QED BY <1>4, <1>5 DEF In
=============================================================================

-------------------------------- MODULE Protocol --------------------------------
(* The scan stream and its three readers: ProtocolDecoder (common/Protocol.hpp), *)
(* the Decoder of lidar_viewer.py and _decode_frames of angle_monitor.py.  A      *)
(* connection delivers the stream in chunks of any size; behind the relay of      *)
(* angle_monitor.py it may begin in the middle of a packet.                       *)
(*                                                                               *)
(* A cell stands for a byte of the magic, for the rest of the header, for a       *)
(* point, or for what a newer writer adds.  Which header a cell is, and with      *)
(* which fields, is given by Layouts.                                             *)
EXTENDS Integers, Sequences, SequencesExt

CONSTANTS
    Readers,     \* the readers considered, of {"node", "viewer", "monitor"}
    Layouts,     \* header cells and the fields they carry
    Newer,       \* the header cells that only other writers use
    Scans,       \* what there is to send: sequences of point cells
    Packets,     \* number of packets on the stream
    MaxPoints,   \* kMaxPointsPerFrame
    MaxHeader,   \* kMaxHeaderSize
    MaxStride    \* kMaxPointStride

Magic == <<"1", "A", "E", "B">>
HeaderSize == Len(Magic) + 1
KnownFlags == {"crc"}
Fields == [version : Nat, header : Nat, flags : SUBSET {"crc", "new"}, count : Nat, stride : Nat]

ASSUME ReadersAssumption == Readers \subseteq {"node", "viewer", "monitor"}
\* A cell that stands for the rest of a header is not the first byte of a magic.
ASSUME LayoutsAssumption ==
    /\ Newer \subseteq DOMAIN Layouts
    /\ \A c \in DOMAIN Layouts : Layouts[c] \in Fields
    /\ Magic[1] \notin DOMAIN Layouts
ASSUME BoundsAssumption ==
    /\ Packets \in Nat \ {0}
    /\ MaxPoints \in Nat /\ MaxHeader \in Nat /\ MaxStride \in Nat
    /\ HeaderSize <= MaxHeader

VARIABLES
    reader,   \* who reads
    sent,     \* the packets on the stream
    begun,    \* cells of the first packet that passed before the connection
    wire,     \* cells not yet received
    buffer,   \* cells received and not yet consumed
    draining, \* the reader is in its decode loop
    frames    \* what it decoded

vars == <<reader, sent, begun, wire, buffer, draining, frames>>

PointCells == UNION {Range(s) : s \in Scans}
AllCells == Range(Magic) \cup DOMAIN Layouts \cup PointCells \cup {"added", "crc"}
Frame == [header : DOMAIN Layouts, points : Seq(PointCells)]

TypeOK ==
    /\ reader \in Readers /\ draining \in BOOLEAN
    /\ sent \in Seq(Frame) /\ begun \in Nat
    /\ frames \in Seq([header : DOMAIN Layouts, points : Seq(AllCells)])
    /\ wire \in Seq(AllCells) /\ buffer \in Seq(AllCells)

----------------------------------------------------------------------------
(* Writing                                                                  *)

\* The header of a version 1 packet of n points.
IsV1(c, n) == Layouts[c] = [version |-> 1, header |-> HeaderSize, flags |-> {},
                            count |-> n, stride |-> 1]
V1(n) == CHOOSE c \in DOMAIN Layouts : IsV1(c, n)

\* At most kMaxPointsPerFrame points are written.
Written(scan) == IF Len(scan) > MaxPoints THEN MaxPoints ELSE Len(scan)

ASSUME ScansAssumption ==
    \A s \in Scans :
        s \in Seq(Range(s)) /\ \E c \in DOMAIN Layouts : IsV1(c, Written(s))

\* ProtocolEncoder::encode
Encode(scan) ==
    [header |-> V1(Written(scan)), points |-> SubSeq(scan, 1, Written(scan))]

\* The cells of a packet: magic, header and what a newer writer appends to it,
\* the points with what it appends to each, the trailer.
Added(n) == [i \in 1..n |-> "added"]

Cells(p) ==
    LET h == Layouts[p.header]
    IN  Magic \o <<p.header>> \o Added(h.header - HeaderSize)
        \o FlattenSeq([i \in 1..Len(p.points) |-> <<p.points[i]>> \o Added(h.stride - 1)])
        \o (IF "crc" \in h.flags THEN <<"crc">> ELSE <<>>)

Stream(ps) == FlattenSeq([i \in 1..Len(ps) |-> Cells(ps[i])])

Sendable ==
    {Encode(s) : s \in Scans}
        \cup {p \in [header : Newer, points : Scans] :
                  LET n == Layouts[p.header].count IN Len(p.points) = n \/ n > MaxPoints}

----------------------------------------------------------------------------
(* Reading: one packet at the head of the buffer                            *)

NoHeader == [version |-> 0, header |-> 0, flags |-> {}, count |-> 0, stride |-> 0]
HeaderOf(b) == IF b[HeaderSize] \in DOMAIN Layouts THEN Layouts[b[HeaderSize]] ELSE NoHeader

MagicAt(b, i) == SubSeq(b, i + 1, i + Len(Magic)) = Magic

FlagsKnown(h) == h.flags \subseteq KnownFlags

\* Mutant: no bound on the number of points.
AnyCount(h) == TRUE

CountAllowed(h) == h.count <= MaxPoints

\* The two Python readers know neither the upper bounds nor the flags.
Usable(r, h) ==
    /\ h.version = 1 /\ h.header >= HeaderSize /\ h.stride >= 1
    /\ CountAllowed(h)
    /\ r = "node" => h.header <= MaxHeader /\ h.stride <= MaxStride /\ FlagsKnown(h)

Trailer(h) == IF "crc" \in h.flags THEN 1 ELSE 0
PacketSize(h) == h.header + h.count * h.stride + Trailer(h)

Status(b) ==
    IF Len(b) < HeaderSize THEN "NeedMoreData"
    ELSE IF ~MagicAt(b, 0) THEN "BadMagic"
    ELSE IF ~Usable(reader, HeaderOf(b)) THEN "BadHeader"
    ELSE IF Len(b) < PacketSize(HeaderOf(b)) THEN "NeedMoreData"
    ELSE "Ok"

\* Mutant: points are looked for behind a version 1 header.
BehindV1Header(h, i) == HeaderSize + (i - 1) * h.stride + 1

\* Where the i-th point of a packet is.
PointAt(h, i) == h.header + (i - 1) * h.stride + 1

FrameAt(b) ==
    LET h == HeaderOf(b)
    IN  [header |-> b[HeaderSize], points |-> [i \in 1..h.count |-> b[PointAt(h, i)]]]

\* What a reader hands on: the Python ones leave out points without a return.
HasReturn(c) == c # "none"
Shown(r, f) == IF r = "node" THEN f ELSE [f EXCEPT !.points = SelectSeq(@, HasReturn)]

Drop(b, n) == SubSeq(b, n + 1, Len(b))

\* Mutants: the search begins at the packet just refused; nothing is kept.
FromHere == 0
KeepsNothing == 0

\* Where the search for the next packet begins, and how much is kept if there
\* is none: a magic may straddle the next read.
SearchFrom == 1
Keep == Len(Magic) - 1

Resynchronise(b) ==
    LET found == {i \in SearchFrom..(Len(b) - Len(Magic)) : MagicAt(b, i)}
    IN  IF found # {} THEN Drop(b, CHOOSE i \in found : \A j \in found : i <= j)
        ELSE Drop(b, Len(b) - Keep)

----------------------------------------------------------------------------
(* The loop around it                                                       *)

Init ==
    /\ reader \in Readers
    /\ sent \in [1..Packets -> Sendable]
    /\ begun \in 0..(Len(Cells(sent[1])) - 1)
    /\ wire = Drop(Stream(sent), begun)
    /\ buffer = <<>> /\ draining = FALSE /\ frames = <<>>

Receive ==
    /\ ~draining
    /\ \E n \in 1..Len(wire) :
          /\ buffer' = buffer \o SubSeq(wire, 1, n)
          /\ wire' = Drop(wire, n)
    /\ draining' = TRUE
    /\ UNCHANGED <<reader, sent, begun, frames>>

DecodeOk ==
    /\ draining /\ Status(buffer) = "Ok"
    /\ frames' = Append(frames, Shown(reader, FrameAt(buffer)))
    /\ buffer' = Drop(buffer, PacketSize(HeaderOf(buffer)))
    /\ UNCHANGED <<reader, sent, begun, wire, draining>>

NeedMoreData ==
    /\ draining /\ Status(buffer) = "NeedMoreData"
    /\ draining' = FALSE
    /\ UNCHANGED <<reader, sent, begun, wire, buffer, frames>>

\* The user of ProtocolDecoder resynchronises and goes on, as Protocol.hpp
\* asks; the monitor skips one byte of a packet it cannot use.
Refuse ==
    /\ draining /\ reader # "viewer" /\ Status(buffer) \in {"BadMagic", "BadHeader"}
    /\ buffer' = IF reader = "monitor" /\ Status(buffer) = "BadHeader"
                   THEN Drop(buffer, 1)
                   ELSE Resynchronise(buffer)
    /\ UNCHANGED <<reader, sent, begun, wire, draining, frames>>

\* The viewer resynchronises, and its loop takes that for the end of the data.
RefuseAndLeave ==
    /\ draining /\ reader = "viewer" /\ Status(buffer) \in {"BadMagic", "BadHeader"}
    /\ buffer' = Resynchronise(buffer)
    /\ draining' = FALSE
    /\ UNCHANGED <<reader, sent, begun, wire, frames>>

Decode == DecodeOk \/ NeedMoreData \/ Refuse \/ RefuseAndLeave

Finished == ~draining /\ wire = <<>> /\ UNCHANGED vars

Next == Receive \/ Decode \/ Finished

Spec == Init /\ [][Next]_vars

\* The decode loop is a loop of one thread.
FairSpec == Spec /\ WF_vars(Decode)

----------------------------------------------------------------------------
(* Properties                                                               *)

\* What reader r should get of the packets ps when b cells of the first are missing: every
\* one that began after the connection did and that it can use, in order.
IsReadable(r, ps, b, i) == (i > 1 \/ b = 0) /\ Usable(r, Layouts[ps[i].header])
Readable(r, ps, b) ==
    LET upTo[i \in 0 .. Len(ps)] ==
            IF i = 0 THEN <<>>
            ELSE IF IsReadable(r, ps, b, i) THEN Append(upTo[i - 1], ps[i])
            ELSE upTo[i - 1]
    IN  upTo
UsablePackets == Readable(reader, sent, begun)[Len(sent)]
Expected == [i \in 1..Len(UsablePackets) |-> Shown(reader, UsablePackets[i])]

\* The reader meets cells that are no packet it can use, and searches on.
Resynchronises == begun > 0 \/ \E i \in 1..Len(sent) : ~Usable(reader, Layouts[sent[i].header])

\* The points of a packet spell a magic.  Nothing in the format tells a reader
\* that searches from one that was meant.
Spelled ==
    \E i \in 1..Len(sent) : \E k \in 0..(Len(sent[i].points) - Len(Magic)) : MagicAt(sent[i].points, k)

Decidable == ~(Resynchronises /\ Spelled)

\* Whatever the chunks, wherever the connection begins and whatever must be
\* refused, no frame is made up, torn, repeated or taken out of order, as long
\* as no search meets points that spell a magic (Protocol.hpp:343-410).
OnlyWhatWasSent == Decidable => IsPrefix(frames, Expected)

\* A usable packet that was not decoded is still in the buffer, whole.
IsBuffered(p) ==
    LET c == Cells(p)
    IN  \E k \in 0..(Len(buffer) - Len(c)) : SubSeq(buffer, k + 1, k + Len(c)) = c

\* When everything was received and the loop has ended, every packet that can
\* be used was decoded: a resynchronisation skips none, also where a magic
\* straddles two chunks (Protocol.hpp:421-440).  The viewer's loop ends at a
\* resynchronisation, which delays packets and loses none (lidar_viewer.py:53-125).
NothingLost ==
    (~draining /\ wire = <<>> /\ Decidable) =>
        IF reader = "viewer" /\ Resynchronises
          THEN \A i \in (Len(frames) + 1)..Len(UsablePackets) : IsBuffered(UsablePackets[i])
          ELSE frames = Expected

\* Between two reads the decoder of the node holds less than the largest packet
\* it accepts, whatever the headers claim (Protocol.hpp:104-117).
BufferBounded ==
    reader = "node" /\ ~draining => Len(buffer) < MaxHeader + MaxPoints * MaxStride + 1

\* Every turn of the decode loop ends: no refused packet is found again.
DrainEnds == draining ~> ~draining
================================================================================

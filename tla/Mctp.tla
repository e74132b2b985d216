-------------------------------- MODULE Mctp --------------------------------
(***************************************************************************)
(* Two endpoints that exchange MCTP messages, each through an              *)
(* MctpPacketContext of mctp-rs, over a link that may lose, repeat or      *)
(* corrupt packets.  While a message is being serialized the context is    *)
(* borrowed, so an endpoint does not receive until its packets are out.    *)
(***************************************************************************)
EXTENDS MctpWire

CONSTANTS
    Endpoints,       \* the two endpoints
    Script,          \* per endpoint: the messages it sends, each with a tag of its own
    CorruptAt,       \* the places at which a packet may be corrupted
    MaxFaults        \* bound: packets lost, repeated or corrupted; less than SequenceMax,
                     \* the longest gap that sequence numbers tell

VARIABLES
    medium,          \* the medium of the link
    assembly,        \* per endpoint: AssemblyState
    tx,              \* per endpoint: the SerializePacketState, or None
    turn,            \* per endpoint: messages it has begun or given up
    wire,            \* per endpoint: the packets on their way to it
    sent,            \* per endpoint: history, the messages serialized
    delivered,       \* per endpoint: history, the messages assembled
    long,            \* history: a message took more than two packets
    faults, corrupted

mctpVars == <<medium, assembly, tx, turn, wire, sent, delivered, long, faults, corrupted>>

Idle == [state |-> "Idle"]

Peer(e) == CHOOSE p \in Endpoints : p # e

\* The reply context of a message: where it goes, its tag, the last number.
ReplyTo(e, tag) ==
    [source |-> 8, destination |-> 9, seq |-> 0, tag |-> tag,
     context |-> [source |-> 16, destination |-> 17]]

Init ==
    /\ medium \in Media
    /\ assembly = [e \in Endpoints |-> Idle]
    /\ tx = [e \in Endpoints |-> None]
    /\ turn = [e \in Endpoints |-> 0]
    /\ wire = [e \in Endpoints |-> <<>>]
    /\ sent = [e \in Endpoints |-> <<>>]
    /\ delivered = [e \in Endpoints |-> <<>>]
    /\ long = FALSE
    /\ faults = 0
    /\ corrupted = FALSE

\* serialize_packet: refused while a message is being assembled; a message that
\* does not fit is refused as well.
SerializePacket(e) ==
    LET i == turn[e] + 1
        m == Script[e][i]
        bytes == SerializeMessage(m.message)
    IN  /\ tx[e] = None
        /\ i <= Len(Script[e])
        /\ turn' = [turn EXCEPT ![e] = i]
        /\ IF assembly[e] = Idle /\ bytes # None
           THEN /\ tx' = [tx EXCEPT ![e] = [left |-> bytes, length |-> Len(bytes),
                                            num |-> 0, reply |-> ReplyTo(e, m.tag)]]
                /\ sent' = [sent EXCEPT ![e] = Append(@, m)]
           ELSE UNCHANGED <<tx, sent>>
        /\ UNCHANGED <<medium, assembly, wire, delivered, long, faults, corrupted>>

\* next: a packet goes out, or the message is given up, or it is complete.
NextOut(e) ==
    /\ tx[e] # None
    /\ \E n \in {NextPacket(medium, tx[e])} :
           IF tx[e].left = <<>> \/ n = None
           THEN /\ tx' = [tx EXCEPT ![e] = None]
                /\ sent' = IF tx[e].left = <<>> THEN sent
                           ELSE [sent EXCEPT ![e] = SubSeq(@, 1, Len(@) - 1)]
                /\ UNCHANGED <<wire, long>>
           ELSE /\ tx' = [tx EXCEPT ![e] = n.tx]
                /\ wire' = [wire EXCEPT ![Peer(e)] = Append(@, n.packet)]
                /\ long' = (long \/ tx[e].num = 2)
                /\ UNCHANGED sent
    /\ UNCHANGED <<medium, assembly, turn, delivered, faults, corrupted>>

-----------------------------------------------------------------------------
\* deserialize_packet

Begin(h) ==
    [state |-> "Receiving", tag |-> h.tag, owner |-> h.owner, source |-> h.source,
     seq |-> h.seq, buffer |-> <<>>]

\* Mutant of Fits: the tag is not compared.
FitsNoTag(a, h) ==
    IF a = Idle THEN h.som = 1
    ELSE /\ h.som = 0
         /\ a.owner = h.owner
         /\ a.source = h.source
         /\ h.seq = NextSequence(a.seq)

\* The packet begins a message, or is the next one of the message in assembly.
\* The number compared is that of the first packet, which Receive never moves.
Fits(a, h) ==
    IF a = Idle THEN h.som = 1
    ELSE /\ h.som = 0
         /\ a.tag = h.tag
         /\ a.owner = h.owner
         /\ a.source = h.source
         /\ h.seq = NextSequence(a.seq)

\* The header a frame begins with, and where on the wire the body follows.
HeaderOf(frame) ==
    LET head == ReadBytes(medium, frame.wire, 1, 4)
        h    == UnpackHeader(head.bytes)
    IN  IF frame = None \/ ~head.ok \/ h = None THEN None
        ELSE [header |-> h, at |-> head.at]

\* The bytes that a frame adds to the assembly, None when it is refused.
BodyOf(a, frame, h) ==
    LET body == ReadBytes(medium, frame.wire, h.at, frame.size - 4)
        held == IF a = Idle THEN 0 ELSE Len(a.buffer)
    IN  IF \/ h = None \/ ~Fits(a, h.header)
           \/ frame.size < 4
           \/ held + frame.size - 4 > AssemblySize
           \/ ~body.ok
        THEN None
        ELSE [header |-> h.header, bytes |-> body.bytes]

Payload(a, frame) == BodyOf(a, frame, HeaderOf(frame))

\* The bytes are added, and the last packet ends the message.
Assemble(e, state, p) ==
    LET all == state.buffer \o p.bytes
    IN  IF p.header.eom = 1
        THEN /\ assembly' = [assembly EXCEPT ![e] = Idle]
             /\ delivered' = IF all = <<>> THEN delivered
                             ELSE [delivered EXCEPT
                                      ![e] = Append(@, [bytes |-> all, tag |-> p.header.tag])]
        ELSE /\ assembly' = [assembly EXCEPT ![e] = [state EXCEPT !.buffer = all]]
             /\ UNCHANGED delivered

\* A packet that is refused leaves the assembly as it was.
Receive(e) ==
    /\ tx[e] = None
    /\ wire[e] # <<>>
    /\ wire' = [wire EXCEPT ![e] = Tail(@)]
    /\ \E p \in {Payload(assembly[e], Deserialize(medium, Head(wire[e])))} :
           IF p = None THEN UNCHANGED <<assembly, delivered>>
           ELSE Assemble(e, IF assembly[e] = Idle THEN Begin(p.header) ELSE assembly[e], p)
    /\ UNCHANGED <<medium, tx, turn, sent, long, faults, corrupted>>

-----------------------------------------------------------------------------
\* The link

Fault ==
    /\ faults < MaxFaults
    /\ faults' = faults + 1
    /\ UNCHANGED <<medium, assembly, tx, turn, sent, delivered, long>>

Lose(e) ==
    /\ wire[e] # <<>>
    /\ wire' = [wire EXCEPT ![e] = Tail(@)]
    /\ UNCHANGED corrupted
    /\ Fault

Repeat(e) ==
    /\ wire[e] # <<>>
    /\ wire' = [wire EXCEPT ![e] = Append(@, Head(@))]
    /\ UNCHANGED corrupted
    /\ Fault

Corrupt(e, i) ==
    /\ wire[e] # <<>>
    /\ i <= Len(Head(wire[e]))
    /\ wire' = [wire EXCEPT ![e][1][i] = (@ + 1) % 256]
    /\ corrupted' = TRUE
    /\ Fault

Next ==
    \E e \in Endpoints :
        \/ SerializePacket(e) \/ NextOut(e) \/ Receive(e)
        \/ Lose(e) \/ Repeat(e)
        \/ \E i \in CorruptAt : Corrupt(e, i)

Spec == Init /\ [][Next]_mctpVars

-----------------------------------------------------------------------------

TypeOK ==
    \A e \in Endpoints :
        /\ assembly[e] # Idle => Len(assembly[e].buffer) <= AssemblySize
        /\ \A i \in 1 .. Len(wire[e]) : \A b \in 1 .. Len(wire[e][i]) : wire[e][i][b] \in 0 .. 255
        /\ turn[e] \in 0 .. Len(Script[e])
        /\ faults \in 0 .. MaxFaults

IsOf(d, m) == d.tag = m.tag /\ ParseAs(m.message.type, d.bytes) = m.message

\* No splice: whatever the link loses or repeats, a message that is assembled is
\* one the peer sent, byte for byte and tag for tag: the serial checksum refuses
\* what is corrupted.  (SMBus keeps the PEC and does not compare it; for long
\* messages see MultiplePackets.)
NoSplice ==
    \A e \in Endpoints : \A i \in 1 .. Len(delivered[e]) :
        \/ long
        \/ corrupted /\ medium = "SmbusEspi"
        \/ \E j \in 1 .. Len(sent[Peer(e)]) : IsOf(delivered[e][i], sent[Peer(e)][j])

\* The messages arrive in order, and all of them have once everything is quiet.
InOrder(e) ==
    LET d == delivered[e]
        s == sent[Peer(e)]
    IN  /\ Len(d) <= Len(s)
        /\ \A i \in 1 .. Len(d) : IsOf(d[i], s[i])
        /\ (wire[e] = <<>> /\ tx[Peer(e)] = None) => Len(d) = Len(s)

\* A link without faults delivers every message of one or two packets.
ShortInOrder == faults = 0 /\ ~long => \A e \in Endpoints : InOrder(e)

\* The framing of a byte stream finds each frame where it ends, and not before.
FrameFound(p) ==
    /\ FrameComplete(medium, p) = Len(p)
    /\ \A n \in {3, 4, Len(p) - 1} : FrameComplete(medium, SubSeq(p, 1, n)) = None

\* The frames that hold the flag only at the end.
FramesFound ==
    \A e \in Endpoints : \A i \in 1 .. Len(wire[e]) :
        \/ corrupted
        \/ medium = "Serial" /\ wire[e][i][2] = EndFlag
        \/ FrameFound(wire[e][i])

MctpHonest == TypeOK /\ NoSplice /\ ShortInOrder /\ FramesFound

\* "Context for serializing and deserializing an MCTP message, which may be split
\* among multiple packets": mctp_packet_context.rs.
MultiplePackets == faults = 0 => \A e \in Endpoints : InOrder(e)

=============================================================================

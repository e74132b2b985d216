------------------------------ MODULE MctpWire ------------------------------
(***************************************************************************)
(* The wire format of mctp-rs: the byte stuffing of buffer_encoding.rs and *)
(* medium/serial.rs, the frames of the serial and the SMBus/eSPI medium,   *)
(* the transport header, the split of a message into packets               *)
(* (SerializePacketState::next) and the headers of the control, the vendor *)
(* defined and the ODP messages.  Bytes are numbers; the two checksums are *)
(* external and stand for themselves by any function of the bytes.         *)
(***************************************************************************)
EXTENDS Naturals, Sequences

CONSTANTS
    None,            \* an Option that is None, or a Result that is an Err
    Mtu,             \* per medium: max_message_body_size
    AssemblySize,    \* the bytes of the packet assembly buffer
    Services         \* the ids of OdpService

Media == {"Serial", "SmbusEspi"}

EndFlag == 126
Escape  == 125
SerialRevision == 1
ConstMtu == 251

Upto(n) == [i \in 1 .. n |-> i]

\* A sequence folded from its first element.
Accumulate(op(_, _), base, s) ==
    LET upto[n \in 0 .. Len(s)] == IF n = 0 THEN base ELSE op(upto[n - 1], s[n])
    IN  upto[Len(s)]

-----------------------------------------------------------------------------
\* BufferEncoding: PassthroughEncoding and SerialEncoding

Stuffed(medium, b) == medium = "Serial" /\ b \in {EndFlag, Escape}

WriteByte(medium, b) ==
    IF Stuffed(medium, b) THEN <<Escape, IF b = EndFlag THEN 94 ELSE 93>> ELSE <<b>>

WriteAll(medium, bytes) ==
    Accumulate(LAMBDA wire, b : wire \o WriteByte(medium, b), <<>>, bytes)

WireSizeOf(medium, bytes) ==
    Accumulate(LAMBDA n, b : n + (IF Stuffed(medium, b) THEN 2 ELSE 1), 0, bytes)

\* read_byte: the byte at a place of the wire and the wire bytes it takes, 0
\* when the wire ends or the escape is invalid.
ReadByte(medium, wire, at) ==
    LET plain == at <= Len(wire) /\ ~(medium = "Serial" /\ wire[at] = Escape)
        pair  == at < Len(wire) /\ ~plain /\ wire[at + 1] \in {93, 94}
    IN  CASE plain -> [byte |-> wire[at], used |-> 1]
          [] pair  -> [byte |-> IF wire[at + 1] = 94 THEN EndFlag ELSE Escape, used |-> 2]
          [] OTHER -> [byte |-> 0, used |-> 0]

\* n reads of an EncodingDecoder from a place on.
ReadBytes(medium, wire, from, n) ==
    Accumulate(LAMBDA acc, i :
                   LET r == ReadByte(medium, wire, acc.at)
                   IN  IF ~acc.ok \/ r.used = 0 THEN [acc EXCEPT !.ok = FALSE]
                       ELSE [ok |-> TRUE, at |-> acc.at + r.used,
                             bytes |-> Append(acc.bytes, r.byte),
                             bare |-> acc.bare \/ (r.used = 1 /\ r.byte = EndFlag)],
               [ok |-> TRUE, at |-> from, bytes |-> <<>>, bare |-> FALSE], Upto(n))

-----------------------------------------------------------------------------
\* The media

\* crc::CRC_16_IBM_SDLC and smbus_pec::pec
Checksum(bytes) == Accumulate(LAMBDA sum, b : (sum * 31 + b + 7) % 65536, 65535, bytes)
Fcs(bytes) == <<Checksum(bytes) \div 256, Checksum(bytes) % 256>>
Pec(bytes) == Checksum(bytes) % 256

\* What a frame adds to its body: revision, byte count and the worst trailer;
\* the SMBus header and the PEC.
FrameOverhead(medium) == IF medium = "Serial" THEN 7 ELSE 5

\* MctpMedium::serialize, its message_writer having written the body.  The
\* serial byte count is not stuffed.
SerialFrame(body) ==
    LET head == <<SerialRevision, Len(body)>>
    IN  head \o WriteAll("Serial", body) \o WriteAll("Serial", Fcs(head \o body))
             \o <<EndFlag>>

SmbusFrame(context, body) ==
    LET packet == <<context.source * 2, 15, Len(body), context.destination * 2 + 1>>
                  \o body
    IN  Append(packet, Pec(packet))

Frame(medium, context, body) ==
    IF medium = "Serial" THEN SerialFrame(body) ELSE SmbusFrame(context, body)

\* deserialize, its reader having read the body and the trailer.
SerialBody(packet, body, trailer) ==
    IF \/ Len(packet) < 5
       \/ packet[1] # SerialRevision
       \/ packet[2] > ConstMtu
       \/ ~body.ok \/ body.bare \/ ~trailer.ok
       \/ trailer.at > Len(packet)
       \/ packet[trailer.at] # EndFlag
       \/ trailer.at # Len(packet)
       \/ trailer.bytes # Fcs(SubSeq(packet, 1, 2) \o body.bytes)
    THEN None
    ELSE [size |-> packet[2], wire |-> SubSeq(packet, 3, body.at - 1), context |-> None]

SerialDeserialize(packet) ==
    LET body == ReadBytes("Serial", packet, 3, packet[2])
    IN  SerialBody(packet, body, ReadBytes("Serial", packet, body.at, 2))

\* SmbusEspiMediumHeader: two addresses with the bits that go with them, the
\* command code and the byte count; None when a bit or the code is another.
SmbusHeader(bytes) ==
    IF bytes[1] % 2 # 0 \/ bytes[2] # 15 \/ bytes[4] % 2 # 1 THEN None
    ELSE [destination |-> bytes[1] \div 2, count |-> bytes[3], source |-> bytes[4] \div 2]

\* The PEC is kept and not compared.
SmbusDeserialize(packet) ==
    LET h == SmbusHeader(packet)
    IN  IF Len(packet) < 4 \/ h = None \/ h.count + 1 > Len(packet) - 4 THEN None
        ELSE [size |-> h.count, wire |-> SubSeq(packet, 5, 4 + h.count),
              context |-> [destination |-> h.destination, source |-> h.source]]

Deserialize(medium, packet) ==
    IF medium = "Serial" THEN SerialDeserialize(packet) ELSE SmbusDeserialize(packet)

\* frame_complete: the bytes of the frame a buffer begins with, None while it is
\* partial.
SerialFrameComplete(buf) ==
    LET start == IF buf # <<>> /\ buf[1] = EndFlag THEN 2 ELSE 1
        ends  == {i \in start .. Len(buf) : buf[i] = EndFlag}
    IN  IF ends = {} THEN None ELSE CHOOSE i \in ends : \A j \in ends : i <= j

SmbusFrameComplete(buf) ==
    IF Len(buf) < 4 \/ Len(buf) < 5 + buf[3] THEN None ELSE 5 + buf[3]

FrameComplete(medium, buf) ==
    IF medium = "Serial" THEN SerialFrameComplete(buf) ELSE SmbusFrameComplete(buf)

-----------------------------------------------------------------------------
\* The transport header (mctp_transport_header.rs) and its parts

SequenceMax == 4

NextSequence(n) == (n + 1) % SequenceMax

EndpointIds == {0} \cup 8 .. 255

\* MctpMessageTag: three bits
TagOf(byte) == byte % 8

PackHeader(h) ==
    <<1, h.destination, h.source,
      h.som * 128 + h.eom * 64 + h.seq * 16 + h.owner * 8 + h.tag>>

UnpackHeader(bytes) ==
    IF {bytes[2], bytes[3]} \subseteq EndpointIds
    THEN [destination |-> bytes[2], source |-> bytes[3],
          som |-> bytes[4] \div 128, eom |-> (bytes[4] \div 64) % 2,
          seq |-> (bytes[4] \div 16) % 4, owner |-> (bytes[4] \div 8) % 2,
          tag |-> TagOf(bytes[4])]
    ELSE None

-----------------------------------------------------------------------------
\* SerializePacketState::next

\* The longest prefix of a message whose wire bytes fit a budget.
Chunk(medium, bytes, budget) ==
    Accumulate(LAMBDA acc, b :
                   LET cost == WireSizeOf(medium, <<b>>)
                   IN  IF ~acc.open \/ acc.used + cost > budget
                       THEN [acc EXCEPT !.open = FALSE]
                       ELSE [acc EXCEPT !.size = @ + 1, !.used = @ + cost],
               [size |-> 0, used |-> 0, open |-> TRUE], bytes)

ChunkSize(medium, bytes, budget) == Chunk(medium, bytes, budget).size

\* A reply goes to where the request came from, so source and destination
\* change places.
ReplyHeader(tx, eom) ==
    PackHeader([destination |-> tx.reply.source, source |-> tx.reply.destination,
                som |-> IF tx.num = 0 THEN 1 ELSE 0, eom |-> eom,
                seq |-> NextSequence(tx.reply.seq), owner |-> 0, tag |-> tx.reply.tag])

\* The packet of the first n bytes that are left, and the state after it.
PacketOf(medium, tx, n, max) ==
    LET last  == n = Len(tx.left)
        bytes == ReplyHeader(tx, IF last THEN 1 ELSE 0) \o SubSeq(tx.left, 1, n)
    IN  IF n = 0 \/ WireSizeOf(medium, bytes) > max THEN None
        ELSE [packet |-> Frame(medium, tx.reply.context, bytes),
              tx |-> [tx EXCEPT !.left = SubSeq(@, n + 1, Len(@)), !.num = @ + 1,
                                !.reply.seq = NextSequence(@)]]

\* The next packet of a message being sent within a limit of wire bytes, or None
\* when the header, or nothing of the body, fits.
PacketWithin(medium, tx, max) ==
    LET first == WireSizeOf(medium, ReplyHeader(tx, 0))
    IN  IF first > max THEN None
        ELSE PacketOf(medium, tx, ChunkSize(medium, tx.left, max - first), max)

NextPacket(medium, tx) ==
    LET used == tx.length + FrameOverhead(medium)
    IN  IF AssemblySize < used THEN None
        ELSE PacketWithin(medium, tx, IF Mtu[medium] <= AssemblySize - used THEN Mtu[medium]
                                      ELSE AssemblySize - used)

-----------------------------------------------------------------------------
\* Messages: control, vendor defined and ODP

MessageType == [Control |-> 0, Vendor |-> 126, Odp |-> 125]

CommandCodes    == 0 .. 20
CompletionCodes == 0 .. 5 \cup 128 .. 255
SetEndpointId   == 1
GetEndpointId   == 2

\* check_request_and_completion_code
CompletionFits(request, completion) == ~(request = 1 /\ completion # 0)

\* MctpControl: the bytes of the body of each request and response, None for
\* the commands that are not served.
ControlBody(request, command) ==
    CASE command = SetEndpointId -> IF request = 1 THEN 2 ELSE 3
      [] command = GetEndpointId -> IF request = 1 THEN 0 ELSE 3
      [] OTHER -> None

ControlHeader(m) ==
    IF CompletionFits(m.request, m.completion)
    THEN <<m.request * 128 + m.datagram * 64 + (m.instance % 32), m.command, m.completion>>
    ELSE None

VendorHeader(m) == <<m.vendor \div 256, m.vendor % 256>>

\* OdpHeader: request or result, the service, the error bit and the message id.
OdpHeader(m) ==
    <<m.request * 2, m.service, m.error * 128 + ((m.id \div 256) % 128), m.id % 256>>

SerializeHeader(m) ==
    CASE m.type = "Control" -> ControlHeader(m)
      [] m.type = "Vendor" -> VendorHeader(m)
      [] m.type = "Odp" -> OdpHeader(m)

\* serialize_packet: the message type, the header and the body, one after the
\* other in the assembly buffer; None when a part does not fit or is refused.
SerializeMessage(m) ==
    LET head == SerializeHeader(m)
    IN  IF head = None \/ 1 + Len(head) + Len(m.body) > AssemblySize THEN None
        ELSE <<MessageType[m.type]>> \o head \o m.body

\* parse_message_body and parse_as: the message a type reads from the bytes.
ParseAs(type, bytes) ==
    LET at(i) == bytes[i + 1]
        from(i) == SubSeq(bytes, i + 1, Len(bytes))
    IN  IF bytes = <<>> \/ bytes[1] % 128 # MessageType[type] THEN None
        ELSE CASE type = "Control" ->
                    LET request == at(1) \div 128
                        size    == ControlBody(request, at(2))
                    IN  IF \/ Len(bytes) < 4
                           \/ at(2) \notin CommandCodes
                           \/ at(3) \notin CompletionCodes
                           \/ ~CompletionFits(request, at(3))
                           \/ size = None
                           \/ Len(from(4)) < size
                        THEN None
                        ELSE [type |-> type, request |-> request,
                              datagram |-> (at(1) \div 64) % 2, instance |-> at(1) % 32,
                              command |-> at(2), completion |-> at(3),
                              body |-> SubSeq(from(4), 1, size)]
               [] type = "Vendor" ->
                    IF Len(bytes) < 3 THEN None
                    ELSE [type |-> type, vendor |-> at(1) * 256 + at(2), body |-> from(3)]
               [] type = "Odp" ->
                    IF Len(bytes) < 5 \/ at(2) \notin Services THEN None
                    ELSE [type |-> type, request |-> (at(1) \div 2) % 2, service |-> at(2),
                          error |-> at(3) \div 128, id |-> (at(3) % 128) * 256 + at(4),
                          body |-> from(5)]

=============================================================================

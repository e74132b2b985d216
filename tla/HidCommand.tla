----------------------------- MODULE HidCommand -----------------------------
(***************************************************************************)
(* The HID-over-I2C commands of embedded-service hid/command.rs: how a     *)
(* command is laid out for a device (encode_into_slice) and how the host   *)
(* side of hid-service reads one off the bus (process_command) and makes a *)
(* Command of it (Command::new).  A message is a sequence of fields, each  *)
(* with its width in bytes and its value.                                  *)
(***************************************************************************)
EXTENDS Naturals, Sequences

CONSTANTS
    None,            \* an Option that is None
    CommandReg,      \* RegisterFile::command_reg, Descriptor::w_command_register
    DataReg          \* RegisterFile::data_reg, Descriptor::w_data_register

Opcode ==
    [Reset |-> 1, GetReport |-> 2, SetReport |-> 3, GetIdle |-> 4, SetIdle |-> 5,
     GetProtocol |-> 6, SetProtocol |-> 7, SetPower |-> 8, Vendor |-> 14]

ReportType == [Input |-> 1, Output |-> 2, Feature |-> 3]

\* PowerState: On and Sleep
PowerValues == {0, 1}

ExtendedReportId == 15

RequiresHostData(op) == op \in {"SetReport", "SetIdle", "Vendor"}
RequiresReportId(op) == op \in {"GetReport", "SetReport", "GetIdle", "SetIdle"}
HasResponse(op)      == op \in {"GetReport", "GetIdle", "GetProtocol"}

Word(v) == [width |-> 2, value |-> v]
Byte(v) == [width |-> 1, value |-> v]

\* A command: its opcode, and the parts its opcode uses.
Command(op, type, id, data, value) ==
    [op |-> op, type |-> type, id |-> id, data |-> data, value |-> value]

-----------------------------------------------------------------------------
\* Encoding

\* encode_common: opcode, report type and id in one word; an id that does not
\* fit its four bits follows in a byte of its own.
EncodeCommon(op, type, id) ==
    LET base == Opcode[op] * 256 + (IF type = None THEN 0 ELSE ReportType[type] * 16)
    IN  IF id >= ExtendedReportId THEN <<Word(base + ExtendedReportId), Byte(id)>>
        ELSE <<Word(base + id)>>

EncodeBasic(op) == <<Word(Opcode[op] * 256)>>

EncodeRegister(reg) == IF reg = None THEN <<>> ELSE <<Word(reg)>>

\* encode_value, encode_data: the length counts itself.
EncodeValue(v) == <<Word(4), Word(v)>>

EncodeData(d) == <<Word(d.width + 2), d>>

\* encode_into_slice
Encode(c, commandReg, dataReg) ==
    EncodeRegister(commandReg) \o
    CASE c.op \in {"Reset", "Vendor"} -> EncodeBasic(c.op)
      [] c.op \in {"GetReport", "GetIdle"} ->
           EncodeCommon(c.op, c.type, c.id) \o EncodeRegister(dataReg)
      [] c.op = "SetReport" ->
           EncodeCommon(c.op, c.type, c.id) \o EncodeRegister(dataReg) \o EncodeData(c.data)
      [] c.op = "SetIdle" ->
           EncodeCommon(c.op, None, c.id) \o EncodeRegister(dataReg) \o EncodeValue(c.value)
      [] c.op = "GetProtocol" -> EncodeBasic(c.op) \o EncodeRegister(dataReg)
      [] c.op = "SetProtocol" ->
           EncodeBasic(c.op) \o EncodeRegister(dataReg) \o EncodeValue(c.value)
      [] c.op = "SetPower" -> <<Word(Opcode[c.op] * 256 + c.value)>>

\* handle_command: a command without response carries the data register only
\* when its opcode has host data.
EncodeForDevice(c) ==
    Encode(c, CommandReg,
           IF HasResponse(c.op) \/ RequiresHostData(c.op) THEN DataReg ELSE None)

\* The bytes a message takes.
WidthOf(fields) ==
    LET Sum[n \in 0 .. Len(fields)] == IF n = 0 THEN 0 ELSE Sum[n - 1] + fields[n].width
    IN  Sum[Len(fields)]

-----------------------------------------------------------------------------
\* Decoding

OpcodeOf(cmd) ==
    LET ops == {op \in DOMAIN Opcode : Opcode[op] = (cmd \div 256) % 16}
    IN  IF ops = {} THEN None ELSE CHOOSE op \in ops : TRUE

TypeOf(cmd) ==
    LET types == {t \in DOMAIN ReportType : ReportType[t] = (cmd \div 16) % 4}
    IN  IF types = {} THEN None ELSE CHOOSE t \in types : TRUE

Refused == [op |-> None]

\* Command::new: what each opcode needs, and where it takes its value from: the
\* command word itself.
New(cmd, op, type, id, data) ==
    CASE RequiresReportId(op) /\ id = None -> Refused
      [] RequiresHostData(op) /\ data = None /\ op # "Vendor" -> Refused
      [] op = "GetReport" ->
           IF type \in {"Input", "Feature"} THEN Command(op, type, id, None, None) ELSE Refused
      [] op = "SetReport" ->
           IF type \in {"Output", "Feature"} THEN Command(op, type, id, data, None) ELSE Refused
      [] op = "GetIdle" -> Command(op, None, id, None, None)
      [] op = "SetIdle" -> Command(op, None, id, None, cmd)
      [] op = "SetProtocol" ->
           IF cmd \in {0, 1} THEN Command(op, None, None, None, cmd) ELSE Refused
      [] op = "SetPower" ->
           IF cmd % 4 \in PowerValues THEN Command(op, None, None, None, cmd % 4)
           ELSE Refused
      [] OTHER -> Command(op, None, None, None, None)

\* The next field of a message, when it has the width the reader asks for.
Takes(fields, i, width) == i <= Len(fields) /\ fields[i].width = width

\* process_command: the word, the id, the data register and the host's data are
\* read in turn; what does not come in the expected shape is refused.
Decode(fields) ==
    IF ~Takes(fields, 1, 2) \/ OpcodeOf(fields[1].value) = None THEN Refused
    ELSE
    LET cmd  == fields[1].value
        op   == OpcodeOf(cmd)
        ext  == RequiresReportId(op) /\ cmd % 16 = ExtendedReportId
        reg  == IF ext THEN 3 ELSE 2
        access == RequiresHostData(op) \/ HasResponse(op)
        id   == CASE ~RequiresReportId(op) -> None
                  [] RequiresReportId(op) /\ ~ext -> cmd % 16
                  [] ext /\ Takes(fields, 2, 1) -> fields[2].value
                  [] OTHER -> None
        data == IF RequiresHostData(op) THEN fields[reg + 2] ELSE None
    IN  IF \/ ext /\ ~Takes(fields, 2, 1)
           \/ access /\ ~(Takes(fields, reg, 2) /\ fields[reg].value = DataReg)
           \/ RequiresHostData(op) /\
                 ~(/\ Takes(fields, reg + 1, 2)
                   /\ fields[reg + 1].value >= 2
                   /\ Takes(fields, reg + 2, fields[reg + 1].value - 2))
        THEN Refused
        ELSE New(cmd, op, TypeOf(cmd), id, data)

=============================================================================

--------------------------------- MODULE Codec ---------------------------------
(***************************************************************************)
(* The wire formats: nfv3_parser.py and nfv4_codec.py.  A datagram is      *)
(* [version, type, body]: the header of magic, version and type byte is    *)
(* taken as read, the body is a sequence of bytes.  A byte holds Base      *)
(* values and numbers are little-endian, so that fields wrap at their      *)
(* width; with Base = 256 these are the formats of struct.pack.            *)
(*                                                                         *)
(* A format is a sequence of <<field, width>>.  Fields named "_" are       *)
(* reserved and sent as zero.                                              *)
(***************************************************************************)
EXTENDS Integers, Sequences, SequencesExt, FiniteSetsExt, TLC

CONSTANT Base       \* values of a byte, enough for two of them to say how long a probe is

ASSUME BaseAssumption == Base \in Nat /\ Base >= 8

None == [type |-> "none"]
IsNone(packet) == packet.type = "none"

Bytes(v, width) == [i \in 1..width |-> (v \div Base ^ (i - 1)) % Base]

NumberAt(body, offset, width) ==
    FoldLeft(LAMBDA sum, i : sum + body[offset + i] * Base ^ (i - 1), 0, [i \in 1..width |-> i])

Size(format) == FoldLeft(LAMBDA sum, f : sum + f[2], 0, format)

Pack(format, rec) ==
    FlattenSeq([i \in DOMAIN format |->
        Bytes(IF format[i][1] \in DOMAIN rec THEN rec[format[i][1]] ELSE 0, format[i][2])])

\* unpack_from at an offset: the fields of the format, reserved ones left out.
UnpackAt(format, body, offset) ==
    LET at(i) == offset + Size(SubSeq(format, 1, i - 1))
        index(name) == CHOOSE i \in DOMAIN format : format[i][1] = name
    IN [name \in {format[i][1] : i \in DOMAIN format} \ {"_"} |->
          NumberAt(body, at(index(name)), format[index(name)][2])]

Typed(type, fields) == [type |-> type, fields |-> fields]

\* A packet whose length must be that of its format.
Exactly(type, format, body) ==
    IF Len(body) = Size(format) THEN Typed(type, UnpackAt(format, body, 0)) ELSE None

Datagram(version, type, body) == [version |-> version, type |-> type, body |-> body]

Zeros(n) == [i \in 1..n |-> 0]

-----------------------------------------------------------------------------
(* Formats.                                                                *)

U8(name) == <<name, 1>>
U16(name) == <<name, 2>>
U32(name) == <<name, 4>>
U64(name) == <<name, 8>>

SessionOpenFmt   == <<U32("client_nonce"), U32("features"), U16("max_udp_payload"), U16("tcp_frame")>>
SessionAcceptFmt == <<U32("client_nonce"), U32("session_id"), U32("features"), U16("aux_port"),
                      U16("tcp_port"), U32("timeout_ms")>>
SessionBusyFmt   == <<U32("owner_ipv4"), U16("owner_port"), U16("retry_ms")>>
SessionCloseFmt  == <<U32("session_id")>>
SyncRequestFmt   == <<U32("session_id"), U32("sequence"), U32("context"), U8("stage"), U8("flags"), U16("_")>>
SyncResponseFmt  == <<U32("session_id"), U32("sequence"), U64("t2_us"), U64("t3_us"), U32("context"),
                      U8("stage"), U8("flags"), U16("_")>>
CommandFmt       == <<U8("action"), U8("mode"), U8("stage"), U8("flags"), U16("target_pps"),
                      U16("payload_bytes"), U32("duration_ms"), U16("tcp_port"), U16("_")>>
ProbeFmt         == <<U32("test_id"), U8("stage"), U8("flags"), U16("packet_size"), U32("probe_seq"),
                      U64("sender_us"), U16("target_pps"), U16("_")>>
CountersFmt      == <<U32("normal_packets_rx"), U32("normal_packet_gaps"), U32("probe_packets_rx"),
                      U32("probe_packet_gaps"), U32("last_probe_seq"), U32("max_probe_gap"),
                      U32("receiver_errors")>>
CapabilitiesFmt  == <<U32("features"), U16("max_udp_payload"), U16("tcp_frame"), U32("monitor_nonce")>>
EchoFmt          == <<U32("test_id"), U32("sequence"), U64("t1_us"), U64("t2_us"), U64("t3_us"),
                      U8("flags"), U8("_"), U16("_")>>
ClockSampleFmt   == <<U32("test_id"), U32("sequence"), U64("t1_us"), U64("t2_us"), U64("t3_us"), U64("t4_us"),
                      U8("flags"), U8("_"), U16("_")>>
TcpFmt           == <<U32("magic"), U32("test_id"), U8("kind"), U8("stage"), U16("payload_size"),
                      U32("sequence"), U64("t1_us"), U64("t2_us"), U64("t3_us")>>
FeedbackFmt      == <<U32("test_id"), U8("stage"), U8("flags"), U16("_")>> \o CountersFmt
InSession(format) == <<U32("session_id")>> \o format
ReportFmt        == <<U32("session_id"), U8("kind"), U8("flags"), U16("size")>>

\* The five numbers of each path, in the order upload, download, rtt.
PathFmt == <<U32("samples"), U32("latest"), U32("min"), U32("p50"), U32("p95")>>

-----------------------------------------------------------------------------
(* NFv4: what the Monitor sends.                                           *)

BuildSessionOpen(rec)  == Datagram(4, "session_open", Pack(SessionOpenFmt, rec))
BuildSessionClose(rec) == Datagram(4, "session_close", Pack(SessionCloseFmt, rec))
BuildSyncRequest(rec)  == Datagram(4, "sync_request", Pack(SyncRequestFmt, rec))

\* A report carries its kind and its own size.
Report(kind, flags, session, rest) ==
    Datagram(4, "diag_report",
             Pack(ReportFmt, [session_id |-> session, kind |-> kind, flags |-> flags,
                              size |-> 4 + Size(ReportFmt) + Len(rest)]) \o rest)

BuildCapabilitiesReport(session, rec) == Report(1, 0, session, Pack(CapabilitiesFmt, rec))

BuildFeedbackReport(session, rec) ==
    Report(2, rec.flags, session,
           Pack(<<U32("test_id"), U8("stage"), U8("_"), U16("_")>> \o CountersFmt, rec))

\* The flags say whether the transform can be used (a locked one always can)
\* and whether it is locked; unsigned drift stands for the signed field.
BuildPathReport(session, rec, transform, stats) ==
    Report(3, (IF transform.usable \/ transform.locked THEN 1 ELSE 0)
                + (IF transform.locked THEN 2 ELSE 0),
           session,
           Pack(<<U32("test_id"), U8("stage"), U8("_"), U16("_")>>, rec)
             \o Pack(<<U64("source_anchor_us"), U64("target_anchor_us"), U32("drift_ppb"),
                       U32("uncertainty_us")>>, transform)
             \o Pack(PathFmt, stats.upload) \o Pack(PathFmt, stats.download)
             \o Pack(PathFmt, stats.rtt))

\* A probe is filled with zeros up to its size; ValueError for a size it cannot
\* have.  The size counts the header of four bytes.
Padded(version, format, rec) ==
    IF rec.packet_size < 4 + Size(format) \/ rec.packet_size >= Base ^ 2 THEN None
    ELSE Datagram(version, "diag_probe",
                  Pack(format, rec) \o Zeros(rec.packet_size - 4 - Size(format)))

BuildProbe(rec) == Padded(4, InSession(ProbeFmt), rec)

-----------------------------------------------------------------------------
(* NFv4: what it receives.                                                 *)

ParseSyncResponse(d) ==
    IF d.version # 4 \/ d.type # "sync_response" THEN None
    ELSE Exactly("sync_response", SyncResponseFmt, d.body)

\* A probe may be longer than its fields but must be as long as it says.
Probe(format, body) ==
    IF Len(body) < Size(format) \/ UnpackAt(format, body, 0).packet_size # 4 + Len(body) THEN None
    ELSE Typed("diag_probe", UnpackAt(format, body, 0))

ParseAuxPacket(d) ==
    CASE d.version # 4 -> None
      [] d.version = 4 /\ d.type = "sync_response" -> ParseSyncResponse(d)
      [] d.version = 4 /\ d.type = "diag_command" ->
           Exactly("diag_command", <<U32("session_id"), U32("test_id")>> \o CommandFmt, d.body)
      [] d.version = 4 /\ d.type = "diag_probe" -> Probe(InSession(ProbeFmt), d.body)
      [] OTHER -> None

-----------------------------------------------------------------------------
(* NFv3 diagnostics, both directions.                                      *)

BuildDiagFeedback(rec)     == Datagram(3, "diag_feedback", Pack(FeedbackFmt, rec))
BuildDiagCapabilities(rec) == Datagram(3, "diag_capabilities", Pack(CapabilitiesFmt, rec))
BuildEchoResponse(rec)     == Datagram(3, "diag_echo_response", Pack(EchoFmt, rec))

\* The uncertainty is limited to its field, everything else wraps.
BuildClockModel(transform, stats) ==
    Datagram(3, "diag_clock_model",
        Pack(<<U32("revision"), U64("source_anchor_us"), U64("target_anchor_us"), U32("drift_ppb")>>, transform)
          \o Bytes(Min({Base ^ 4 - 1, Max({0, transform.uncertainty_us})}), 4)
          \o Bytes(IF transform.locked THEN 1 ELSE 0, 1) \o Zeros(3)
          \o Pack(PathFmt, stats.upload) \o Pack(PathFmt, stats.download) \o Pack(PathFmt, stats.rtt))

BuildDiagProbe(rec) == Padded(3, ProbeFmt, rec)

\* A frame of the TCP test always has FrameSize bytes and says how many of them
\* follow the header.
FrameSize == Size(TcpFmt) + 4
TcpMagic  == Base + 1

BuildTcpFrame(rec) ==
    Pack(TcpFmt, rec @@ [magic |-> TcpMagic, payload_size |-> FrameSize - Size(TcpFmt)])
      \o Zeros(FrameSize - Size(TcpFmt))

TcpPacket(f) ==
    IF f.magic # TcpMagic \/ f.payload_size # FrameSize - Size(TcpFmt) THEN None
    ELSE Typed("tcp", Restrict(f, DOMAIN f \ {"magic", "payload_size"}))

ParseTcpFrame(body) ==
    IF Len(body) # FrameSize THEN None ELSE TcpPacket(UnpackAt(TcpFmt, body, 0))

ParseClockSample(body)   == Exactly("diag_clock_sample", ClockSampleFmt, body)
ParseFeedback(body)      == Exactly("diag_feedback", FeedbackFmt, body)
ParseCapabilities(body)  == Exactly("diag_capabilities", CapabilitiesFmt, body)
ParseEcho(type, body)    == Exactly(type, EchoFmt, body)
ParseDiagControl(body)   == Exactly("diag_control", <<U32("test_id")>> \o CommandFmt, body)

-----------------------------------------------------------------------------
(* Schema.                                                                 *)

Default == Base - 1       \* DEFAULT_TIMESTAMP_GROUP: the group of the frame

EntryFmt    == <<U8("kind"), U16("length")>>
OldTaskFmt  == <<U16("task_id"), U8("input_count"), U8("output_count"), U8("input_groups"),
                 U8("output_groups"), U8("name_len")>>
NewTaskFmt  == <<U16("task_id"), U8("category"), U8("input_count"), U8("output_count"),
                 U8("input_groups"), U8("output_groups"), U8("name_len")>>
PortFmt     == <<U16("task_id"), U8("direction"), U8("slot"), U8("scalar_type"), U8("group"),
                 U8("name_len"), U8("unit_len")>>
ResponseFmt == <<U32("generation"), U16("chunk_index"), U16("chunk_total"), U16("entry_count"),
                 U16("total_entries")>>

TaskKind == 1
PortKind == 2

\* An entry whose name fills the rest of the payload.
NamedTask(f, size, payload) ==
    IF size + f.name_len # Len(payload) THEN None
    ELSE [f EXCEPT !.name_len = 0] @@ [type |-> "task", name |-> SubSeq(payload, size + 1, Len(payload))]

\* A task of the present shape, with a category, or of the shape before it: the
\* one whose name fills the rest of the payload.
TaskEntry(payload) ==
    LET n == Len(payload)
        new == UnpackAt(NewTaskFmt, payload, 0)
    IN IF n < Size(OldTaskFmt) THEN None
       ELSE IF n >= Size(NewTaskFmt) /\ Size(NewTaskFmt) + new.name_len = n
       THEN NamedTask(new, Size(NewTaskFmt), payload)
       ELSE NamedTask([category |-> 0] @@ UnpackAt(OldTaskFmt, payload, 0), Size(OldTaskFmt), payload)

NamedPort(f, name, payload) ==
    IF name + f.unit_len # Len(payload) THEN None
    ELSE f @@ [type |-> "port", name |-> SubSeq(payload, Size(PortFmt) + 1, name),
               unit |-> SubSeq(payload, name + 1, Len(payload))]

PortEntry(payload) ==
    LET f == UnpackAt(PortFmt, payload, 0)
    IN IF Len(payload) < Size(PortFmt) THEN None
       ELSE NamedPort(f, Size(PortFmt) + f.name_len, payload)

ParseSchemaEntry(kind, payload) ==
    CASE kind = TaskKind -> TaskEntry(payload)
      [] kind = PortKind -> PortEntry(payload)
      [] OTHER -> None

\* A list that may be broken is <<list>> or <<>>; so is a longer one.
Joined(first, rest) == IF rest = <<>> THEN <<>> ELSE <<<<first>> \o rest[1]>>

WithEntry(entry, rest) == IF IsNone(entry) THEN <<>> ELSE Joined(entry, rest)

\* The entries from an offset on, left of them still expected.
EntriesFrom[body \in Seq(Nat), left \in Nat] ==
    IF left = 0 THEN IF body = <<>> THEN <<<<>>>> ELSE <<>>
    ELSE IF Len(body) < Size(EntryFmt) THEN <<>>
    ELSE LET h == UnpackAt(EntryFmt, body, 0)
             end == Size(EntryFmt) + h.length
         IN IF end > Len(body) THEN <<>>
            ELSE WithEntry(ParseSchemaEntry(h.kind, SubSeq(body, Size(EntryFmt) + 1, end)),
                           EntriesFrom[SubSeq(body, end + 1, Len(body)), left - 1])

Response(h, entries) ==
    IF h.chunk_total = 0 \/ h.chunk_index >= h.chunk_total \/ entries = <<>> THEN None
    ELSE Typed("schema_resp", h @@ [entries |-> entries[1]])

ParseSchemaResponse(body) ==
    LET h == UnpackAt(ResponseFmt, body, 0)
    IN IF Len(body) < Size(ResponseFmt) THEN None
       ELSE Response(h, EntriesFrom[SubSeq(body, Size(ResponseFmt) + 1, Len(body)), h.entry_count])

\* The ports of a task in one direction, in the order of their slots.
PortsOf(entries, id, direction) ==
    SortSeq(SelectSeq(entries, LAMBDA e : e.type = "port" /\ e.task_id = id /\ e.direction = direction),
            LAMBDA a, b : a.slot < b.slot)

\* Mutant: a port may name one group more than there are.
PortsFitLoosely(ports, count, groups) ==
    /\ Len(ports) = count
    /\ \A i \in DOMAIN ports : ports[i].slot = i - 1
                                 /\ (ports[i].group = Default \/ ports[i].group <= groups)

PortsFit(ports, count, groups) ==
    /\ Len(ports) = count
    /\ \A i \in DOMAIN ports : ports[i].slot = i - 1
                                 /\ (ports[i].group = Default \/ ports[i].group < groups)

\* install_schema: the tasks by their numbers, or <<>> if they do not fit.
InstallSchema(entries) ==
    LET tasks == SelectSeq(entries, LAMBDA e : e.type = "task")
        ids == {tasks[k].task_id : k \in DOMAIN tasks}
        task(id) == tasks[CHOOSE k \in DOMAIN tasks : tasks[k].task_id = id]
    IN IF /\ Cardinality(ids) = Len(tasks)
          /\ \A k \in DOMAIN entries :
               entries[k].type = "task" \/ (entries[k].task_id \in ids /\ entries[k].direction \in {0, 1})
          /\ \A id \in ids :
               /\ PortsFit(PortsOf(entries, id, 0), task(id).input_count, task(id).input_groups)
               /\ PortsFit(PortsOf(entries, id, 1), task(id).output_count, task(id).output_groups)
       THEN <<[id \in ids |-> task(id) @@ [inputs  |-> PortsOf(entries, id, 0),
                                           outputs |-> PortsOf(entries, id, 1)]]>>
       ELSE <<>>

-----------------------------------------------------------------------------
(* Data.                                                                   *)

DataFmt  == <<U32("generation"), U32("packet_seq"), U64("packet_time_us"), U16("task_frames"),
              U16("reserved_frames")>>
FrameFmt == <<U16("task_id"), U8("flags"), U32("input_age_us"), U32("output_age_us")>>

Numbers(body, offset, n) == [i \in 1..n |-> NumberAt(body, offset + 4 * (i - 1), 4)]

\* The value of a port and how old it is: the age of its group, or that of the
\* frame's inputs or outputs.  IndexError is what Python would raise.
IndexError == -1
Reading(port, raw, age, ages) ==
    [slot |-> port.slot, raw |-> raw,
     age |-> IF port.group = Default THEN age
             ELSE IF port.group + 1 \in DOMAIN ages THEN ages[port.group + 1] ELSE IndexError]

Frame(task, h, values, ages) ==
    LET inAges == SubSeq(ages, 1, task.input_groups)
        outAges == SubSeq(ages, task.input_groups + 1, Len(ages))
    IN [task_id |-> h.task_id, flags |-> h.flags,
        inputs  |-> [i \in DOMAIN task.inputs |->
                       Reading(task.inputs[i], values[i], h.input_age_us, inAges)],
        outputs |-> [i \in DOMAIN task.outputs |->
                       Reading(task.outputs[i], values[task.input_count + i], h.output_age_us, outAges)]]

ValueCount(task) == task.input_count + task.output_count
GroupCount(task) == task.input_groups + task.output_groups
FrameSizeOf(task) == Size(FrameFmt) + 4 * (ValueCount(task) + GroupCount(task))

FrameOf(task, h, body) ==
    Frame(task, h, Numbers(body, Size(FrameFmt), ValueCount(task)),
          Numbers(body, Size(FrameFmt) + 4 * ValueCount(task), GroupCount(task)))

\* The frames left in the body, which must be used up: <<frames>>, or <<>> if
\* it is broken.
FramesFrom(tasks, start, count) ==
    LET from[body \in Seq(Nat), left \in Nat] ==
          IF left = 0 THEN IF body = <<>> THEN <<<<>>>> ELSE <<>>
          ELSE IF Len(body) < Size(FrameFmt) THEN <<>>
          ELSE LET h == UnpackAt(FrameFmt, body, 0)
                   end == FrameSizeOf(tasks[h.task_id])
               IN IF h.task_id \notin DOMAIN tasks THEN <<>>
                  ELSE IF end > Len(body) THEN <<>>
                  ELSE Joined(FrameOf(tasks[h.task_id], h, body),
                              from[SubSeq(body, end + 1, Len(body)), left - 1])
    IN from[start, count]

DataPacket(h, frames) ==
    IF h.reserved_frames # 0 \/ frames = <<>> THEN None
    ELSE Typed("data", h @@ [available |-> TRUE, frames |-> frames[1]])

\* A packet of another generation is recognised and not decoded.
ParseDataPacket(installed, tasks, body) ==
    LET h == UnpackAt(DataFmt, body, 0)
    IN IF Len(body) < Size(DataFmt) THEN None
       ELSE IF h.generation # installed
       THEN Typed("data", h @@ [available |-> FALSE, frames |-> <<>>])
       ELSE DataPacket(h, FramesFrom(tasks, SubSeq(body, Size(DataFmt) + 1, Len(body)), h.task_frames))

-----------------------------------------------------------------------------
(* Dispatch.                                                               *)

ParsePacket(installed, tasks, d) ==
    CASE d.version # 3 -> None
      [] d.version = 3 /\ d.type = "data" -> ParseDataPacket(installed, tasks, d.body)
      [] d.version = 3 /\ d.type = "schema_resp" -> ParseSchemaResponse(d.body)
      [] d.version = 3 /\ d.type \in {"connect_ack", "link_pong"} -> Exactly(d.type, <<>>, d.body)
      [] d.version = 3 /\ d.type = "busy_ack" ->
           Exactly("busy_ack", <<U32("owner_ip"), U16("owner_port")>>, d.body)
      [] d.version = 3 /\ d.type = "diag_probe" -> Probe(ProbeFmt, d.body)
      [] d.version = 3 /\ d.type = "diag_capabilities" -> ParseCapabilities(d.body)
      [] d.version = 3 /\ d.type \in {"diag_echo_request", "diag_echo_response"} ->
           ParseEcho(d.type, d.body)
      [] d.version = 3 /\ d.type = "diag_control" -> ParseDiagControl(d.body)
      [] d.version = 3 /\ d.type = "diag_feedback" -> ParseFeedback(d.body)
      [] d.version = 3 /\ d.type = "diag_clock_sample" -> ParseClockSample(d.body)
      [] OTHER -> None

\* Data and schema keep their NFv3 form: only the version of the header differs.
ParseBasePacket(installed, tasks, d) ==
    CASE d.version # 4 -> None
      [] d.version = 4 /\ d.type \in {"data", "schema_resp"} ->
           ParsePacket(installed, tasks, [d EXCEPT !.version = 3])
      [] d.version = 4 /\ d.type = "session_accept" ->
           Exactly("session_accept", SessionAcceptFmt, d.body)
      [] d.version = 4 /\ d.type = "session_busy" -> Exactly("session_busy", SessionBusyFmt, d.body)
      [] OTHER -> None

================================================================================

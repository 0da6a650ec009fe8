------------------------------ MODULE SchemaSync -------------------------------
(***************************************************************************)
(* How the Monitor learns what a device exports (data_receiver.py, from    *)
(* begin_nfv3_schema_sync to _process_nfv3_data, and nfv3_parser.py).      *)
(*                                                                         *)
(* The device describes its tasks and their ports in a schema, which comes *)
(* in chunks, each with the generation of the schema.  A data packet names *)
(* a generation and holds nothing but values in the order of the schema:   *)
(* decoded with another schema, every value would have another's name.     *)
(* Packets are lost, repeated and reordered, and a device that adds or     *)
(* removes a function has a new schema while the link stays up.            *)
(*                                                                         *)
(* The link itself is the subject of NFSession, the view that receives the *)
(* samples that of PlotWindow; here both just change.                      *)
(***************************************************************************)
EXTENDS Integers, Sequences, FiniteSets, SequencesExt

CONSTANTS
    Layouts,        \* the device's schemas, in the order of their generations:
                    \* sequences of chunks, chunks sequences of entries
    MaxRepeats,     \* bound: packets the network repeats
    None            \* Python's None

Generations == DOMAIN Layouts

TaskEntry == [kind : {"task"}, task : Nat, name : STRING, count : Nat]
PortEntry == [kind : {"port"}, task : Nat, slot : Nat, name : STRING]

\* Every schema has a chunk; the device is never without schema.  None is no number
\* and no header of a chunk.
ASSUME LayoutAssumption ==
    /\ Layouts \in Seq(Seq(Seq(TaskEntry \cup PortEntry))) /\ Layouts # <<>>
    /\ \A g \in Generations : Layouts[g] # <<>>
    /\ MaxRepeats \in Nat
    /\ None \notin Nat \cup [generation : Nat, total : Nat, entries : Nat]

VARIABLES
    connected,      \* nf_connected
    retry,          \* nf_schema_retry_active
    schema,         \* nf_schema_by_key: key of a port -> name of its variable
    generation,     \* nf_schema_generation
    parser,         \* nf_parser: schema_generation and the ports of schema_tasks
    chunks,         \* nf_schema_chunks: index -> entries
    transfer,       \* nf_schema_chunk_generation, _total and _entry_total
    view,           \* what the window shows: "live", "replay", or "asked" for live again
    current,        \* the generation of the device
    net,            \* packets under way
    repeats,        \* packets repeated so far
    decoded         \* the last packet published: pairs of variable and port's own name

monitor == <<connected, retry, schema, generation, parser, chunks, transfer>>
vars == <<monitor, view, current, net, repeats, decoded>>

Nothing == [k \in {} |-> None]
NoParser == [generation |-> None, ports |-> {}]

Init ==
    /\ connected = FALSE /\ retry = FALSE
    /\ schema = Nothing /\ generation = None /\ parser = NoParser
    /\ chunks = Nothing /\ transfer = None
    /\ view = "live" /\ current = 1 /\ net = {} /\ repeats = 0 /\ decoded = {}

-----------------------------------------------------------------------------
(* Schemas.                                                                *)

Request == [type |-> "request"]

Entries(g) == FlattenSeq(Layouts[g])

Header(g) == [generation |-> g, total |-> Len(Layouts[g]), entries |-> Len(Entries(g))]

\* The answers to a request.
ChunkPackets(g) ==
    {[type |-> "chunk", index |-> i - 1, entries |-> Layouts[g][i], header |-> Header(g)]
        : i \in DOMAIN Layouts[g]}

DataPacket(g) == [type |-> "data", generation |-> g]

\* Where the tasks and the ports stand in a schema.
TasksAt(entries) == {i \in DOMAIN entries : entries[i].kind = "task"}
PortsAt(entries) == {i \in DOMAIN entries : entries[i].kind = "port"}
PortsOf(entries, task) == {i \in PortsAt(entries) : entries[i].task = task}
Ports(entries) == {entries[i] : i \in PortsAt(entries)}

Key(port) == <<port.task, port.slot>>

\* install_schema: one entry for each task, and for each task exactly the ports
\* that it announces.
IsSchema(entries) ==
    /\ \A i, j \in TasksAt(entries) : entries[i].task = entries[j].task => i = j
    /\ \A i \in PortsAt(entries) : \E j \in TasksAt(entries) : entries[j].task = entries[i].task
    /\ \A j \in TasksAt(entries) :
          LET ports == PortsOf(entries, entries[j].task) IN
          /\ Cardinality(ports) = entries[j].count
          /\ {entries[i].slot : i \in ports} = 0 .. (entries[j].count - 1)

Owner(entries, port) ==
    entries[CHOOSE j \in TasksAt(entries) : entries[j].task = port.task].name

Base(entries, i) == <<Owner(entries, entries[i]), entries[i].name>>

\* add_descriptor: a name that is in use, by the first port that has it, is told
\* apart by the slot.
Named(entries, i) ==
    IF \E j \in PortsAt(entries) : j < i /\ Base(entries, j) = Base(entries, i)
    THEN Append(Base(entries, i), entries[i].slot)
    ELSE Base(entries, i)

\* The names of an installed schema, in which every port has a key of its own.
Names(entries) ==
    [key \in {Key(port) : port \in Ports(entries)} |->
        Named(entries, CHOOSE i \in PortsAt(entries) : Key(entries[i]) = key)]

-----------------------------------------------------------------------------
(* The link.                                                               *)

\* _clear_nfv3_schema_
ClearSchema ==
    /\ schema' = Nothing /\ generation' = None /\ parser' = NoParser
    /\ chunks' = Nothing /\ transfer' = None

\* connect_nfv3: the user connects anew, and wants to see the device again
\* (toggle of the NF button during a replay).
ConnectNfv3 ==
    /\ ClearSchema
    /\ connected' = FALSE /\ retry' = FALSE
    /\ view' = IF view = "replay" THEN "asked" ELSE view
    /\ UNCHANGED <<current, net, repeats, decoded>>

\* The device accepts: begin_nfv3_schema_sync.
Accepted ==
    /\ ~connected
    /\ connected' = TRUE
    /\ IF retry /\ schema = Nothing
       THEN UNCHANGED <<retry, schema, generation, parser, chunks, transfer, net>>
       ELSE /\ ClearSchema /\ retry' = TRUE
            /\ net' = net \cup {Request}
    /\ UNCHANGED <<view, current, repeats, decoded>>

\* disconnect_nfv3: what was asked for is no longer wanted.
Disconnect ==
    /\ connected' = FALSE /\ retry' = FALSE
    /\ view' = IF view = "asked" THEN "replay" ELSE view
    /\ UNCHANGED <<schema, generation, parser, chunks, transfer, current, net, repeats,
                   decoded>>

\* Mutant: the retry outlives the link.
LinkDownKeepsRetry ==
    /\ connected
    /\ connected' = FALSE
    /\ UNCHANGED <<retry, schema, generation, parser, chunks, transfer, view, current, net,
                   repeats, decoded>>

\* A link timeout.
LinkDown ==
    /\ connected
    /\ connected' = FALSE /\ retry' = FALSE
    /\ UNCHANGED <<schema, generation, parser, chunks, transfer, view, current, net,
                   repeats, decoded>>

\* _tick_nfv3_schema_retry
RetryTick ==
    /\ retry
    /\ net' = IF connected THEN net \cup {Request} ELSE net
    /\ UNCHANGED <<monitor, view, current, repeats, decoded>>

\* The user opens a capture.
Import ==
    /\ view' = "replay" /\ decoded' = {}
    /\ UNCHANGED <<monitor, current, net, repeats>>

-----------------------------------------------------------------------------
(* Packets that arrive.                                                    *)

\* A packet leaves the network, or comes once more later; the Monitor may answer.
Taken(m, sent) ==
    \/ net' = (net \ {m}) \cup sent /\ UNCHANGED repeats
    \/ repeats < MaxRepeats /\ repeats' = repeats + 1 /\ net' = net \cup sent

Install(header, entries) ==
    /\ parser' = [generation |-> header.generation, ports |-> Ports(entries)]
    /\ schema' = Names(entries) /\ generation' = header.generation
    /\ chunks' = Nothing /\ transfer' = None
    /\ retry' = FALSE
    /\ view' = IF view = "asked" THEN "live" ELSE view
    /\ decoded' = IF view = "asked" THEN {} ELSE decoded

\* Mutant: chunks of any generation are put together.
SameTransfer(header) == transfer # None /\ transfer.total = header.total

\* A chunk belongs to the transfer that is under way.
Continues(header) == transfer = header

\* _handle_nfv3_schema_response
SchemaResponse(m) ==
    LET old       == IF Continues(m.header) THEN chunks ELSE Nothing
        collected == [n \in DOMAIN old \cup {m.index} |->
                         IF n = m.index THEN m.entries ELSE old[n]]
        complete  == DOMAIN collected = 0 .. (m.header.total - 1)
        entries   == FlattenSeq([i \in 1..m.header.total |-> collected[i - 1]])
        good      == complete /\ Len(entries) = m.header.entries /\ IsSchema(entries)
    IN /\ connected
       /\ \/ good /\ Install(m.header, entries)
          \/ /\ ~good
             /\ transfer' = m.header
             /\ chunks' = IF complete THEN Nothing ELSE collected
             /\ UNCHANGED <<retry, schema, generation, parser, view, decoded>>
       /\ UNCHANGED connected

ReceiveChunk(m) ==
    /\ m \in net /\ m.type = "chunk" /\ Taken(m, {})
    /\ \/ SchemaResponse(m)
       \/ ~connected /\ UNCHANGED <<monitor, view, decoded>>
    /\ UNCHANGED current

\* The values of a packet are those of the ports of its own generation, in their
\* order; the names are those of the schema that is installed.
Value(g, key) ==
    (CHOOSE port \in Ports(Entries(g)) : Key(port) = key).name

\* Mutant: any schema will do.
DecodableAtAll(m) == generation # None

Decodable(m) == parser.generation = m.generation /\ generation = m.generation

\* _process_nfv3_data
ProcessData(m) ==
    /\ connected
    /\ \/ /\ ~Decodable(m)
          /\ IF retry THEN UNCHANGED <<retry, chunks, transfer>>
             ELSE retry' = TRUE /\ chunks' = Nothing /\ transfer' = None
          /\ UNCHANGED decoded
       \/ /\ Decodable(m)
          /\ decoded' = IF view # "live" THEN decoded
                        ELSE {<<schema[k], Value(m.generation, k)>> :
                                 k \in DOMAIN schema \cap {Key(p) : p \in parser.ports}}
          /\ UNCHANGED <<retry, chunks, transfer>>
    /\ UNCHANGED <<connected, schema, generation, parser, view>>

\* Mutant: packets of an unknown generation are dropped, and that is all.
ReceiveDataDropsOnly(m) ==
    /\ m \in net /\ m.type = "data" /\ Taken(m, {})
    /\ UNCHANGED <<monitor, view, decoded, current>>

ReceiveData(m) ==
    /\ m \in net /\ m.type = "data"
    /\ Taken(m, IF connected /\ ~Decodable(m) /\ ~retry THEN {Request} ELSE {})
    /\ \/ ProcessData(m)
       \/ ~connected /\ UNCHANGED <<monitor, view, decoded>>
    /\ UNCHANGED current

-----------------------------------------------------------------------------
(* The device and the network.                                             *)

AnswerRequest ==
    /\ Request \in net
    /\ net' = (net \ {Request}) \cup ChunkPackets(current)
    /\ UNCHANGED <<monitor, view, current, repeats, decoded>>

SendData ==
    /\ net' = net \cup {DataPacket(current)}
    /\ UNCHANGED <<monitor, view, current, repeats, decoded>>

ChangeLayout ==
    /\ current < Len(Layouts)
    /\ current' = current + 1
    /\ UNCHANGED <<monitor, view, net, repeats, decoded>>

Lose(m) ==
    /\ m \in net /\ net' = net \ {m}
    /\ UNCHANGED <<monitor, view, current, repeats, decoded>>

AllChunks == UNION {ChunkPackets(g) : g \in Generations}
AllData == {DataPacket(g) : g \in Generations}

Next ==
    \/ ConnectNfv3
    \/ Accepted
    \/ Disconnect
    \/ LinkDown
    \/ RetryTick
    \/ Import
    \/ \E m \in AllChunks : ReceiveChunk(m)
    \/ \E m \in AllData : ReceiveData(m)
    \/ AnswerRequest
    \/ SendData
    \/ ChangeLayout
    \/ \E m \in AllChunks \cup AllData \cup {Request} : Lose(m)

\* The tick runs every cycle of the GUI; a device that is there sends data and
\* answers; of packets that are sent again and again one comes through.
Fairness ==
    /\ WF_vars(RetryTick) /\ WF_vars(SendData)
    /\ SF_vars(AnswerRequest)
    /\ \A m \in AllChunks : SF_vars(ReceiveChunk(m))
    /\ \A m \in AllData : SF_vars(ReceiveData(m))

Spec == Init /\ [][Next]_vars /\ Fairness

(* Properties.                                                             *)

\* Type invariant.
TypeOK ==
    /\ {connected, retry} \subseteq BOOLEAN
    /\ generation \in Generations \cup {None} /\ parser.generation \in Generations \cup {None}
    /\ (transfer = None => chunks = Nothing)
    /\ (transfer # None => DOMAIN chunks \subseteq 0 .. (transfer.total - 1)
                           /\ DOMAIN chunks # 0 .. (transfer.total - 1))
    /\ view \in {"live", "replay", "asked"}
    /\ current \in Generations /\ repeats \in 0..MaxRepeats

\* The schema that is installed is one the device has sent, all of it and
\* nothing else, however the chunks of two schemas were mixed on the way.
InstalledWhole ==
    generation # None =>
        /\ schema = Names(Entries(generation))
        /\ parser.ports = Ports(Entries(generation))

\* The parser and the receiver, which keep a schema each, keep the same one.
ParserAgrees == parser.generation = generation /\ (generation = None => schema = Nothing)

\* A value is stored under the name that its port has in the schema of its packet.
DecodedRight == \A d \in decoded : d[1][2] = d[2]

\* The schema is asked for only while the link is up.
RetryOnlyWhileConnected == retry => connected

\* Two ports never share a variable.
NamesDistinct ==
    \A k, l \in DOMAIN schema : schema[k] = schema[l] => k = l

\* What the receiver, its parser and the retry timer have installed and collected.
InstallationSound ==
    TypeOK /\ InstalledWhole /\ ParserAgrees /\ RetryOnlyWhileConnected /\ NamesDistinct

\* A new connection begins without the schema and the chunks of the last one, and asks.
BeginsAfresh ==
    [][~connected /\ connected' => schema' = Nothing /\ chunks' = Nothing /\ retry']_vars

\* While the link stays up the Monitor catches up with the schema of the device.
CatchesUp == <>[]connected => <>[](generation = current)
=============================================================================

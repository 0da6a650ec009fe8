--------------------------- MODULE SchemaSyncProofs ---------------------------
(***************************************************************************)
(* The schema that is installed is one the device has sent, whole, and     *)
(* every value that is decoded with it goes to the variable of its port:   *)
(* for any number of schemas, chunks, tasks and ports, and for any loss,   *)
(* repetition and reordering of packets.                                   *)
(***************************************************************************)
EXTENDS SchemaSync, FoldLemmas, SequenceTheorems, FunctionTheorems

-----------------------------------------------------------------------------
(* Sequences.                                                              *)

\* FlattenSeq
LEMMA FlattenIsSeq ==
  ASSUME NEW S, NEW seqs \in Seq(Seq(S))
  PROVE  FlattenSeq(seqs) \in Seq(S)
<1> DEFINE Eqn(f, m) == f = [i \in 1..m |-> IF i = 1 THEN seqs[i] ELSE f[i-1] \o seqs[i]]
<1>1. /\ Len(seqs) \in Nat /\ \A i \in 1..Len(seqs) : seqs[i] \in Seq(S)
      /\ Len(seqs) = 0 => seqs = <<>>
  BY EmptySeq
<1>2. ASSUME NEW m \in Nat, NEW f, Eqn(f, m)
      PROVE  \E g : Eqn(g, m + 1)
  <2> DEFINE g == [i \in 1..(m+1) |-> IF i = 1 THEN seqs[i]
                                      ELSE IF i = m + 1 THEN f[m] \o seqs[i] ELSE f[i]]
  <2>1. ASSUME NEW i \in 1..(m+1)
        PROVE  g[i] = IF i = 1 THEN seqs[i] ELSE g[i-1] \o seqs[i]
    <3>1. CASE i = 1
      BY <3>1
    <3>2. CASE i # 1 /\ i # m + 1
      <4>1. i \in 1..m /\ i - 1 \in 1..m /\ i - 1 \in 1..(m+1) /\ i - 1 # m + 1
        BY <3>2
      <4>2. g[i] = f[i] /\ f[i] = f[i-1] \o seqs[i]
        BY <1>2, <3>2, <4>1
      <4>3. g[i-1] = f[i-1]
        BY <1>2, <4>1
      <4>4. QED
        BY <3>2, <4>2, <4>3
    <3>3. CASE i # 1 /\ i = m + 1
      <4>1. i - 1 = m /\ m \in 1..m /\ m \in 1..(m+1) /\ m # m + 1
        BY <3>3
      <4>2. g[m] = f[m]
        BY <1>2, <4>1
      <4>3. QED
        BY <3>3, <4>1, <4>2
    <3>4. QED
      BY <3>1, <3>2, <3>3
  <2>2. g = [i \in 1..(m+1) |-> IF i = 1 THEN seqs[i] ELSE g[i-1] \o seqs[i]]
    BY <2>1
  <2>3. QED
    BY <2>2
<1>3. \A m \in Nat : \E f : Eqn(f, m)
  <2> DEFINE T == {m \in Nat : \E f : Eqn(f, m)}
  <2> HIDE DEF Eqn
  <2>1. 0 \in T
    <3>1. Eqn([i \in 1..0 |-> {}], 0)
      BY DEF Eqn
    <3>2. QED
      BY <3>1
  <2>2. \A m \in Nat : m \in T => m + 1 \in T
    BY <1>2
  <2> HIDE DEF T
  <2>3. Nat \subseteq T
    BY <2>1, <2>2, NatSetInduction
  <2>4. QED
    BY <2>3 DEF T
<1>4. CASE Len(seqs) = 0
  BY <1>1, <1>4 DEF FlattenSeq
<1>5. CASE Len(seqs) # 0
  <2>1. FlattenSeq(seqs) = (CHOOSE f : Eqn(f, Len(seqs)))[Len(seqs)]
    BY <1>5 DEF FlattenSeq
  <2> HIDE DEF Eqn
  <2>2. PICK f : Eqn(f, Len(seqs)) /\ FlattenSeq(seqs) = f[Len(seqs)]
    BY <1>1, <1>3, <2>1
  <2> DEFINE T == {m \in Nat : m \in 1..Len(seqs) => f[m] \in Seq(S)}
  <2>3. \A i \in 1..Len(seqs) : f[i] = IF i = 1 THEN seqs[i] ELSE f[i-1] \o seqs[i]
    BY <2>2 DEF Eqn
  <2>4. ASSUME NEW m \in Nat, m \in 1..Len(seqs) => f[m] \in Seq(S), m + 1 \in 1..Len(seqs)
        PROVE  f[m + 1] \in Seq(S)
    <3>1. f[m + 1] = IF m + 1 = 1 THEN seqs[m + 1] ELSE f[m + 1 - 1] \o seqs[m + 1]
      BY <2>3, <2>4
    <3>2. seqs[m + 1] \in Seq(S)
      BY <1>1, <2>4
    <3>3. CASE m = 0
      BY <3>1, <3>2, <3>3
    <3>4. CASE m # 0
      <4>1. m \in 1..Len(seqs) /\ m + 1 # 1 /\ m + 1 - 1 = m
        BY <1>1, <2>4, <3>4
      <4>2. f[m] \in Seq(S) /\ f[m + 1] = f[m] \o seqs[m + 1]
        BY <2>4, <3>1, <4>1
      <4>3. QED
        BY <3>2, <4>2, ConcatProperties
    <3>5. QED
      BY <3>3, <3>4
  <2>5. 0 \in T /\ \A m \in Nat : m \in T => m + 1 \in T
    <3> USE DEF T
    <3>1. 0 \in T
      OBVIOUS
    <3>2. ASSUME NEW m \in Nat, m \in T PROVE m + 1 \in T
      <4>1. m \in 1..Len(seqs) => f[m] \in Seq(S)
        BY <3>2
      <4>2. m + 1 \in 1..Len(seqs) => f[m + 1] \in Seq(S)
        BY <2>4, <4>1
      <4>3. QED
        BY <4>2
    <3>3. QED
      BY <3>1, <3>2
  <2> HIDE DEF T
  <2>6. Nat \subseteq T
    BY <2>5, NatSetInduction
  <2>7. Len(seqs) \in T /\ Len(seqs) \in 1..Len(seqs)
    BY <1>1, <1>5, <2>6
  <2>8. QED
    BY <2>2, <2>7 DEF T
<1>6. QED
  BY <1>4, <1>5

-----------------------------------------------------------------------------
(* Schemas.                                                                *)

AnEntry == TaskEntry \cup PortEntry

\* What is known of the device's schemas: sequences of entries, in chunks.
LEMMA LayoutFacts ==
  ASSUME NEW g \in Generations
  PROVE  /\ g \in Nat \ {0}
         /\ Len(Layouts[g]) \in Nat \ {0}
         /\ Layouts[g] = [i \in 1..Len(Layouts[g]) |-> Layouts[g][i]]
         /\ Entries(g) \in Seq(AnEntry)
         /\ Header(g) \in [generation : Nat, total : Nat, entries : Nat]
<1>1. Layouts \in Seq(Seq(Seq(AnEntry))) /\ Layouts[g] # <<>>
  BY LayoutAssumption DEF AnEntry
<1>2. g \in 1..Len(Layouts) /\ Layouts[g] \in Seq(Seq(AnEntry))
  BY <1>1 DEF Generations
<1>3. Len(Layouts[g]) \in Nat \ {0}
  BY <1>1, <1>2, EmptySeq
<1>4. Entries(g) \in Seq(AnEntry)
  BY <1>2, FlattenIsSeq DEF Entries
<1>5. QED
  BY <1>1, <1>2, <1>3, <1>4, LenProperties DEF Header

\* None is no generation and no header.
LEMMA NoneFacts == None \notin Generations /\ \A g \in Generations : None # Header(g)
<1>1. None \notin Nat \cup [generation : Nat, total : Nat, entries : Nat]
  BY LayoutAssumption
<1>2. QED
  BY <1>1, LayoutFacts

\* A schema that the parser accepts has one port for each key.
LEMMA KeysAreUnique ==
  ASSUME NEW entries \in Seq(AnEntry), IsSchema(entries),
         NEW i \in PortsAt(entries), NEW j \in PortsAt(entries),
         Key(entries[i]) = Key(entries[j])
  PROVE  i = j
<1>1. entries[i].task = entries[j].task /\ entries[i].slot = entries[j].slot
  BY DEF Key
<1>2. PICK t \in TasksAt(entries) : entries[t].task = entries[i].task
  BY DEF IsSchema
<1> DEFINE ports == PortsOf(entries, entries[t].task)
           n == entries[t].count
           slotOf == [p \in ports |-> entries[p].slot]
<1>3. Cardinality(ports) = n /\ {entries[p].slot : p \in ports} = 0 .. (n - 1)
  BY DEF IsSchema
<1>4. n \in Nat
  BY DEF TasksAt, AnEntry, TaskEntry, PortEntry
<1>5. IsFiniteSet(ports)
  <2>1. ports \subseteq 1..Len(entries)
    BY DEF PortsOf, PortsAt
  <2>2. IsFiniteSet(1..Len(entries))
    BY FS_Interval, LenProperties
  <2>3. QED
    BY <2>1, <2>2, FS_Subset
<1>6. IsFiniteSet(0..(n-1)) /\ Cardinality(0..(n-1)) = n
  <2> HIDE DEF n
  <2>1. n - 1 \in Int /\ (0 > n - 1 => n = 0) /\ (n - 1) - 0 + 1 = n
    BY <1>4
  <2>2. QED
    BY <2>1, FS_Interval
<1>7. slotOf \in Surjection(ports, 0..(n-1))
  BY <1>3, Fun_IsSurj
<1>8. slotOf \in Injection(ports, 0..(n-1))
  BY <1>3, <1>5, <1>6, <1>7, FS_SurjSameCardinalityImpliesInj
<1>9. i \in ports /\ j \in ports
  BY <1>1, <1>2 DEF PortsOf
<1>10. QED
  BY <1>1, <1>8, <1>9, Fun_InjectionProperties

\* A port keeps its own name in the name of its variable, which is the one under
\* which the parser finds the port's value.
LEMMA NamesAreTheirs ==
  ASSUME NEW g \in Generations, IsSchema(Entries(g)), NEW k \in DOMAIN Names(Entries(g))
  PROVE  Names(Entries(g))[k][2] = Value(g, k)
<1> DEFINE entries == Entries(g)
           i == CHOOSE i \in PortsAt(entries) : Key(entries[i]) = k
           port == CHOOSE port \in Ports(entries) : Key(port) = k
<1>1. \E p \in PortsAt(entries) : Key(entries[p]) = k
  BY DEF Names, Ports
<1>2. i \in PortsAt(entries) /\ Key(entries[i]) = k
  BY <1>1
<1>3. port \in Ports(entries) /\ Key(port) = k
  BY <1>1 DEF Ports
<1>4. PICK j \in PortsAt(entries) : port = entries[j]
  BY <1>3 DEF Ports
<1>5. i = j
  BY <1>2, <1>3, <1>4, KeysAreUnique, LayoutFacts
<1>6. Names(entries)[k] = Named(entries, i)
  BY DEF Names
<1>7. Named(entries, i)[2] = entries[i].name
  <2>1. Base(entries, i) \in Seq({Owner(entries, entries[i]), entries[i].name})
        /\ Len(Base(entries, i)) = 2 /\ Base(entries, i)[2] = entries[i].name
    BY DEF Base
  <2>2. Append(Base(entries, i), entries[i].slot)[2] = entries[i].name
    BY <2>1 DEF Base
  <2>3. QED
    BY <2>1, <2>2 DEF Named
<1>8. Value(g, k) = port.name
  BY DEF Value
<1>9. QED
  BY <1>4, <1>5, <1>6, <1>7, <1>8

\* The tasks of a device have names of their own.
TaskNamesDistinct ==
    \A g \in Generations : \A i, j \in TasksAt(Entries(g)) :
        Entries(g)[i].name = Entries(g)[j].name => Entries(g)[i].task = Entries(g)[j].task

\* Then no two ports have a variable in common: among those of one task and name
\* all but the first are told apart by their slots.
LEMMA NamesAreDistinct ==
  ASSUME TaskNamesDistinct, NEW g \in Generations, IsSchema(Entries(g)),
         NEW k \in DOMAIN Names(Entries(g)), NEW l \in DOMAIN Names(Entries(g)),
         Names(Entries(g))[k] = Names(Entries(g))[l]
  PROVE  k = l
<1> DEFINE entries == Entries(g)
           At(key) == CHOOSE i \in PortsAt(entries) : Key(entries[i]) = key
           i == At(k)
           j == At(l)
           o(p) == CHOOSE t \in TasksAt(entries) : entries[t].task = entries[p].task
<1>1. \A key \in DOMAIN Names(entries) :
         At(key) \in PortsAt(entries) /\ Key(entries[At(key)]) = key
  BY DEF Names, Ports
<1>2. /\ i \in PortsAt(entries) /\ Key(entries[i]) = k
      /\ j \in PortsAt(entries) /\ Key(entries[j]) = l
  BY <1>1
<1>3. Named(entries, i) = Named(entries, j)
  BY DEF Names
<1> HIDE DEF i, j
<1>4. i \in Int /\ j \in Int
  <2>1. DOMAIN entries = 1..Len(entries)
    BY LayoutFacts, LenProperties
  <2>2. QED
    BY <1>2, <2>1 DEF PortsAt
<1>5. Base(entries, i) = Base(entries, j)
  <2>1. \A p \in {i, j} : \/ Named(entries, p) = Base(entries, p)
                          \/ Named(entries, p) = Append(Base(entries, p), entries[p].slot)
    BY DEF Named
  <2>2. ASSUME NEW p, NEW q
        PROVE  Base(entries, p) # Append(Base(entries, q), entries[q].slot)
    BY DEF Base
  <2>3. ASSUME Append(Base(entries, i), entries[i].slot) = Append(Base(entries, j), entries[j].slot)
        PROVE  Base(entries, i) = Base(entries, j)
    BY <2>3 DEF Base
  <2>4. QED
    BY <1>3, <2>1, <2>2, <2>3
<1>6. entries[i].task = entries[j].task
  <2>1. \A p \in {i, j} : /\ o(p) \in TasksAt(entries) /\ entries[o(p)].task = entries[p].task
                          /\ Owner(entries, entries[p]) = entries[o(p)].name
    BY <1>2 DEF IsSchema, Owner
  <2>2. entries[o(i)].name = entries[o(j)].name
    BY <1>5, <2>1 DEF Base
  <2>3. QED
    BY <2>1, <2>2 DEF TaskNamesDistinct
<1>7. CASE i = j
  BY <1>2, <1>7
<1>8. CASE i # j
  <2>1. \/ i < j /\ Named(entries, j) = Append(Base(entries, j), entries[j].slot)
        \/ j < i /\ Named(entries, i) = Append(Base(entries, i), entries[i].slot)
    BY <1>2, <1>4, <1>5, <1>8 DEF Named
  <2>2. \A p, q \in {i, j} : Base(entries, p) # Append(Base(entries, q), entries[q].slot)
    BY DEF Base
  <2>3. /\ Named(entries, i) = Append(Base(entries, i), entries[i].slot)
        /\ Named(entries, j) = Append(Base(entries, j), entries[j].slot)
    BY <1>3, <2>1, <2>2 DEF Named
  <2>4. entries[i].slot = entries[j].slot
    <3>1. \A p \in {i, j} : Append(Base(entries, p), entries[p].slot)[3] = entries[p].slot
      BY DEF Base
    <3>2. QED
      BY <1>3, <2>3, <3>1
  <2>5. QED
    BY <1>2, <1>6, <2>4 DEF Key
<1>9. QED
  BY <1>7, <1>8

-----------------------------------------------------------------------------
(* The inductive invariant.                                                *)

\* What is collected are chunks of one schema, that of the transfer's header, each
\* in its place.
ChunksOfTransfer ==
    transfer # None =>
        \E g \in Generations :
            /\ transfer = Header(g)
            /\ \A n \in DOMAIN chunks :
                  n \in 0 .. (Len(Layouts[g]) - 1) /\ chunks[n] = Layouts[g][n + 1]

\* The parser has accepted what is installed.
InstalledIsSchema == generation # None => IsSchema(Entries(generation))

SchemaInv ==
    /\ TypeOK /\ InstalledWhole /\ ParserAgrees /\ RetryOnlyWhileConnected
    /\ ChunksOfTransfer /\ InstalledIsSchema /\ DecodedRight

LEMMA InitEstablishes == Init => SchemaInv
<1> SUFFICES ASSUME Init PROVE SchemaInv
  OBVIOUS
<1>1. 1 \in Generations
  BY LayoutAssumption, EmptySeq, LenProperties DEF Generations
<1>2. TypeOK
  <2>1. generation = None /\ parser.generation = None /\ transfer = None /\ chunks = Nothing
    BY DEF Init, NoParser
  <2>2. repeats = 0 /\ 0 \in 0..MaxRepeats
    BY LayoutAssumption DEF Init
  <2>3. {connected, retry} \subseteq BOOLEAN /\ view \in {"live", "replay", "asked"}
    BY DEF Init
  <2>4. current \in Generations
    BY <1>1 DEF Init
  <2>5. QED
    BY <2>1, <2>2, <2>3, <2>4 DEF TypeOK
<1>3. QED
  BY <1>2 DEF Init, SchemaInv, InstalledWhole, ParserAgrees, RetryOnlyWhileConnected,
              ChunksOfTransfer, InstalledIsSchema, DecodedRight, NoParser

\* The user's actions and the timeout: the schema stays or is dropped whole.
LEMMA LinkPreserves ==
  ASSUME SchemaInv, ConnectNfv3 \/ Accepted \/ Disconnect \/ LinkDown \/ RetryTick \/ Import
  PROVE  SchemaInv'
<1> USE DEF SchemaInv, TypeOK, InstalledWhole, ParserAgrees, RetryOnlyWhileConnected,
            ChunksOfTransfer, InstalledIsSchema, DecodedRight, monitor
<1>1. CASE ConnectNfv3
  BY <1>1 DEF ConnectNfv3, ClearSchema, NoParser
<1>2. CASE Accepted
  <2>1. CASE UNCHANGED <<retry, schema, generation, parser, chunks, transfer, net>> /\ connected'
    BY <1>2, <2>1 DEF Accepted
  <2>2. CASE ClearSchema /\ retry' = TRUE /\ connected'
    BY <1>2, <2>2 DEF Accepted, ClearSchema, NoParser
  <2>3. QED
    BY <1>2, <2>1, <2>2 DEF Accepted
<1>3. CASE Disconnect
  BY <1>3 DEF Disconnect
<1>4. CASE LinkDown
  BY <1>4 DEF LinkDown
<1>5. CASE RetryTick
  BY <1>5 DEF RetryTick
<1>6. CASE Import
  BY <1>6 DEF Import
<1>7. QED
  BY <1>1, <1>2, <1>3, <1>4, <1>5, <1>6

\* The device and the network change nothing that the Monitor keeps.
LEMMA DevicePreserves ==
  ASSUME SchemaInv,
         AnswerRequest \/ SendData \/ ChangeLayout \/ \E m : Lose(m)
  PROVE  SchemaInv'
<1>1. UNCHANGED <<monitor, view, repeats, decoded>> /\ current' \in Generations
  <2>1. current \in Generations
    BY DEF SchemaInv, TypeOK
  <2>2. CASE ChangeLayout
    <3>1. Generations = 1..Len(Layouts) /\ Len(Layouts) \in Nat
      BY LayoutAssumption, LenProperties DEF Generations
    <3>2. QED
      BY <2>1, <2>2, <3>1 DEF ChangeLayout
  <2>3. QED
    BY <2>1, <2>2 DEF AnswerRequest, SendData, Lose, ChangeLayout
<1>2. QED
  BY <1>1 DEF SchemaInv, TypeOK, InstalledWhole, ParserAgrees, RetryOnlyWhileConnected,
              ChunksOfTransfer, InstalledIsSchema, DecodedRight, monitor

-----------------------------------------------------------------------------
(* Packets.                                                                *)

\* The network repeats no more than it may.
LEMMA TakenTypes ==
  ASSUME TypeOK, NEW m, NEW sent, Taken(m, sent)
  PROVE  repeats' \in 0..MaxRepeats
BY LayoutAssumption DEF TypeOK, Taken

\* Chunks that are put together are the device's schema, and nothing else is.
LEMMA CollectedIsWhole ==
  ASSUME NEW g \in Generations, NEW c,
         DOMAIN c = 0 .. (Header(g).total - 1),
         \A n \in DOMAIN c : c[n] = Layouts[g][n + 1]
  PROVE  FlattenSeq([i \in 1..Header(g).total |-> c[i - 1]]) = Entries(g)
<1>1. Header(g).total = Len(Layouts[g]) /\ Len(Layouts[g]) \in Nat
  BY LayoutFacts DEF Header
<1>2. [i \in 1..Header(g).total |-> c[i - 1]] = [i \in 1..Len(Layouts[g]) |-> Layouts[g][i]]
  BY <1>1
<1>3. QED
  BY <1>2, LayoutFacts DEF Entries

\* A chunk is collected, or completes a schema that is installed or dropped.
LEMMA ResponsePreserves ==
  ASSUME SchemaInv, NEW m \in AllChunks, SchemaResponse(m),
         UNCHANGED current, repeats' \in 0..MaxRepeats
  PROVE  SchemaInv'
<1>1. PICK g \in Generations : \E i \in DOMAIN Layouts[g] :
         m = [type |-> "chunk", index |-> i - 1, entries |-> Layouts[g][i], header |-> Header(g)]
  BY DEF AllChunks, ChunkPackets
<1>i. PICK i \in DOMAIN Layouts[g] :
         m = [type |-> "chunk", index |-> i - 1, entries |-> Layouts[g][i], header |-> Header(g)]
  BY <1>1
<1>2. /\ m.index = i - 1 /\ m.entries = Layouts[g][i] /\ m.header = Header(g)
      /\ Header(g).total = Len(Layouts[g]) /\ Header(g).generation = g
      /\ Len(Layouts[g]) \in Nat \ {0} /\ i \in 1..Len(Layouts[g])
      /\ Header(g) # None /\ g # None
  BY <1>i, LayoutFacts, LenProperties, NoneFacts DEF Header
<1> DEFINE old == IF Continues(m.header) THEN chunks ELSE Nothing
           collected == [n \in DOMAIN old \cup {m.index} |->
                            IF n = m.index THEN m.entries ELSE old[n]]
           complete == DOMAIN collected = 0 .. (m.header.total - 1)
           entries == FlattenSeq([n \in 1..m.header.total |-> collected[n - 1]])
           good == complete /\ Len(entries) = m.header.entries /\ IsSchema(entries)
<1>3. \A n \in DOMAIN old : n \in 0..(Len(Layouts[g]) - 1) /\ old[n] = Layouts[g][n + 1]
  <2>1. CASE Continues(m.header)
    <3>1. transfer = Header(g)
      BY <1>2, <2>1 DEF Continues
    <3>2. PICK h \in Generations :
             /\ transfer = Header(h)
             /\ \A n \in DOMAIN chunks :
                   n \in 0..(Len(Layouts[h]) - 1) /\ chunks[n] = Layouts[h][n + 1]
      BY <1>2, <3>1 DEF SchemaInv, ChunksOfTransfer
    <3>3. h = g
      BY <3>1, <3>2 DEF Header
    <3>4. QED
      BY <2>1, <3>2, <3>3
  <2>2. CASE ~Continues(m.header)
    BY <2>2 DEF Nothing
  <2>3. QED
    BY <2>1, <2>2
<1>4. \A n \in DOMAIN collected :
         n \in 0..(Len(Layouts[g]) - 1) /\ collected[n] = Layouts[g][n + 1]
  BY <1>2, <1>3
<1>5. /\ connected /\ connected' = connected
      /\ \/ good /\ Install(m.header, entries)
         \/ /\ ~good /\ transfer' = m.header
            /\ chunks' = IF complete THEN Nothing ELSE collected
            /\ UNCHANGED <<retry, schema, generation, parser, view, decoded>>
  BY DEF SchemaResponse
<1> HIDE DEF collected, old
<1>6. CASE good /\ Install(m.header, entries)
  <2>1. entries = Entries(g)
    BY <1>2, <1>4, <1>6, CollectedIsWhole
  <2> HIDE DEF entries
  <2>2. /\ generation' = g /\ parser' = [generation |-> g, ports |-> Ports(Entries(g))]
        /\ schema' = Names(Entries(g)) /\ IsSchema(Entries(g))
        /\ chunks' = Nothing /\ transfer' = None /\ retry' = FALSE
        /\ view' \in {"live", "replay", "asked"} /\ decoded' \in {{}, decoded}
    BY <1>2, <1>6, <2>1 DEF Install, SchemaInv, TypeOK
  <2>3. TypeOK'
    BY <1>5, <2>2 DEF SchemaInv, TypeOK
  <2>4. QED
    BY <1>2, <2>2, <2>3 DEF SchemaInv, InstalledWhole, ParserAgrees, RetryOnlyWhileConnected,
          ChunksOfTransfer, InstalledIsSchema, DecodedRight
<1>7. CASE /\ ~good /\ transfer' = m.header
           /\ chunks' = IF complete THEN Nothing ELSE collected
           /\ UNCHANGED <<retry, schema, generation, parser, view, decoded>>
  <2>1. \A n \in DOMAIN chunks' :
           n \in 0..(Len(Layouts[g]) - 1) /\ chunks'[n] = Layouts[g][n + 1]
    BY <1>4, <1>7 DEF Nothing
  <2>2. DOMAIN chunks' # 0..(Len(Layouts[g]) - 1)
    <3>1. CASE complete
      <4>1. chunks' = Nothing
        BY <1>7, <3>1
      <4>2. 0 \in 0..(Len(Layouts[g]) - 1) /\ 0 \notin DOMAIN Nothing
        BY <1>2 DEF Nothing
      <4>3. QED
        BY <4>1, <4>2
    <3>2. CASE ~complete
      BY <1>2, <1>7, <3>2
    <3>3. QED
      BY <3>1, <3>2
  <2>3. transfer' = Header(g)
    BY <1>2, <1>7
  <2> HIDE DEF good
  <2>4. TypeOK'
    BY <1>2, <1>5, <1>7, <2>1, <2>2, <2>3 DEF SchemaInv, TypeOK
  <2>5. ChunksOfTransfer'
    BY <2>1, <2>3 DEF ChunksOfTransfer
  <2>6. QED
    BY <1>5, <1>7, <2>4, <2>5 DEF SchemaInv, InstalledWhole, ParserAgrees,
          RetryOnlyWhileConnected, InstalledIsSchema, DecodedRight
<1>8. QED
  BY <1>5, <1>6, <1>7

LEMMA ChunkPreserves ==
  ASSUME SchemaInv, NEW m \in AllChunks, ReceiveChunk(m)
  PROVE  SchemaInv'
<1>1. repeats' \in 0..MaxRepeats /\ UNCHANGED current
  BY TakenTypes DEF ReceiveChunk, SchemaInv
<1>2. CASE SchemaResponse(m)
  BY <1>1, <1>2, ResponsePreserves
<1>3. CASE UNCHANGED <<monitor, view, decoded>>
  BY <1>1, <1>3 DEF SchemaInv, TypeOK, InstalledWhole, ParserAgrees, RetryOnlyWhileConnected,
              ChunksOfTransfer, InstalledIsSchema, DecodedRight, monitor
<1>4. QED
  BY <1>2, <1>3 DEF ReceiveChunk

\* A packet is decoded with the schema of its generation, or makes the Monitor ask.
LEMMA DataPreserves ==
  ASSUME SchemaInv, NEW m \in AllData, ReceiveData(m)
  PROVE  SchemaInv'
<1>1. PICK g \in Generations : m = DataPacket(g)
  BY DEF AllData
<1>2. m.generation = g /\ g # None
  BY <1>1, NoneFacts DEF DataPacket
<1>3. repeats' \in 0..MaxRepeats /\ UNCHANGED current
  BY TakenTypes DEF ReceiveData, SchemaInv
<1>4. CASE UNCHANGED <<monitor, view, decoded>>
  BY <1>3, <1>4 DEF SchemaInv, TypeOK, InstalledWhole, ParserAgrees, RetryOnlyWhileConnected,
              ChunksOfTransfer, InstalledIsSchema, DecodedRight, monitor
<1>5. CASE ProcessData(m)
  <2>1. /\ UNCHANGED <<connected, schema, generation, parser, view>> /\ connected
        /\ \/ UNCHANGED <<retry, chunks, transfer>>
           \/ retry' = TRUE /\ chunks' = Nothing /\ transfer' = None
    BY <1>5 DEF ProcessData
  <2>2. TypeOK' /\ InstalledWhole' /\ ParserAgrees' /\ InstalledIsSchema'
        /\ RetryOnlyWhileConnected' /\ ChunksOfTransfer'
    BY <1>3, <2>1 DEF SchemaInv, TypeOK, InstalledWhole, ParserAgrees,
          RetryOnlyWhileConnected, ChunksOfTransfer, InstalledIsSchema
  <2>3. DecodedRight'
    <3>1. CASE decoded' = decoded
      BY <3>1 DEF SchemaInv, DecodedRight
    <3>2. CASE Decodable(m) /\ decoded' = {<<schema[k], Value(m.generation, k)>> :
                                 k \in DOMAIN schema \cap {Key(p) : p \in parser.ports}}
      <4>1. schema = Names(Entries(g)) /\ IsSchema(Entries(g))
        BY <1>2, <3>2 DEF Decodable, SchemaInv, InstalledWhole, InstalledIsSchema
      <4>2. ASSUME NEW d \in decoded'
            PROVE  d[1][2] = d[2]
        <5>1. PICK k \in DOMAIN schema : d = <<schema[k], Value(g, k)>>
          BY <1>2, <3>2
        <5>2. schema[k][2] = Value(g, k)
          BY <4>1, NamesAreTheirs
        <5>3. QED
          BY <5>1, <5>2
      <4>3. QED
        BY <4>2 DEF DecodedRight
    <3>3. QED
      BY <1>5, <3>1, <3>2 DEF ProcessData
  <2>4. QED
    BY <2>2, <2>3 DEF SchemaInv
<1>6. QED
  BY <1>4, <1>5 DEF ReceiveData

LEMMA Inductive == SchemaInv /\ [Next]_vars => SchemaInv'
<1> SUFFICES ASSUME SchemaInv, [Next]_vars PROVE SchemaInv'
  OBVIOUS
<1>1. CASE UNCHANGED vars
  BY <1>1 DEF vars, SchemaInv, TypeOK, InstalledWhole, ParserAgrees, RetryOnlyWhileConnected,
              ChunksOfTransfer, InstalledIsSchema, DecodedRight, monitor
<1>2. CASE Next
  BY <1>2, LinkPreserves, DevicePreserves, ChunkPreserves, DataPreserves DEF Next
<1>3. QED
  BY <1>1, <1>2

LEMMA Invariance == Spec => []SchemaInv
<1>1. QED
  BY InitEstablishes, Inductive, PTL DEF Spec

-----------------------------------------------------------------------------
(* What follows from it.                                                   *)

\* Every variable has its type.
THEOREM TypeCorrect == Spec => []TypeOK
<1>1. SchemaInv => TypeOK
  BY DEF SchemaInv
<1>2. QED
  BY <1>1, Invariance, PTL

\* Whatever was lost, repeated or mixed on the way, an installed schema is one the
\* device has sent, all of it and nothing else, in the receiver and in the parser.
THEOREM InstalledIsDevices == Spec => [](InstalledWhole /\ ParserAgrees)
<1>1. SchemaInv => InstalledWhole /\ ParserAgrees
  BY DEF SchemaInv
<1>2. QED
  BY <1>1, Invariance, PTL

\* No value is stored under the name of another port.
THEOREM ValuesHaveTheirNames == Spec => []DecodedRight
<1>1. SchemaInv => DecodedRight
  BY DEF SchemaInv
<1>2. QED
  BY <1>1, Invariance, PTL

\* All that the run states of the installation, for a device whose tasks have names
\* of their own: without that two ports may end up with one variable.
THEOREM InstallationIsSound ==
  ASSUME TaskNamesDistinct
  PROVE  Spec => []InstallationSound
<1>1. SchemaInv => InstallationSound
  <2> SUFFICES ASSUME SchemaInv PROVE NamesDistinct
    BY DEF SchemaInv, InstallationSound
  <2>1. CASE generation = None
    BY <2>1 DEF SchemaInv, ParserAgrees, NamesDistinct, Nothing
  <2>2. CASE generation # None
    <3>1. /\ generation \in Generations /\ IsSchema(Entries(generation))
          /\ schema = Names(Entries(generation))
      BY <2>2 DEF SchemaInv, TypeOK, InstalledWhole, InstalledIsSchema
    <3>2. QED
      BY <3>1, NamesAreDistinct DEF NamesDistinct
  <2>3. QED
    BY <2>1, <2>2
<1>2. QED
  BY <1>1, Invariance, PTL

\* A connection that is accepted starts with nothing of the last one and asks.
THEOREM ConnectionsBeginAfresh == Spec => BeginsAfresh
<1>1. SchemaInv /\ [Next]_vars =>
        [~connected /\ connected' => schema' = Nothing /\ chunks' = Nothing /\ retry']_vars
  <2> SUFFICES ASSUME SchemaInv, Next, ~connected, connected'
               PROVE  schema' = Nothing /\ chunks' = Nothing /\ retry'
    BY DEF vars
  <2>1. CASE Accepted
    BY <2>1 DEF Accepted, ClearSchema, SchemaInv, RetryOnlyWhileConnected
  <2>2. CASE ~Accepted
    <3>1. connected' = connected \/ connected' = FALSE
      BY <2>2 DEF Next, ConnectNfv3, Disconnect, LinkDown, RetryTick, Import, ReceiveChunk,
            SchemaResponse, ReceiveData, ProcessData, AnswerRequest, SendData, ChangeLayout,
            Lose, monitor
    <3>2. QED
      BY <3>1
  <2>3. QED
    BY <2>1, <2>2
<1>2. QED
  BY <1>1, Invariance, PTL DEF Spec, BeginsAfresh
=============================================================================

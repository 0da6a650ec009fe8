----------------------------- MODULE CaptureProofs -----------------------------
(***************************************************************************)
(* What the data model promises to those who draw from it, for any         *)
(* sources, packets and bounds: a curve is drawn anew when what it shows   *)
(* has changed, no sample that is recorded lacks the offset of its clock,  *)
(* queries answer what the whole series says; and the recording is a table *)
(* of samples that an export and its import preserve.                      *)
(***************************************************************************)
EXTENDS Capture, FoldLemmas, SequenceTheorems

-----------------------------------------------------------------------------
(* Types.                                                                  *)

Labels == 1 .. (MaxSession + 1)
Stamps == [ts : Instant, session : Labels]
Spans == [session : Labels, start : Nat, end : Nat]
Buckets == [offset : Sources \cup {None}, stamps : Seq(Stamps), spans : Seq(Spans),
            last : Instant \cup {None}, session : Labels]
Bindings == [src : Sources \cup {None}, values : Seq(Instant)]
Transforms == [offset : Int, epoch : Labels]

\* Dictionaries whose keys are sessions of clocks.
Sessions == Sources \X Labels
Dicts(T) == UNION {[D -> T] : D \in SUBSET Sessions}

Models == [sources : [Sources -> Buckets], vars : [Vars -> Bindings],
           offsets : Dicts(Int), transforms : [Sources -> Transforms \cup {None}],
           history : Dicts(Transforms), calibrated : Dicts(Transforms),
           mode : {"realtime", "calibrated"}, bumped : SUBSET Sources, valued : SUBSET Vars]

LEMMA ConstantFacts ==
    /\ Instant \subseteq Nat /\ 0 \in Instant
    /\ Labels \subseteq Nat \ {0} /\ 1 \in Labels /\ 1..MaxSession \subseteq Labels
    /\ \A k \in 1..MaxSession : k + 1 \in Labels
<1>1. MaxSession \in Nat \ {0}
  BY CaptureAssumption
<1>2. \E n \in Times : \A k \in Times : n >= k
  <2>1. Times \in SUBSET Int /\ IsFiniteSet(Times) /\ Times # {}
    BY CaptureAssumption
  <2>2. QED
    BY <2>1, GreatestExists
<1>3. Max(Times) \in Nat
  <2>1. Max(Times) \in Times
    BY <1>2 DEF Max
  <2>2. QED
    BY <2>1, CaptureAssumption
<1>4. QED
  BY <1>1, <1>3 DEF Instant, Labels

LEMMA MaxOfTwo ==
  ASSUME NEW a \in Int, NEW b \in Int
  PROVE  /\ Max({a, b}) \in {a, b} /\ Max({a, b}) >= a /\ Max({a, b}) >= b
         /\ (a >= b => Max({a, b}) = a) /\ (b >= a => Max({a, b}) = b)
<1>1. \E x \in {a, b} : \A y \in {a, b} : x >= y
  OBVIOUS
<1>2. Max({a, b}) \in {a, b} /\ \A y \in {a, b} : Max({a, b}) >= y
  BY <1>1 DEF Max
<1>3. QED
  BY <1>2

LEMMA MinOfTwo ==
  ASSUME NEW a \in Int, NEW b \in Int
  PROVE  Min({a, b}) \in {a, b} /\ Min({a, b}) <= a /\ Min({a, b}) <= b
<1>1. \E x \in {a, b} : \A y \in {a, b} : x =< y
  OBVIOUS
<1>2. Min({a, b}) \in {a, b} /\ \A y \in {a, b} : Min({a, b}) =< y
  BY <1>1 DEF Min
<1>3. QED
  BY <1>2

\* What an entry of a dictionary is.
LEMMA DictFacts ==
  ASSUME NEW T, NEW f \in Dicts(T)
  PROVE  /\ f \in [DOMAIN f -> T] /\ DOMAIN f \subseteq Sessions
         /\ \A k \in DOMAIN f : k \in Sessions /\ f[k] \in T
BY DEF Dicts

LEMMA WithIsDict ==
  ASSUME NEW T, NEW f \in Dicts(T), NEW key \in Sessions, NEW x \in T
  PROVE  With(f, key, x) \in Dicts(T)
<1>1. f \in [DOMAIN f -> T] /\ DOMAIN f \subseteq Sessions
  BY DictFacts
<1> DEFINE D == DOMAIN f \cup {key}
<1>2. With(f, key, x) \in [D -> T] /\ D \in SUBSET Sessions
  BY <1>1 DEF With
<1>3. QED
  BY <1>2 DEF Dicts

LEMMA UpdatedIsDict ==
  ASSUME NEW T, NEW f \in Dicts(T), NEW g \in Dicts(T)
  PROVE  Updated(f, g) \in Dicts(T)
<1>1. /\ f \in [DOMAIN f -> T] /\ DOMAIN f \subseteq Sessions
      /\ g \in [DOMAIN g -> T] /\ DOMAIN g \subseteq Sessions
  BY DictFacts
<1> DEFINE D == DOMAIN f \cup DOMAIN g
<1>2. Updated(f, g) \in [D -> T] /\ D \in SUBSET Sessions
  BY <1>1 DEF Updated
<1>3. QED
  BY <1>2 DEF Dicts

LEMMA NothingIsDict == ASSUME NEW T PROVE Nothing \in Dicts(T)
<1>1. Nothing \in [{} -> T]
  BY DEF Nothing
<1>2. QED
  BY <1>1 DEF Dicts

LEMMA ModelFacts ==
  ASSUME NEW m \in Models
  PROVE  /\ m.sources \in [Sources -> Buckets] /\ m.vars \in [Vars -> Bindings]
         /\ m.offsets \in Dicts(Int) /\ m.transforms \in [Sources -> Transforms \cup {None}]
         /\ m.history \in Dicts(Transforms) /\ m.calibrated \in Dicts(Transforms)
         /\ m.mode \in {"realtime", "calibrated"}
         /\ m.bumped \subseteq Sources /\ m.valued \subseteq Vars
         /\ \A s \in Sources : m.sources[s] \in Buckets /\ ClockOf(m, s) \in Sources
         /\ \A v \in Vars : m.vars[v] \in Bindings
BY DEF Models, ClockOf, Buckets

-----------------------------------------------------------------------------
(* What an operation of the data model keeps.                              *)

\* The transform of a clock is also kept for the session it was made for, so that
\* publishing the same again changes nothing.
HistoryHolds(m) == \A c \in Sources : m.transforms[c] # None =>
    LET key == <<c, m.transforms[c].epoch>>
    IN  key \in DOMAIN m.history /\ m.history[key] = m.transforms[c]

Sound(m) ==
    /\ m \in Models
    /\ HistoryHolds(m)
    /\ \A s \in Sources : SpansDivide(m.sources[s])

\* Whoever reads m, and finds that a revision has not moved, reads the same in n.
Tracks(m, n) ==
    /\ m.bumped \subseteq n.bumped /\ m.valued \subseteq n.valued
    /\ \A v \in Vars : v \notin n.valued => n.vars[v] = m.vars[v]
    /\ \A s \in Sources : s \notin n.bumped =>
          /\ n.sources[s].stamps = m.sources[s].stamps
          /\ \A label \in Labels : Aligned(n, s, label) = Aligned(m, s, label)

\* The sessions of clocks that have an offset or a transform.
Known(m) == DOMAIN m.offsets \cup DOMAIN m.history

\* No sample is added and no source given another clock; no offset is lost.
Keeps(m, n) ==
    /\ n.vars = m.vars
    /\ \A s \in Sources : /\ n.sources[s].stamps = m.sources[s].stamps
                          /\ n.sources[s].offset = m.sources[s].offset
    /\ Known(m) \subseteq Known(n)

Evolves(m, n) == Sound(n) /\ Tracks(m, n) /\ Keeps(m, n)

\* A source has the stamp x in addition.
Stamped(m, n, s, x) ==
    /\ n.vars = m.vars
    /\ n.sources[s].stamps = Append(m.sources[s].stamps, x)
    /\ \A r \in Sources \ {s} : n.sources[r].stamps = m.sources[r].stamps

\* And variables have the values of data, if they belong to that source or to none.
Sampled(m, n, s, x, data) ==
    /\ n.sources[s].stamps = Append(m.sources[s].stamps, x)
    /\ \A r \in Sources \ {s} : n.sources[r].stamps = m.sources[r].stamps
    /\ (\A v \in DOMAIN data : m.vars[v].src \in {None, s}) =>
          n.vars = [v \in Vars |-> IF v \notin DOMAIN data THEN m.vars[v]
                      ELSE [src |-> s, values |-> Append(m.vars[v].values, data[v])]]

LEMMA TracksIsTransitive ==
  ASSUME NEW m, NEW n, NEW p, Tracks(m, n), Tracks(n, p)
  PROVE  Tracks(m, p)
BY DEF Tracks

LEMMA KeepsIsTransitive ==
  ASSUME NEW m, NEW n, NEW p, Keeps(m, n), Keeps(n, p)
  PROVE  Keeps(m, p)
BY DEF Keeps

LEMMA SampledIsKept ==
  ASSUME NEW m, NEW n, NEW p, NEW s \in Sources, NEW x, NEW data,
         Sampled(m, n, s, x, data), Keeps(n, p)
  PROVE  Sampled(m, p, s, x, data)
BY DEF Sampled, Keeps

LEMMA EvolvesIsTransitive ==
  ASSUME NEW m, NEW n, NEW p, Evolves(m, n), Evolves(n, p)
  PROVE  Evolves(m, p)
<1>1. Tracks(m, p)
  BY TracksIsTransitive DEF Evolves
<1>2. Keeps(m, p)
  BY KeepsIsTransitive DEF Evolves
<1>3. QED
  BY <1>1, <1>2 DEF Evolves

LEMMA EvolvesIsReflexive ==
  ASSUME NEW m, Sound(m)
  PROVE  Evolves(m, m)
BY DEF Evolves, Tracks, Keeps

\* An entry is the same in two dictionaries, or in neither.
SameEntry(f, g, key) ==
    /\ key \in DOMAIN f <=> key \in DOMAIN g
    /\ key \in DOMAIN f => f[key] = g[key]

\* The offset of a session depends on its entries and on the mode alone.
LEMMA SameAlignment ==
  ASSUME NEW m, NEW n, NEW s, NEW label, n.mode = m.mode, ClockOf(n, s) = ClockOf(m, s),
         SameEntry(m.offsets, n.offsets, <<ClockOf(m, s), label>>),
         SameEntry(m.history, n.history, <<ClockOf(m, s), label>>),
         SameEntry(m.calibrated, n.calibrated, <<ClockOf(m, s), label>>)
  PROVE  Aligned(n, s, label) = Aligned(m, s, label)
<1> DEFINE key == <<ClockOf(m, s), label>>
           other == <<ClockOf(n, s), label>>
<1>1. other = key
  OBVIOUS
<1> HIDE DEF key
<1>2. /\ key \in DOMAIN m.offsets <=> key \in DOMAIN n.offsets
      /\ key \in DOMAIN m.history <=> key \in DOMAIN n.history
      /\ key \in DOMAIN m.calibrated <=> key \in DOMAIN n.calibrated
      /\ key \in DOMAIN m.offsets => m.offsets[key] = n.offsets[key]
      /\ key \in DOMAIN m.history => m.history[key] = n.history[key]
      /\ key \in DOMAIN m.calibrated => m.calibrated[key] = n.calibrated[key]
  BY DEF SameEntry, key
<1>3. Aligned(m, s, label) =
        IF m.mode = "calibrated" /\ key \in DOMAIN m.calibrated
        THEN m.calibrated[key].offset
        ELSE IF key \in DOMAIN m.history THEN m.history[key].offset
        ELSE IF key \in DOMAIN m.offsets THEN m.offsets[key] ELSE 0
  BY DEF Aligned, key
<1>4. Aligned(n, s, label) =
        IF n.mode = "calibrated" /\ key \in DOMAIN n.calibrated
        THEN n.calibrated[key].offset
        ELSE IF key \in DOMAIN n.history THEN n.history[key].offset
        ELSE IF key \in DOMAIN n.offsets THEN n.offsets[key] ELSE 0
  BY <1>1 DEF Aligned
<1>5. QED
  BY <1>2, <1>3, <1>4

-----------------------------------------------------------------------------
(* The operations that change offsets and transforms.                      *)

LEMMA SameSpans ==
  ASSUME NEW b, NEW c, SpansDivide(b), c.stamps = b.stamps, c.spans = b.spans
  PROVE  SpansDivide(c)
BY DEF SpansDivide

\* What changes an entry of a session of a clock, and marks the sources that follow
\* the clock.
LEMMA EntryEvolves ==
  ASSUME NEW m, Sound(m), NEW n \in Models, NEW clock \in Sources, NEW label \in Labels,
         n.sources = m.sources, n.vars = m.vars, n.mode = m.mode,
         n.valued = m.valued, HistoryHolds(n),
         Known(m) \subseteq Known(n),
         n.bumped = m.bumped \cup {s \in Sources : ClockOf(m, s) = clock},
         \A key \in Sessions : key # <<clock, label>> =>
            /\ SameEntry(m.offsets, n.offsets, key)
            /\ SameEntry(m.history, n.history, key)
            /\ SameEntry(m.calibrated, n.calibrated, key)
  PROVE  Evolves(m, n)
<1>1. Sound(n)
  BY DEF Sound
<1>2. Tracks(m, n)
  <2>1. ASSUME NEW s \in Sources, s \notin n.bumped, NEW l \in Labels
        PROVE  Aligned(n, s, l) = Aligned(m, s, l)
    <3>1. ClockOf(n, s) = ClockOf(m, s)
      BY DEF ClockOf
    <3>2. ClockOf(m, s) # clock /\ <<ClockOf(m, s), l>> \in Sessions
      BY <2>1, ModelFacts DEF Sound, Sessions
    <3>3. <<ClockOf(m, s), l>> # <<clock, label>>
      BY <3>2
    <3>4. QED
      BY <3>1, <3>2, <3>3, SameAlignment
  <2>2. QED
    BY <2>1 DEF Tracks
<1>3. QED
  BY <1>1, <1>2 DEF Evolves, Keeps

LEMMA LowerOffsetEvolves ==
  ASSUME NEW m, Sound(m), NEW clock \in Sources, NEW label \in Labels, NEW offset \in Int
  PROVE  /\ Evolves(m, LowerOffset(m, clock, label, offset))
         /\ <<clock, label>> \in DOMAIN LowerOffset(m, clock, label, offset).offsets
<1> DEFINE key == <<clock, label>>
           n == LowerOffset(m, clock, label, offset)
           marked == {s \in Sources : ClockOf(m, s) = clock}
<1>1. m \in Models
  BY DEF Sound
<1>2. CASE key \in DOMAIN m.offsets /\ m.offsets[key] <= offset
  <2>1. n = m
    BY <1>2 DEF LowerOffset
  <2>2. QED
    BY <1>2, <2>1, EvolvesIsReflexive
<1>3. CASE ~(key \in DOMAIN m.offsets /\ m.offsets[key] <= offset)
  <2> DEFINE o == [m EXCEPT !.offsets = With(@, key, offset)]
             p == [m EXCEPT !.offsets = With(@, key, offset), !.bumped = @ \cup marked]
  <2>0. \A s \in Sources : ClockOf(o, s) = ClockOf(m, s)
    BY <1>1 DEF Models, ClockOf
  <2>1. n = p
    <3>1. n = Mark(o, clock)
      BY <1>3 DEF LowerOffset
    <3>2. {s \in Sources : ClockOf(o, s) = clock} = marked
      BY <2>0
    <3>3. Mark(o, clock) = [o EXCEPT !.bumped = @ \cup marked]
      BY <3>2 DEF Mark
    <3>4. [o EXCEPT !.bumped = @ \cup marked] = p
      BY <1>1 DEF Models
    <3>5. QED
      BY <3>1, <3>3, <3>4
  <2>2. With(m.offsets, key, offset) \in Dicts(Int)
    BY <1>1, ModelFacts, WithIsDict DEF Sessions
  <2>3. /\ p \in Models /\ p.offsets = With(m.offsets, key, offset)
        /\ p.sources = m.sources /\ p.vars = m.vars /\ p.mode = m.mode
        /\ p.transforms = m.transforms
        /\ p.valued = m.valued /\ p.history = m.history /\ p.calibrated = m.calibrated
        /\ p.bumped = m.bumped \cup marked
    <3> HIDE DEF key
    <3>1. QED
      BY <1>1, <2>2 DEF Models
  <2> HIDE DEF p
  <2>4. HistoryHolds(p)
    BY <2>3 DEF Sound, HistoryHolds
  <2>5. Known(m) \subseteq Known(p) /\ key \in DOMAIN p.offsets
    BY <2>3 DEF Known, With
  <2>6. \A k \in Sessions : k # key => SameEntry(m.offsets, p.offsets, k)
    BY <2>3 DEF SameEntry, With
  <2>7. \A k \in Sessions : k # key => /\ SameEntry(m.offsets, p.offsets, k)
            /\ SameEntry(m.history, p.history, k) /\ SameEntry(m.calibrated, p.calibrated, k)
    BY <2>3, <2>6 DEF SameEntry
  <2>8. Evolves(m, p)
    BY <2>3, <2>4, <2>5, <2>7, EntryEvolves
  <2>9. QED
    BY <2>1, <2>5, <2>8
<1>4. QED
  BY <1>2, <1>3

LEMMA TransformEvolves ==
  ASSUME NEW m, Sound(m), NEW clock \in Sources, NEW t \in Transforms
  PROVE  Evolves(m, SetClockTransform(m, clock, t))
<1> DEFINE key == <<clock, t.epoch>>
           n == SetClockTransform(m, clock, t)
           marked == {s \in Sources : ClockOf(m, s) = clock}
           o == [m EXCEPT !.transforms[clock] = t, !.history = With(@, key, t)]
<1>1. m \in Models /\ t.epoch \in Labels /\ key \in Sessions
  BY DEF Sound, Transforms, Sessions
<1>2. With(m.history, key, t) \in Dicts(Transforms)
  BY <1>1, ModelFacts, WithIsDict
<1>3. /\ o \in Models /\ o.history = With(m.history, key, t)
      /\ o.sources = m.sources /\ o.vars = m.vars /\ o.mode = m.mode
      /\ o.transforms = [m.transforms EXCEPT ![clock] = t]
      /\ o.valued = m.valued /\ o.offsets = m.offsets /\ o.calibrated = m.calibrated
      /\ o.bumped = m.bumped
  <2> HIDE DEF key
  <2>1. QED
    BY <1>1, <1>2 DEF Models
<1>4. HistoryHolds(o)
  <2> SUFFICES ASSUME NEW c \in Sources, o.transforms[c] # None
               PROVE  LET k == <<c, o.transforms[c].epoch>>
                      IN  k \in DOMAIN o.history /\ o.history[k] = o.transforms[c]
    BY DEF HistoryHolds
  <2> HIDE DEF o
  <2>1. m.transforms \in [Sources -> Transforms \cup {None}]
    BY <1>1, ModelFacts
  <2>2. CASE c = clock
    <3>1. o.transforms[c] = t
      BY <1>3, <2>1, <2>2
    <3>2. QED
      BY <1>3, <2>2, <3>1 DEF With
  <2>3. CASE c # clock
    <3>1. o.transforms[c] = m.transforms[c]
      BY <1>3, <2>1, <2>3
    <3>2. <<c, m.transforms[c].epoch>> # key
      BY <2>3
    <3>3. QED
      BY <1>3, <3>1, <3>2 DEF Sound, HistoryHolds, With
  <2>4. QED
    BY <2>2, <2>3
<1>5. Known(m) \subseteq Known(o)
  BY <1>3 DEF Known, With
<1>6. CASE m.transforms[clock] = t
  <2>1. n = o
    BY <1>6 DEF SetClockTransform
  <2>2. key \in DOMAIN m.history /\ m.history[key] = t
    <3>1. t # None
      BY <1>1, ConstantFacts, CaptureAssumption DEF Transforms
    <3>2. QED
      BY <1>6, <3>1 DEF Sound, HistoryHolds
  <2>3. \A k \in Sessions : SameEntry(m.history, o.history, k)
    <3> HIDE DEF o, key
    <3>1. QED
      BY <1>3, <2>2 DEF With, SameEntry
  <2>4. \A s \in Sources, l \in Labels : Aligned(o, s, l) = Aligned(m, s, l)
    <3> SUFFICES ASSUME NEW s \in Sources, NEW l \in Labels
                 PROVE  Aligned(o, s, l) = Aligned(m, s, l)
      OBVIOUS
    <3> HIDE DEF o
    <3>1. ClockOf(o, s) = ClockOf(m, s) /\ <<ClockOf(m, s), l>> \in Sessions
      BY <1>1, <1>3, ModelFacts DEF ClockOf, Sessions
    <3>2. /\ SameEntry(m.offsets, o.offsets, <<ClockOf(m, s), l>>)
          /\ SameEntry(m.calibrated, o.calibrated, <<ClockOf(m, s), l>>)
      BY <1>3 DEF SameEntry
    <3>3. QED
      BY <1>3, <2>3, <3>1, <3>2, SameAlignment
  <2> HIDE DEF o
  <2>5. Tracks(m, o) /\ Keeps(m, o) /\ Sound(o)
    BY <1>3, <1>4, <1>5, <2>4 DEF Tracks, Keeps, Sound
  <2>6. QED
    BY <2>1, <2>5 DEF Evolves
<1>7. CASE m.transforms[clock] # t
  <2> DEFINE p == [o EXCEPT !.bumped = @ \cup marked]
  <2>1. n = p
    <3>1. n = Mark(o, clock)
      BY <1>7 DEF SetClockTransform
    <3>2. \A s \in Sources : ClockOf(o, s) = ClockOf(m, s)
      <4> HIDE DEF o
      <4>1. QED
        BY <1>3 DEF ClockOf
    <3>3. QED
      BY <3>1, <3>2 DEF Mark
  <2> HIDE DEF o
  <2>2. /\ p \in Models /\ p.history = With(m.history, key, t)
        /\ p.sources = m.sources /\ p.vars = m.vars /\ p.mode = m.mode
        /\ p.transforms = o.transforms
        /\ p.valued = m.valued /\ p.offsets = m.offsets /\ p.calibrated = m.calibrated
        /\ p.bumped = m.bumped \cup marked
    <3> HIDE DEF key
    <3>1. QED
      BY <1>3 DEF Models
  <2> HIDE DEF p
  <2>3. HistoryHolds(p) /\ Known(m) \subseteq Known(p)
    BY <1>3, <1>4, <1>5, <2>2 DEF HistoryHolds, Known
  <2>4. \A k \in Sessions : k # key => SameEntry(m.history, p.history, k)
    BY <2>2 DEF SameEntry, With
  <2>5. \A k \in Sessions : k # key => /\ SameEntry(m.offsets, p.offsets, k)
            /\ SameEntry(m.history, p.history, k) /\ SameEntry(m.calibrated, p.calibrated, k)
    BY <2>2, <2>4 DEF SameEntry
  <2>6. Evolves(m, p)
    BY <1>1, <2>2, <2>3, <2>5, EntryEvolves
  <2>7. QED
    BY <2>1, <2>6
<1>8. QED
  BY <1>6, <1>7
LEMMA CalibratedEvolves ==
  ASSUME NEW m, Sound(m), NEW models \in Dicts(Transforms)
  PROVE  Evolves(m, SetCalibratedClockTransforms(m, models))
<1> DEFINE n == SetCalibratedClockTransforms(m, models)
           changed == {key \in DOMAIN models :
                          key \notin DOMAIN m.calibrated \/ m.calibrated[key] # models[key]}
           marked == {s \in Sources : \E key \in changed : key[1] = ClockOf(m, s)}
<1>1. m \in Models
  BY DEF Sound
<1>2. Updated(m.calibrated, models) \in Dicts(Transforms)
  BY <1>1, ModelFacts, UpdatedIsDict
<1>3. /\ n \in Models /\ n.calibrated = Updated(m.calibrated, models)
      /\ n.sources = m.sources /\ n.vars = m.vars /\ n.mode = m.mode
      /\ n.transforms = m.transforms /\ n.history = m.history
      /\ n.valued = m.valued /\ n.offsets = m.offsets
      /\ n.bumped = m.bumped \cup marked
  <2>1. n = [m EXCEPT !.calibrated = Updated(@, models), !.bumped = @ \cup marked]
    BY DEF SetCalibratedClockTransforms
  <2> HIDE DEF n, changed
  <2>2. QED
    BY <1>1, <1>2, <2>1 DEF Models
<1>4. ASSUME NEW s \in Sources, s \notin n.bumped, NEW l \in Labels
      PROVE  Aligned(n, s, l) = Aligned(m, s, l)
  <2> DEFINE k == <<ClockOf(m, s), l>>
  <2>1. k[1] = ClockOf(m, s)
    OBVIOUS
  <2> HIDE DEF n, k
  <2>2. k \notin changed
    BY <1>3, <1>4, <2>1
  <2>3. SameEntry(m.calibrated, n.calibrated, k)
    BY <1>3, <2>2 DEF SameEntry, Updated
  <2>4. SameEntry(m.offsets, n.offsets, k) /\ SameEntry(m.history, n.history, k)
    BY <1>3 DEF SameEntry
  <2>5. ClockOf(n, s) = ClockOf(m, s)
    BY <1>3 DEF ClockOf
  <2>6. QED
    BY <1>3, <2>3, <2>4, <2>5, SameAlignment DEF k
<1> HIDE DEF n, changed
<1>5. Sound(n)
  BY <1>3 DEF Sound, HistoryHolds
<1>6. Tracks(m, n)
  BY <1>3, <1>4 DEF Tracks
<1>7. Keeps(m, n)
  BY <1>3 DEF Keeps, Known
<1>8. QED
  BY <1>5, <1>6, <1>7 DEF Evolves, n

LEMMA ModeEvolves ==
  ASSUME NEW m, Sound(m), NEW mode \in {"realtime", "calibrated"}
  PROVE  Evolves(m, SetAlignmentMode(m, mode))
<1> DEFINE n == [m EXCEPT !.mode = mode, !.bumped = Sources]
<1>1. m \in Models
  BY DEF Sound
<1>2. CASE mode = m.mode
  BY <1>2, EvolvesIsReflexive DEF SetAlignmentMode
<1>3. CASE mode # m.mode
  <2>1. /\ n \in Models /\ n.sources = m.sources /\ n.vars = m.vars
        /\ n.transforms = m.transforms /\ n.history = m.history
        /\ n.valued = m.valued /\ n.offsets = m.offsets /\ n.bumped = Sources
    BY <1>1 DEF Models
  <2>2. SetAlignmentMode(m, mode) = n
    BY <1>3 DEF SetAlignmentMode
  <2> HIDE DEF n
  <2>3. m.bumped \subseteq Sources
    BY <1>1, ModelFacts
  <2>4. Sound(n) /\ Tracks(m, n) /\ Keeps(m, n)
    BY <2>1, <2>3 DEF Sound, HistoryHolds, Tracks, Keeps, Known
  <2>5. QED
    BY <2>2, <2>4 DEF Evolves
<1>4. QED
  BY <1>2, <1>3

LEMMA EpochEvolves ==
  ASSUME NEW m, Sound(m), NEW clock \in Sources, NEW number \in 1..MaxSession
  PROVE  Evolves(m, BeginClockEpoch(m, clock, number))
<1> DEFINE n == BeginClockEpoch(m, clock, number)
           b == [m.sources[clock] EXCEPT !.session = Max({1, number}), !.last = None]
           o == [m EXCEPT !.sources[clock] = b, !.transforms[clock] = None]
           p == [o EXCEPT !.bumped = @ \cup {s \in Sources : ClockOf(o, s) = clock}]
<1>1. m \in Models /\ m.sources \in [Sources -> Buckets] /\ m.sources[clock] \in Buckets
  BY ModelFacts DEF Sound
<1>2. Max({1, number}) \in Labels
  <2>1. number \in Int /\ number \in Labels /\ 1 \in Labels
    BY ConstantFacts
  <2>2. Max({1, number}) \in {1, number}
    BY <2>1, MaxOfTwo
  <2>3. QED
    BY <2>1, <2>2
<1>3. /\ b \in Buckets /\ b.stamps = m.sources[clock].stamps
      /\ b.spans = m.sources[clock].spans /\ b.offset = m.sources[clock].offset
  BY <1>1, <1>2 DEF Buckets
<1>4. n = o \/ n = p
  BY DEF BeginClockEpoch, Mark
<1> HIDE DEF n, b
<1>5. /\ o \in Models /\ o.sources = [m.sources EXCEPT ![clock] = b]
      /\ o.vars = m.vars /\ o.mode = m.mode
      /\ o.transforms = [m.transforms EXCEPT ![clock] = None]
      /\ o.valued = m.valued /\ o.offsets = m.offsets /\ o.history = m.history
      /\ o.calibrated = m.calibrated /\ o.bumped = m.bumped
  BY <1>1, <1>3 DEF Models
<1> HIDE DEF o
<1>6. /\ p \in Models /\ p.sources = o.sources /\ p.vars = m.vars /\ p.mode = m.mode
      /\ p.transforms = o.transforms
      /\ p.valued = m.valued /\ p.offsets = m.offsets /\ p.history = m.history
      /\ p.calibrated = m.calibrated /\ m.bumped \subseteq p.bumped
  BY <1>5 DEF Models
<1> HIDE DEF p
<1>7. PICK q : /\ q = n /\ q \in Models /\ q.sources = [m.sources EXCEPT ![clock] = b]
               /\ q.vars = m.vars /\ q.mode = m.mode
               /\ q.transforms = [m.transforms EXCEPT ![clock] = None]
               /\ q.valued = m.valued /\ q.offsets = m.offsets /\ q.history = m.history
               /\ q.calibrated = m.calibrated /\ m.bumped \subseteq q.bumped
  BY <1>4, <1>5, <1>6
<1>8. \A s \in Sources : /\ q.sources[s].stamps = m.sources[s].stamps
                         /\ q.sources[s].spans = m.sources[s].spans
                         /\ q.sources[s].offset = m.sources[s].offset
  BY <1>1, <1>3, <1>7
<1>9. HistoryHolds(q)
  <2>1. m.transforms \in [Sources -> Transforms \cup {None}]
    BY <1>1, ModelFacts
  <2>2. QED
    BY <1>7, <2>1 DEF Sound, HistoryHolds
<1>10. \A s \in Sources, l \in Labels : Aligned(q, s, l) = Aligned(m, s, l)
  <2>1. \A s \in Sources : ClockOf(q, s) = ClockOf(m, s)
    BY <1>8 DEF ClockOf
  <2>2. QED
    BY <1>7, <2>1 DEF Aligned
<1>11. Sound(q)
  <2>1. \A s \in Sources : SpansDivide(q.sources[s])
    BY <1>8, SameSpans DEF Sound
  <2>2. QED
    BY <1>7, <1>9, <2>1 DEF Sound
<1>12. Tracks(m, q) /\ Keeps(m, q)
  BY <1>7, <1>8, <1>10 DEF Tracks, Keeps, Known
<1>13. QED
  BY <1>7, <1>11, <1>12 DEF Evolves, n
-----------------------------------------------------------------------------
(* Recording.                                                              *)

LEMMA SpanEnds ==
  ASSUME NEW u \in Spans, NEW n \in Nat
  PROVE  /\ [u EXCEPT !.end = n] \in Spans /\ [u EXCEPT !.end = n].end = n
         /\ [u EXCEPT !.end = n].start = u.start /\ [u EXCEPT !.end = n].session = u.session
BY DEF Spans

\* A stamp more extends the last span or begins one.
LEMMA ExtendedDivides ==
  ASSUME NEW b, b.stamps \in Seq(Stamps), b.spans \in Seq(Spans), SpansDivide(b),
         NEW x \in Stamps, NEW c, c.stamps = Append(b.stamps, x),
         c.spans = Extended(b.spans, Len(b.stamps) + 1, x.session)
  PROVE  c.stamps \in Seq(Stamps) /\ c.spans \in Seq(Spans) /\ SpansDivide(c)
<1> DEFINE n == Len(b.stamps)
           k == Len(b.spans)
<1>1. n \in Nat /\ k \in Nat
  BY LenProperties
<1>2. /\ c.stamps \in Seq(Stamps) /\ Len(c.stamps) = n + 1 /\ c.stamps[n + 1] = x
      /\ \A i \in 1..n : c.stamps[i] = b.stamps[i]
  BY AppendProperties
<1>3. /\ DOMAIN b.spans = 1..k
      /\ \A j \in 1..k : b.spans[j] \in Spans
      /\ b.spans = <<>> <=> k = 0
      /\ b.stamps = <<>> <=> n = 0
  BY LenProperties, ElementOfSeq, EmptySeq
<1>4. /\ k = 0 <=> n = 0
      /\ k # 0 => b.spans[1].start = 1 /\ b.spans[k].end = n
      /\ \A j \in 1..k :
            /\ 1 <= b.spans[j].start /\ b.spans[j].start <= b.spans[j].end
            /\ b.spans[j].end <= n
            /\ \A i \in b.spans[j].start .. b.spans[j].end :
                  b.stamps[i].session = b.spans[j].session
            /\ j > 1 => /\ b.spans[j].start = b.spans[j - 1].end + 1
                        /\ b.spans[j].session # b.spans[j - 1].session
  BY <1>3 DEF SpansDivide
<1>5. x.session \in Labels
  BY DEF Stamps
<1>9. \A j \in 1..k : /\ b.spans[j].start \in Nat /\ b.spans[j].end \in Nat
                        /\ b.spans[j].session \in Labels
  BY <1>3 DEF Spans
<1>10. \A j \in 1..k : j > 1 => j - 1 \in 1..k
  BY <1>1
<1> HIDE DEF n, k
<1>6. CASE k # 0 /\ b.spans[k].session = x.session
  <2> DEFINE last == [b.spans[k] EXCEPT !.end = n + 1]
  <2>1. c.spans = [b.spans EXCEPT ![k] = last]
    BY <1>3, <1>6 DEF Extended, Last, n, k
  <2>2. /\ last \in Spans /\ last.start = b.spans[k].start /\ last.end = n + 1
        /\ last.session = b.spans[k].session
    <3>1. k \in 1..k /\ b.spans[k] \in Spans
      BY <1>1, <1>3, <1>6
    <3>2. n + 1 \in Nat
      BY <1>1
    <3>3. QED
      BY <3>1, <3>2, SpanEnds
  <2> HIDE DEF last
  <2>3. c.spans \in Seq(Spans) /\ Len(c.spans) = k
    <3>1. k \in 1..Len(b.spans)
      BY <1>1, <1>6 DEF k
    <3>2. QED
      BY <2>1, <2>2, <3>1, ExceptSeq DEF k
  <2>4. /\ DOMAIN c.spans = 1..k /\ c.spans[k] = last
        /\ \A j \in 1..k : j # k => c.spans[j] = b.spans[j]
        /\ c.spans # <<>>
    BY <1>1, <1>3, <1>6, <2>1
  <2>5. c.stamps # <<>>
    BY <1>1, <1>2, EmptySeq
  <2>6. ASSUME NEW j \in 1..k
        PROVE  /\ 1 <= c.spans[j].start /\ c.spans[j].start <= c.spans[j].end
               /\ c.spans[j].end <= n + 1
               /\ \A i \in c.spans[j].start .. c.spans[j].end :
                     c.stamps[i].session = c.spans[j].session
               /\ j > 1 => /\ c.spans[j].start = c.spans[j - 1].end + 1
                           /\ c.spans[j].session # c.spans[j - 1].session
    <3>1. /\ b.spans[j].start \in Nat /\ b.spans[j].end \in Nat
          /\ j > 1 => b.spans[j - 1].start \in Nat /\ b.spans[j - 1].end \in Nat
      BY <1>9, <1>10
    <3>0. /\ 1 <= b.spans[j].start /\ b.spans[j].start <= b.spans[j].end
          /\ b.spans[j].end <= n
          /\ \A i \in b.spans[j].start .. b.spans[j].end :
                b.stamps[i].session = b.spans[j].session
          /\ j > 1 => /\ b.spans[j].start = b.spans[j - 1].end + 1
                      /\ b.spans[j].session # b.spans[j - 1].session
      BY <1>4
    <3>2. CASE j # k
      <4>1. c.spans[j] = b.spans[j] /\ (j > 1 => c.spans[j - 1] = b.spans[j - 1])
        BY <1>1, <2>4, <3>2
      <4>2. \A i \in b.spans[j].start .. b.spans[j].end : i \in 1..n
        BY <1>1, <3>0, <3>1
      <4>3. \A i \in c.spans[j].start .. c.spans[j].end :
               c.stamps[i].session = c.spans[j].session
        BY <1>2, <3>0, <4>1, <4>2
      <4>4. b.spans[j].end <= n + 1
        BY <1>1, <3>0, <3>1
      <4>5. QED
        BY <3>0, <4>1, <4>3, <4>4
    <3>3. CASE j = k
      <4>1. c.spans[j] = last /\ (j > 1 => c.spans[j - 1] = b.spans[j - 1])
        BY <1>1, <2>4, <3>3
      <4>2. b.spans[k].end = n
        BY <1>4, <1>6
      <4>3. \A i \in last.start .. last.end : c.stamps[i].session = last.session
        <5> SUFFICES ASSUME NEW i \in last.start .. last.end
                     PROVE  c.stamps[i].session = last.session
          OBVIOUS
        <5>1. CASE i = n + 1
          BY <1>2, <1>6, <2>2, <5>1
        <5>2. CASE i # n + 1
          <6>1. i \in b.spans[k].start .. b.spans[k].end /\ i \in 1..n
            BY <1>1, <1>4, <2>2, <3>1, <3>3, <4>2, <5>2
          <6>2. QED
            BY <1>2, <1>4, <2>2, <3>3, <6>1
        <5>3. QED
          BY <5>1, <5>2
      <4>4. last.start <= last.end /\ last.end <= n + 1
        BY <1>1, <2>2, <3>0, <3>1, <3>3
      <4>5. QED
        BY <2>2, <3>0, <3>3, <4>1, <4>3, <4>4
    <3>4. QED
      BY <3>2, <3>3
  <2>7. c.spans[1].start = 1 /\ c.spans[k].end = n + 1
    BY <1>1, <1>4, <1>6, <2>2, <2>4
  <2>8. SpansDivide(c)
    BY <1>2, <2>3, <2>4, <2>5, <2>6, <2>7 DEF SpansDivide
  <2>9. QED
    BY <1>2, <2>3, <2>8
<1>7. CASE ~(k # 0 /\ b.spans[k].session = x.session)
  <2> DEFINE new == [session |-> x.session, start |-> n + 1, end |-> n + 1]
  <2>1. c.spans = Append(b.spans, new)
    BY <1>3, <1>7 DEF Extended, Last, n, k
  <2>2. /\ new \in Spans /\ new.start = n + 1 /\ new.end = n + 1
        /\ new.session = x.session
    BY <1>1, <1>5 DEF Spans
  <2> HIDE DEF new
  <2>3. /\ c.spans \in Seq(Spans) /\ Len(c.spans) = k + 1 /\ DOMAIN c.spans = 1..(k + 1)
        /\ c.spans[k + 1] = new
        /\ \A j \in 1..k : c.spans[j] = b.spans[j]
    <3>1. /\ c.spans \in Seq(Spans) /\ Len(c.spans) = k + 1
          /\ c.spans[k + 1] = new /\ \A j \in 1..k : c.spans[j] = b.spans[j]
      <4>1. b.spans \in Seq(Spans) /\ new \in Spans
        BY <2>2
      <4>2. /\ Append(b.spans, new) \in Seq(Spans)
            /\ Len(Append(b.spans, new)) = Len(b.spans) + 1
            /\ Append(b.spans, new)[Len(b.spans) + 1] = new
            /\ \A j \in 1..Len(b.spans) : Append(b.spans, new)[j] = b.spans[j]
        BY <4>1, AppendProperties
      <4>3. QED
        BY <2>1, <4>2 DEF k
    <3>2. QED
      BY <3>1, LenProperties
  <2>4. c.spans # <<>> /\ c.stamps # <<>>
    <3>1. Len(c.spans) = k + 1 /\ Len(c.stamps) = n + 1
      BY <1>2, <2>3
    <3>2. Len(c.spans) # 0 /\ Len(c.stamps) # 0
      BY <1>1, <3>1
    <3>3. Len(<<>>) = 0
      BY EmptySeq
    <3> HIDE DEF n, k
    <3>4. QED
      BY <3>2, <3>3
  <2>5. ASSUME NEW j \in 1..(k + 1)
        PROVE  /\ 1 <= c.spans[j].start /\ c.spans[j].start <= c.spans[j].end
               /\ c.spans[j].end <= n + 1
               /\ \A i \in c.spans[j].start .. c.spans[j].end :
                     c.stamps[i].session = c.spans[j].session
               /\ j > 1 => /\ c.spans[j].start = c.spans[j - 1].end + 1
                           /\ c.spans[j].session # c.spans[j - 1].session
    <3>1. CASE j \in 1..k
      <4>1. /\ b.spans[j].start \in Nat /\ b.spans[j].end \in Nat
            /\ j > 1 => b.spans[j - 1].start \in Nat /\ b.spans[j - 1].end \in Nat
        BY <1>9, <1>10, <3>1
      <4>0. /\ 1 <= b.spans[j].start /\ b.spans[j].start <= b.spans[j].end
            /\ b.spans[j].end <= n
            /\ \A i \in b.spans[j].start .. b.spans[j].end :
                  b.stamps[i].session = b.spans[j].session
            /\ j > 1 => /\ b.spans[j].start = b.spans[j - 1].end + 1
                        /\ b.spans[j].session # b.spans[j - 1].session
        BY <1>4, <3>1
      <4>2. c.spans[j] = b.spans[j] /\ (j > 1 => c.spans[j - 1] = b.spans[j - 1])
        BY <1>1, <2>3, <3>1
      <4>3. \A i \in b.spans[j].start .. b.spans[j].end : i \in 1..n
        BY <1>1, <4>0, <4>1
      <4>4. \A i \in c.spans[j].start .. c.spans[j].end :
               c.stamps[i].session = c.spans[j].session
        BY <1>2, <4>0, <4>2, <4>3
      <4>5. b.spans[j].end <= n + 1
        BY <1>1, <4>0, <4>1
      <4>6. QED
        BY <4>0, <4>2, <4>4, <4>5
    <3>2. CASE j = k + 1
      <4>1. c.spans[j] = new /\ (k # 0 => c.spans[j - 1] = b.spans[k])
        BY <1>1, <2>3, <3>2
      <4>2. k # 0 => b.spans[k].end = n /\ b.spans[k].session # x.session
        BY <1>4, <1>7
      <4>3. \A i \in new.start .. new.end : c.stamps[i].session = new.session
        BY <1>1, <1>2, <2>2
      <4>4. 1 <= new.start /\ new.start <= new.end /\ new.end <= n + 1
        BY <1>1, <2>2
      <4>5. j > 1 => k # 0
        BY <1>1, <3>2
      <4>6. j > 1 => /\ c.spans[j].start = c.spans[j - 1].end + 1
                    /\ c.spans[j].session # c.spans[j - 1].session
        BY <2>2, <4>1, <4>2, <4>5
      <4>7. /\ 1 <= c.spans[j].start /\ c.spans[j].start <= c.spans[j].end
            /\ c.spans[j].end <= n + 1
        BY <4>1, <4>4
      <4>8. \A i \in c.spans[j].start .. c.spans[j].end :
               c.stamps[i].session = c.spans[j].session
        BY <4>1, <4>3
      <4>9. QED
        BY <4>6, <4>7, <4>8
    <3>3. j \in 1..k \/ j = k + 1
      BY <1>1
    <3>4. QED
      BY <3>1, <3>2, <3>3
  <2>6. c.spans[1].start = 1 /\ c.spans[k + 1].end = n + 1
    <3>1. CASE k = 0
      BY <1>4, <2>2, <2>3, <3>1
    <3>2. CASE k # 0
      BY <1>1, <1>4, <2>2, <2>3, <3>2
    <3>3. QED
      BY <3>1, <3>2
  <2>7. SpansDivide(c)
    BY <1>2, <2>3, <2>4, <2>5, <2>6 DEF SpansDivide
  <2>8. QED
    BY <1>2, <2>3, <2>7
<1>8. QED
  BY <1>6, <1>7
\* What changes only the fields of sources that are not drawn, or marks the source.
LEMMA SourcesEvolve ==
  ASSUME NEW m, Sound(m), NEW n \in Models, n.vars = m.vars, n.mode = m.mode,
         n.transforms = m.transforms, n.history = m.history, n.offsets = m.offsets,
         n.calibrated = m.calibrated, m.bumped \subseteq n.bumped, n.valued = m.valued,
         \A s \in Sources : /\ n.sources[s].stamps = m.sources[s].stamps
                            /\ n.sources[s].spans = m.sources[s].spans
                            /\ s \notin n.bumped => n.sources[s].offset = m.sources[s].offset
  PROVE  Sound(n) /\ Tracks(m, n) /\ Known(n) = Known(m)
<1>1. \A s \in Sources : SpansDivide(n.sources[s])
  BY SameSpans DEF Sound
<1>2. \A s \in Sources : s \notin n.bumped =>
        \A label \in Labels : Aligned(n, s, label) = Aligned(m, s, label)
  <2>1. \A s \in Sources : s \notin n.bumped => ClockOf(n, s) = ClockOf(m, s)
    BY DEF ClockOf
  <2>2. QED
    BY <2>1 DEF Aligned
<1>3. QED
  BY <1>1, <1>2 DEF Sound, HistoryHolds, Tracks, Known

\* The clock that a source of the device, of the force sensor or of the motion
\* capture follows.
ClockFor(s) == IF s \in Ports THEN NfClock ELSE s

\* While samples are recorded: every source that has stamps follows its clock, whose
\* sessions have an offset or a transform.
Live(m) == \A s \in Sources :
    /\ \/ m.sources[s].offset = ClockFor(s)
       \/ m.sources[s].offset = None /\ m.sources[s].stamps = <<>>
    /\ \A i \in DOMAIN m.sources[s].stamps :
          <<ClockFor(s), m.sources[s].stamps[i].session>> \in Known(m)

LEMMA KeepsLive ==
  ASSUME NEW m, NEW n, Live(m), Keeps(m, n)
  PROVE  Live(n)
BY DEF Live, Keeps

LEMMA TimestampAdded ==
  ASSUME NEW m, Sound(m), NEW s \in Sources, NEW ts \in Instant, NEW label \in Labels
  PROVE  LET n == AddTimestamp(m, s, ts, label) IN
         /\ Sound(n) /\ Tracks(m, n) /\ Stamped(m, n, s, [ts |-> ts, session |-> label])
         /\ Live(m) /\ m.sources[s].offset = ClockFor(s)
            /\ <<ClockFor(s), label>> \in Known(m) => Live(n)
<1> DEFINE n == AddTimestamp(m, s, ts, label)
           b == m.sources[s]
           x == [ts |-> ts, session |-> label]
           c == [b EXCEPT !.stamps = Append(b.stamps, x),
                          !.spans = Extended(b.spans, Len(b.stamps) + 1, label)]
           p == [m EXCEPT !.sources = [m.sources EXCEPT ![s] = c], !.bumped = @ \cup {s}]
<1>1. m \in Models /\ m.sources \in [Sources -> Buckets] /\ b \in Buckets
  BY ModelFacts DEF Sound
<1>2. x \in Stamps /\ x.session = label
  BY DEF Stamps
<1> HIDE DEF x
<1>3. /\ b.stamps \in Seq(Stamps) /\ b.spans \in Seq(Spans) /\ SpansDivide(b)
  BY <1>1 DEF Buckets, Sound
<1>4. /\ c.stamps = Append(b.stamps, x) /\ c.spans = Extended(b.spans, Len(b.stamps) + 1, label)
      /\ c.offset = b.offset
  BY <1>1 DEF Buckets
<1>5. c.stamps \in Seq(Stamps) /\ c.spans \in Seq(Spans) /\ SpansDivide(c)
  <2> HIDE DEF c, b
  <2>1. QED
    BY <1>2, <1>3, <1>4, ExtendedDivides
<1>6. c \in Buckets
  BY <1>1, <1>4, <1>5 DEF Buckets
<1>7. n = p
  BY <1>1 DEF AddTimestamp, Models, Buckets, x
<1> HIDE DEF n, c
<1>8. /\ p \in Models /\ p.sources = [m.sources EXCEPT ![s] = c] /\ p.bumped = m.bumped \cup {s}
      /\ p.vars = m.vars /\ p.mode = m.mode /\ p.transforms = m.transforms
      /\ p.history = m.history /\ p.offsets = m.offsets /\ p.calibrated = m.calibrated
      /\ p.valued = m.valued
  BY <1>1, <1>6 DEF Models
<1> HIDE DEF p
<1>9. p.sources[s] = c /\ \A r \in Sources : r # s => p.sources[r] = m.sources[r]
  BY <1>1, <1>8
<1>10. Sound(p)
  <2>1. \A r \in Sources : SpansDivide(p.sources[r])
    BY <1>5, <1>9 DEF Sound
  <2>2. QED
    BY <1>8, <2>1 DEF Sound, HistoryHolds
<1>11. Tracks(m, p)
  <2>1. \A r \in Sources : r \notin p.bumped => ClockOf(p, r) = ClockOf(m, r)
    BY <1>8, <1>9 DEF ClockOf
  <2>2. \A r \in Sources : r \notin p.bumped =>
          \A l \in Labels : Aligned(p, r, l) = Aligned(m, r, l)
    BY <1>8, <2>1 DEF Aligned
  <2>3. QED
    BY <1>8, <1>9, <2>2 DEF Tracks
<1>12. ASSUME Live(m), b.offset = ClockFor(s), <<ClockFor(s), label>> \in Known(m)
       PROVE  Live(p)
  <2>1. Known(p) = Known(m)
    BY <1>8 DEF Known
  <2>2. SUFFICES ASSUME NEW r \in Sources
                 PROVE  /\ \/ p.sources[r].offset = ClockFor(r)
                           \/ p.sources[r].offset = None /\ p.sources[r].stamps = <<>>
                        /\ \A i \in DOMAIN p.sources[r].stamps :
                             <<ClockFor(r), p.sources[r].stamps[i].session>> \in Known(p)
    BY DEF Live
  <2>3. CASE r # s
    <3>1. p.sources[r] = m.sources[r]
      BY <1>9, <2>3
    <3>2. QED
      BY <1>12, <2>1, <3>1 DEF Live
  <2>4. CASE r = s
    <3>1. p.sources[r] = c
      BY <1>9, <2>4
    <3>2. c.offset = ClockFor(r)
      BY <1>4, <1>12, <2>4
    <3>3. ASSUME NEW i \in DOMAIN c.stamps
          PROVE  <<ClockFor(s), c.stamps[i].session>> \in Known(m)
      <4>1. /\ Len(c.stamps) = Len(b.stamps) + 1 /\ c.stamps[Len(b.stamps) + 1] = x
            /\ \A j \in 1..Len(b.stamps) : c.stamps[j] = b.stamps[j]
            /\ DOMAIN c.stamps = 1..Len(c.stamps) /\ DOMAIN b.stamps = 1..Len(b.stamps)
            /\ Len(b.stamps) \in Nat
        <5>1. b.stamps \in Seq(Stamps) /\ x \in Stamps /\ c.stamps = Append(b.stamps, x)
          BY <1>2, <1>3, <1>4
        <5> DEFINE old == b.stamps
                   new == c.stamps
        <5>2. old \in Seq(Stamps) /\ new \in Seq(Stamps) /\ new = Append(old, x)
          BY <1>5, <5>1
        <5> HIDE DEF old, new
        <5>3. /\ Len(new) = Len(old) + 1 /\ new[Len(old) + 1] = x
              /\ \A j \in 1..Len(old) : new[j] = old[j]
          BY <5>1, <5>2, AppendProperties
        <5>4. DOMAIN new = 1..Len(new) /\ DOMAIN old = 1..Len(old) /\ Len(old) \in Nat
          BY <5>2, LenProperties
        <5>5. QED
          BY <5>3, <5>4 DEF old, new
      <4>2. CASE i \in 1..Len(b.stamps)
        <5>1. c.stamps[i] = m.sources[s].stamps[i] /\ i \in DOMAIN m.sources[s].stamps
          BY <4>1, <4>2
        <5>2. QED
          BY <1>12, <5>1 DEF Live
      <4>3. CASE i = Len(b.stamps) + 1
        BY <1>2, <1>12, <4>1, <4>3
      <4>4. i \in 1..Len(b.stamps) \/ i = Len(b.stamps) + 1
        BY <4>1
      <4>5. QED
        BY <4>2, <4>3, <4>4
    <3>4. QED
      BY <2>1, <2>4, <3>1, <3>2, <3>3
  <2>5. QED
    BY <2>3, <2>4
<1>13. Stamped(m, p, s, x)
  BY <1>4, <1>8, <1>9 DEF Stamped, b
<1>14. QED
  BY <1>7, <1>10, <1>11, <1>12, <1>13 DEF n, x
\* The first step of update_source_timestamp: the source follows the clock.
Following(m, s, clock) ==
    IF m.sources[s].offset = clock THEN m
    ELSE [m EXCEPT !.sources[s].offset = clock, !.bumped = @ \cup {s}]

LEMMA ClockIsSet ==
  ASSUME NEW m, Sound(m), NEW s \in Sources, NEW clock \in Sources
  PROVE  LET n == Following(m, s, clock) IN
         /\ Sound(n) /\ Tracks(m, n) /\ n.sources[s].offset = clock
         /\ n.vars = m.vars
         /\ \A r \in Sources : /\ n.sources[r].session = m.sources[r].session
                              /\ n.sources[r].stamps = m.sources[r].stamps
         /\ Live(m) /\ clock = ClockFor(s) => Live(n)
<1> DEFINE n == Following(m, s, clock)
           b == [m.sources[s] EXCEPT !.offset = clock]
           p == [m EXCEPT !.sources = [m.sources EXCEPT ![s] = b], !.bumped = @ \cup {s}]
<1>1. m \in Models /\ m.sources \in [Sources -> Buckets] /\ m.sources[s] \in Buckets
  BY ModelFacts DEF Sound
<1>2. CASE m.sources[s].offset = clock
  <2>1. n = m
    BY <1>2 DEF Following
  <2>2. QED
    BY <1>2, <2>1, EvolvesIsReflexive DEF Evolves
<1>3. CASE m.sources[s].offset # clock
  <2>1. n = p
    BY <1>1, <1>3 DEF Models, Buckets, Following
  <2>2. /\ b \in Buckets /\ b.stamps = m.sources[s].stamps /\ b.spans = m.sources[s].spans
        /\ b.offset = clock /\ b.session = m.sources[s].session
    BY <1>1 DEF Buckets
  <2> HIDE DEF b
  <2>3. /\ p \in Models /\ p.sources = [m.sources EXCEPT ![s] = b]
        /\ p.bumped = m.bumped \cup {s}
        /\ p.vars = m.vars /\ p.mode = m.mode /\ p.transforms = m.transforms
        /\ p.history = m.history /\ p.offsets = m.offsets /\ p.calibrated = m.calibrated
        /\ p.valued = m.valued
    BY <1>1, <2>2 DEF Models
  <2> HIDE DEF p
  <2>4. /\ p.sources[s] = b /\ \A r \in Sources : r # s => p.sources[r] = m.sources[r]
    BY <1>1, <2>3
  <2>5. \A r \in Sources : /\ p.sources[r].stamps = m.sources[r].stamps
                           /\ p.sources[r].spans = m.sources[r].spans
                           /\ p.sources[r].session = m.sources[r].session
                           /\ r \notin p.bumped => p.sources[r].offset = m.sources[r].offset
    BY <2>2, <2>3, <2>4
  <2>6. Sound(p) /\ Tracks(m, p) /\ Known(p) = Known(m)
    BY <2>3, <2>5, SourcesEvolve
  <2>7. Live(m) /\ clock = ClockFor(s) => Live(p)
    BY <2>2, <2>4, <2>5, <2>6 DEF Live
  <2>8. QED
    BY <2>1, <2>2, <2>3, <2>4, <2>5, <2>6, <2>7
<1>4. QED
  BY <1>2, <1>3

\* A source has another session or last time.
LEMMA BucketIsSet ==
  ASSUME NEW m, Sound(m), NEW s \in Sources, NEW b \in Buckets,
         b.stamps = m.sources[s].stamps, b.spans = m.sources[s].spans,
         b.offset = m.sources[s].offset
  PROVE  Evolves(m, [m EXCEPT !.sources = [m.sources EXCEPT ![s] = b]])
<1> DEFINE n == [m EXCEPT !.sources = [m.sources EXCEPT ![s] = b]]
<1>1. m \in Models /\ m.sources \in [Sources -> Buckets]
  BY ModelFacts DEF Sound
<1>2. /\ n \in Models /\ n.sources = [m.sources EXCEPT ![s] = b]
      /\ n.bumped = m.bumped
      /\ n.vars = m.vars /\ n.mode = m.mode /\ n.transforms = m.transforms
      /\ n.history = m.history /\ n.offsets = m.offsets /\ n.calibrated = m.calibrated
      /\ n.valued = m.valued
  BY <1>1 DEF Models
<1> HIDE DEF n
<1>3. \A r \in Sources : /\ n.sources[r].stamps = m.sources[r].stamps
                         /\ n.sources[r].spans = m.sources[r].spans
                         /\ n.sources[r].offset = m.sources[r].offset
  BY <1>1, <1>2
<1>4. Sound(n) /\ Tracks(m, n) /\ Known(n) = Known(m)
  BY <1>2, <1>3, SourcesEvolve
<1>5. QED
  BY <1>3, <1>4 DEF Evolves, Keeps, n

\* The second: the session and the last time of the clock, and of the source.
LEMMA SessionIsSet ==
  ASSUME NEW m, Sound(m), NEW s \in Sources, NEW label \in Labels, NEW last \in Instant
  PROVE  Evolves(m, [m EXCEPT !.sources[s].session = label, !.sources[s].last = last])
<1> DEFINE b == [m.sources[s] EXCEPT !.session = label, !.last = last]
<1>1. m \in Models /\ m.sources \in [Sources -> Buckets] /\ m.sources[s] \in Buckets
  BY ModelFacts DEF Sound
<1>2. [m EXCEPT !.sources[s].session = label, !.sources[s].last = last]
        = [m EXCEPT !.sources = [m.sources EXCEPT ![s] = b]]
  BY <1>1 DEF Models, Buckets
<1>3. /\ b \in Buckets /\ b.stamps = m.sources[s].stamps
      /\ b.spans = m.sources[s].spans /\ b.offset = m.sources[s].offset
  BY <1>1 DEF Buckets
<1> HIDE DEF b
<1>4. QED
  BY <1>2, <1>3, BucketIsSet

LEMMA LastIsSet ==
  ASSUME NEW m, Sound(m), NEW s \in Sources, NEW last \in Instant
  PROVE  Evolves(m, [m EXCEPT !.sources[s].last = last])
<1> DEFINE b == [m.sources[s] EXCEPT !.last = last]
<1>1. m \in Models /\ m.sources \in [Sources -> Buckets] /\ m.sources[s] \in Buckets
  BY ModelFacts DEF Sound
<1>2. [m EXCEPT !.sources[s].last = last] = [m EXCEPT !.sources = [m.sources EXCEPT ![s] = b]]
  BY <1>1 DEF Models, Buckets
<1>3. /\ b \in Buckets /\ b.stamps = m.sources[s].stamps
      /\ b.spans = m.sources[s].spans /\ b.offset = m.sources[s].offset
  BY <1>1 DEF Buckets
<1> HIDE DEF b
<1>4. QED
  BY <1>2, <1>3, BucketIsSet

LEMMA TimestampUpdated ==
  ASSUME NEW m, Sound(m), NEW s \in Sources, NEW clock \in Sources,
         NEW arrival \in Int, NEW ts \in Instant, NEW clockTs \in Instant,
         m.sources[clock].session \in 1..MaxSession
  PROVE  LET n == UpdateSourceTimestamp(m, s, arrival, ts, clock, clockTs) IN
         /\ Sound(n) /\ Tracks(m, n)
         /\ \E label \in Labels : Stamped(m, n, s, [ts |-> ts, session |-> label])
         /\ Live(m) /\ clock = ClockFor(s) => Live(n)
<1> DEFINE m1 == IF m.sources[s].offset = clock THEN m
                 ELSE [m EXCEPT !.sources[s].offset = clock, !.bumped = @ \cup {s}]
           label == m1.sources[clock].session
                    + (IF RolledBack(m1, clock, clockTs) THEN 1 ELSE 0)
           m2 == [m1 EXCEPT !.sources[clock].session = label, !.sources[clock].last = clockTs]
           m3 == IF s = clock THEN m2 ELSE [m2 EXCEPT !.sources[s].last = ts]
           t == m3.transforms[clock]
           m4 == IF t # None /\ t.epoch = label THEN m3
                 ELSE LowerOffset(m3, clock, label, arrival - clockTs)
           n == AddTimestamp(m4, s, ts, label)
<1>1. /\ Sound(m1) /\ Tracks(m, m1) /\ m1.sources[s].offset = clock
      /\ m1.sources[clock].session = m.sources[clock].session
      /\ m1.vars = m.vars
      /\ \A r \in Sources : m1.sources[r].stamps = m.sources[r].stamps
      /\ Live(m) /\ clock = ClockFor(s) => Live(m1)
  <2> DEFINE k == Following(m, s, clock)
  <2>1. m1 = k
    BY DEF Following
  <2>2. /\ Sound(k) /\ Tracks(m, k) /\ k.sources[s].offset = clock
        /\ k.vars = m.vars
        /\ \A r \in Sources : /\ k.sources[r].session = m.sources[r].session
                             /\ k.sources[r].stamps = m.sources[r].stamps
        /\ Live(m) /\ clock = ClockFor(s) => Live(k)
    BY ClockIsSet, Zenon
  <2> HIDE DEF m1, k
  <2>3. QED
    BY <2>1, <2>2
<1> HIDE DEF m1
<1>2. label \in Labels
  <2>1. label \in {m.sources[clock].session, m.sources[clock].session + 1}
    <3>1. m.sources[clock].session \in Nat
      OBVIOUS
    <3>2. QED
      BY <1>1, <3>1
  <2>2. QED
    BY <2>1, ConstantFacts
<1> HIDE DEF label
<1>3. Evolves(m1, m2)
  BY <1>1, <1>2, SessionIsSet
<1> HIDE DEF m2
<1>4. Evolves(m2, m3)
  <2>1. CASE s = clock
    BY <1>3, <2>1, EvolvesIsReflexive DEF Evolves
  <2>2. CASE s # clock
    <3>1. m3 = [m2 EXCEPT !.sources[s].last = ts]
      BY <2>2
    <3> HIDE DEF m3
    <3>2. QED
      BY <1>3, <3>1, LastIsSet DEF Evolves
  <2>3. QED
    BY <2>1, <2>2
<1> HIDE DEF m3
<1>5. Evolves(m3, m4) /\ <<clock, label>> \in Known(m4)
  <2>1. CASE t # None /\ t.epoch = label
    <3>1. <<clock, label>> \in DOMAIN m3.history
      BY <1>4, <2>1 DEF Evolves, Sound, HistoryHolds
    <3>2. QED
      BY <1>4, <2>1, <3>1, EvolvesIsReflexive DEF Evolves, Known
  <2>2. CASE ~(t # None /\ t.epoch = label)
    <3>1. m4 = LowerOffset(m3, clock, label, arrival - clockTs)
      BY <2>2
    <3>2. arrival - clockTs \in Int
      BY ConstantFacts
    <3> HIDE DEF m4
    <3>3. QED
      BY <1>2, <1>4, <3>1, <3>2, LowerOffsetEvolves DEF Evolves, Known
  <2>3. QED
    BY <2>1, <2>2
<1> HIDE DEF m4
<1>6. Evolves(m1, m4)
  BY <1>3, <1>4, <1>5, EvolvesIsTransitive
<1>7. Sound(m4) /\ Tracks(m, m4) /\ m4.sources[s].offset = clock
  BY <1>1, <1>6, TracksIsTransitive DEF Evolves, Keeps
<1> DEFINE x == [ts |-> ts, session |-> label]
<1>8. Sound(n) /\ Tracks(m4, n) /\ Stamped(m4, n, s, x)
  BY <1>2, <1>7, TimestampAdded
<1>9. ASSUME Live(m), clock = ClockFor(s) PROVE Live(n)
  <2>1. Live(m4)
    BY <1>1, <1>6, <1>9, KeepsLive DEF Evolves
  <2>2. QED
    BY <1>2, <1>5, <1>7, <1>9, <2>1, TimestampAdded
<1>10. UpdateSourceTimestamp(m, s, arrival, ts, clock, clockTs) = n
  BY DEF UpdateSourceTimestamp, m1, m2, m3, m4, label
<1> HIDE DEF n
<1>11. Tracks(m, n)
  BY <1>7, <1>8, TracksIsTransitive
<1>12. Stamped(m, n, s, x)
  <2> HIDE DEF x
  <2>1. QED
    BY <1>1, <1>6, <1>8 DEF Stamped, Evolves, Keeps
<1>13. \E l \in Labels : Stamped(m, n, s, [ts |-> ts, session |-> l])
  BY <1>2, <1>12
<1>14. QED
  BY <1>8, <1>9, <1>10, <1>11, <1>13

LEMMA ValuesAdded ==
  ASSUME NEW m, Sound(m), NEW s \in Sources, NEW data,
         DOMAIN data \subseteq Vars, \A v \in DOMAIN data : data[v] \in Instant
  PROVE  LET n == AddValues(m, s, data) IN
         /\ Sound(n) /\ Tracks(m, n) /\ (Live(m) => Live(n))
         /\ \A x, p : Stamped(p, m, s, x) => Sampled(p, n, s, x, data)
<1> DEFINE n == AddValues(m, s, data)
           new == [v \in Vars |-> IF v \notin DOMAIN data THEN m.vars[v]
                     ELSE [src |-> s, values |-> Append(m.vars[v].values, data[v])]]
           p == [m EXCEPT !.vars = new, !.valued = @ \cup DOMAIN data]
<1>1. m \in Models /\ m.vars \in [Vars -> Bindings] /\ m.valued \subseteq Vars
  BY ModelFacts DEF Sound
<1>2. CASE \E v \in DOMAIN data : m.vars[v].src \notin {None, s}
  <2>1. n = m
    BY <1>2 DEF AddValues
  <2>2. QED
    BY <1>2, <2>1, EvolvesIsReflexive DEF Evolves, Stamped, Sampled
<1>3. CASE ~ \E v \in DOMAIN data : m.vars[v].src \notin {None, s}
  <2>1. n = p
    BY <1>3 DEF AddValues
  <2>2. new \in [Vars -> Bindings]
    <3>1. ASSUME NEW v \in Vars, v \in DOMAIN data
          PROVE  [src |-> s, values |-> Append(m.vars[v].values, data[v])] \in Bindings
      <4>1. m.vars[v].values \in Seq(Instant) /\ data[v] \in Instant
        BY <1>1, <3>1 DEF Bindings
      <4>2. Append(m.vars[v].values, data[v]) \in Seq(Instant)
        BY <4>1, AppendProperties
      <4>3. QED
        BY <4>2 DEF Bindings
    <3>2. QED
      BY <1>1, <3>1
  <2>3. \A v \in Vars : v \notin DOMAIN data => new[v] = m.vars[v]
    OBVIOUS
  <2>4. new = [v \in Vars |-> IF v \notin DOMAIN data THEN m.vars[v]
                 ELSE [src |-> s, values |-> Append(m.vars[v].values, data[v])]]
    OBVIOUS
  <2> HIDE DEF new
  <2>5. /\ p \in Models /\ p.vars = new /\ p.valued = m.valued \cup DOMAIN data
        /\ p.sources = m.sources /\ p.mode = m.mode /\ p.transforms = m.transforms
        /\ p.history = m.history /\ p.offsets = m.offsets /\ p.calibrated = m.calibrated
        /\ p.bumped = m.bumped
    BY <1>1, <2>2 DEF Models
  <2> HIDE DEF p
  <2>6. Sound(p)
    BY <2>5 DEF Sound, HistoryHolds
  <2>7. \A r \in Sources, l \in Labels : Aligned(p, r, l) = Aligned(m, r, l)
    BY <2>5 DEF Aligned, ClockOf
  <2>8. Tracks(m, p)
    BY <2>3, <2>5, <2>7 DEF Tracks
  <2>9. Live(m) => Live(p)
    BY <2>5 DEF Live, Known
  <2>10. ASSUME NEW x, NEW q, Stamped(q, m, s, x) PROVE Sampled(q, p, s, x, data)
    BY <2>5, <2>4, <2>10 DEF Stamped, Sampled
  <2>11. QED
    BY <2>1, <2>6, <2>8, <2>9, <2>10
<1>4. QED
  BY <1>2, <1>3

LEMMA DataAdded ==
  ASSUME NEW m, Sound(m), NEW s \in Sources, NEW clock \in Sources,
         NEW arrival \in Int, NEW ts \in Instant, NEW clockTs \in Instant,
         m.sources[clock].session \in 1..MaxSession, NEW data,
         DOMAIN data \subseteq Vars, \A v \in DOMAIN data : data[v] \in Instant
  PROVE  LET n == AddData(m, s, arrival, ts, clock, clockTs, data) IN
         /\ Sound(n) /\ Tracks(m, n)
         /\ \E label \in Labels : Sampled(m, n, s, [ts |-> ts, session |-> label], data)
         /\ Live(m) /\ clock = ClockFor(s) => Live(n)
<1> DEFINE p == UpdateSourceTimestamp(m, s, arrival, ts, clock, clockTs)
           n == AddValues(p, s, data)
           X(label) == [ts |-> ts, session |-> label]
<1>1. /\ Sound(p) /\ Tracks(m, p) /\ (Live(m) /\ clock = ClockFor(s) => Live(p))
      /\ \E label \in Labels : Stamped(m, p, s, X(label))
  BY TimestampUpdated
<1> HIDE DEF p, X
<1>2. /\ Sound(n) /\ Tracks(p, n) /\ (Live(p) => Live(n))
      /\ \A x, q : Stamped(q, p, s, x) => Sampled(q, n, s, x, data)
  BY <1>1, ValuesAdded
<1> HIDE DEF n
<1>3. Sound(n) /\ Tracks(m, n) /\ (Live(m) /\ clock = ClockFor(s) => Live(n))
  BY <1>1, <1>2, TracksIsTransitive
<1>4. \E label \in Labels : Sampled(m, n, s, X(label), data)
  BY <1>1, <1>2
<1>5. QED
  BY <1>3, <1>4 DEF AddData, n, p, X

\* clear: nothing is left, and everything is marked.
LEMMA ClearIsSound ==
  ASSUME NEW m \in Models
  PROVE  Sound(Clear(m)) /\ Tracks(m, Clear(m)) /\ Live(Clear(m)) /\ Clear(m).valued = Vars
<1> DEFINE n == Clear(m)
<1>1. Nothing \in Dicts(Int) /\ Nothing \in Dicts(Transforms)
  BY NothingIsDict
<1>2. NoBucket \in Buckets /\ Unbound \in Bindings
  <2>1. <<>> \in Seq(Stamps) /\ <<>> \in Seq(Spans) /\ <<>> \in Seq(Instant)
    BY EmptySeq
  <2>2. QED
    BY <2>1, ConstantFacts DEF NoBucket, Unbound, Buckets, Bindings
<1>3. /\ n \in Models /\ n.sources = [s \in Sources |-> NoBucket]
      /\ n.transforms = [s \in Sources |-> None] /\ n.bumped = Sources /\ n.valued = Vars
  BY <1>1, <1>2 DEF Clear, EmptyModel, Models
<1> HIDE DEF n
<1>4. SpansDivide(NoBucket)
  BY DEF NoBucket, SpansDivide
<1>5. Sound(n)
  BY <1>3, <1>4 DEF Sound, HistoryHolds
<1>6. Tracks(m, n)
  BY <1>3, ModelFacts DEF Tracks
<1>7. Live(n)
  BY <1>3 DEF Live, NoBucket
<1>8. QED
  BY <1>3, <1>5, <1>6, <1>7 DEF n

LEMMA EmptyIsSound == Sound(EmptyModel) /\ Live(EmptyModel)
<1> DEFINE n == EmptyModel
<1>1. Nothing \in Dicts(Int) /\ Nothing \in Dicts(Transforms)
  BY NothingIsDict
<1>2. NoBucket \in Buckets /\ Unbound \in Bindings
  <2>1. <<>> \in Seq(Stamps) /\ <<>> \in Seq(Spans) /\ <<>> \in Seq(Instant)
    BY EmptySeq
  <2>2. QED
    BY <2>1, ConstantFacts DEF NoBucket, Unbound, Buckets, Bindings
<1>3. /\ n \in Models /\ n.sources = [s \in Sources |-> NoBucket]
      /\ n.transforms = [s \in Sources |-> None]
  BY <1>1, <1>2 DEF EmptyModel, Models
<1> HIDE DEF n
<1>4. SpansDivide(NoBucket)
  BY DEF NoBucket, SpansDivide
<1>5. Sound(n) /\ Live(n)
  BY <1>3, <1>4 DEF Sound, HistoryHolds, Live, NoBucket
<1>6. QED
  BY <1>5 DEF n
-----------------------------------------------------------------------------
(* Imported series.                                                        *)

RawSamples == [ts : Instant, session : Labels, value : Instant]

SpansOf(samples) ==
    FoldLeftDomain(LAMBDA spans, i : Extended(spans, i, samples[i].session), <<>>, samples)

StampsOf(samples, n) ==
    [i \in 1..n |-> [ts |-> samples[i].ts, session |-> samples[i].session]]

LEMMA ExtendedIsSpans ==
  ASSUME NEW spans \in Seq(Spans), NEW n \in Nat, NEW label \in Labels
  PROVE  Extended(spans, n, label) \in Seq(Spans)
<1> DEFINE k == Len(spans)
           new == [session |-> label, start |-> n, end |-> n]
<1>1. new \in Spans
  BY DEF Spans
<1>2. CASE spans # <<>> /\ spans[k].session = label
  <2> DEFINE u == [spans[k] EXCEPT !.end = n]
  <2>1. k \in 1..Len(spans)
    BY <1>2, EmptySeq, LenProperties
  <2>2. u \in Spans
    BY <2>1, ElementOfSeq, SpanEnds
  <2>3. Extended(spans, n, label) = [spans EXCEPT ![k] = u]
    BY <1>2, <2>1, LenProperties DEF Extended, Last
  <2> HIDE DEF u, k
  <2>4. QED
    BY <2>1, <2>2, <2>3, ExceptSeq
<1>3. CASE ~(spans # <<>> /\ spans[k].session = label)
  <2>1. Extended(spans, n, label) = Append(spans, new)
    BY <1>3 DEF Extended, Last
  <2> HIDE DEF new
  <2>2. QED
    BY <1>1, <2>1, AppendProperties
<1>4. QED
  BY <1>2, <1>3

LEMMA StampsAreStamps ==
  ASSUME NEW samples \in Seq(RawSamples), NEW n \in 0..Len(samples)
  PROVE  /\ StampsOf(samples, n) \in Seq(Stamps) /\ Len(StampsOf(samples, n)) = n
         /\ \A i \in 1..n : /\ StampsOf(samples, n)[i] \in Stamps
                            /\ StampsOf(samples, n)[i].ts = samples[i].ts
                            /\ StampsOf(samples, n)[i].session = samples[i].session
<1>1. Len(samples) \in Nat /\ n \in Nat
  BY LenProperties
<1>2. \A i \in 1..n : samples[i] \in RawSamples
  BY <1>1, ElementOfSeq
<1>3. \A i \in 1..n : [ts |-> samples[i].ts, session |-> samples[i].session] \in Stamps
  BY <1>2 DEF RawSamples, Stamps
<1>4. StampsOf(samples, n) \in [1..n -> Stamps]
  BY <1>3 DEF StampsOf
<1>5. StampsOf(samples, n) \in Seq(Stamps)
  BY <1>1, <1>4
<1>6. Len(StampsOf(samples, n)) = n
  BY <1>1, <1>4, <1>5, LenProperties
<1>7. QED
  BY <1>3, <1>5, <1>6 DEF StampsOf
\* The spans of an imported series divide its stamps too.
LEMMA SpansOfDivide ==
  ASSUME NEW samples \in Seq(RawSamples),
         NEW b, b.stamps = StampsOf(samples, Len(samples)), b.spans = SpansOf(samples)
  PROVE  b.stamps \in Seq(Stamps) /\ b.spans \in Seq(Spans) /\ SpansDivide(b)
<1> DEFINE n == Len(samples)
           D == 1..n
           pick == [s \in SUBSET D |-> Max(s)]
           Y == Seq(Spans)
           Made(f, s) == IF s = {} THEN <<>>
                         ELSE Extended(f[s \ {Max(s)}], Max(s), samples[Max(s)].session)
           Eqn(f) == f = [s \in SUBSET D |-> Made(f, s)]
<1>1. DOMAIN samples = D /\ n \in Nat /\ IsFiniteSet(D)
  BY LenProperties, FS_Interval
<1>2. \A i \in D : samples[i] \in RawSamples /\ samples[i].session \in Labels
  <2>1. \A i \in D : samples[i] \in RawSamples
    BY <1>1, ElementOfSeq
  <2>2. QED
    BY <2>1 DEF RawSamples
<1>3. \A s \in SUBSET D : s # {} => Max(s) \in s /\ \A k \in s : Max(s) >= k
  <2> SUFFICES ASSUME NEW s \in SUBSET D, s # {}
               PROVE  Max(s) \in s /\ \A k \in s : Max(s) >= k
    OBVIOUS
  <2>1. IsFiniteSet(s)
    BY <1>1, FS_Subset
  <2>2. \E k \in s : \A l \in s : k >= l
    BY <1>1, <2>1, GreatestExists
  <2>3. QED
    BY <2>2 DEF Max
<1>4. SpansOf(samples) = (CHOOSE f : Eqn(f))[D]
  <2> DEFINE places == [i \in DOMAIN samples |-> i]
             MadeOf(f, s) == IF s = {} THEN <<>>
                ELSE Extended(f[s \ {Max(s)}], places[Max(s)], samples[places[Max(s)]].session)
             EqnOf(f) == f = [s \in SUBSET DOMAIN places |-> MadeOf(f, s)]
  <2>1. SpansOf(samples) = (CHOOSE f : EqnOf(f))[DOMAIN places]
    BY DEF SpansOf, FoldLeftDomain, FoldLeft, MapThenFoldSet
  <2>2. DOMAIN places = D
    BY <1>1
  <2>3. \A s \in SUBSET D : s # {} => places[Max(s)] = Max(s)
    BY <1>1, <1>3
  <2> HIDE DEF D, places
  <2>4. ASSUME NEW f PROVE EqnOf(f) <=> Eqn(f)
    BY <2>2, <2>3
  <2> HIDE DEF EqnOf, Eqn
  <2>5. (CHOOSE f : EqnOf(f)) = (CHOOSE f : Eqn(f))
    BY <2>4
  <2>6. QED
    BY <2>1, <2>2, <2>5
<1>5. <<>> \in Y
  BY EmptySeq
<1>6. \E f : Eqn(f)
  <2> DEFINE op == [p \in D \X Y |-> Extended(p[2], p[1], samples[p[1]].session)]
  <2>1. op \in [D \X Y -> Y]
    <3>1. \A p \in D \X Y : Extended(p[2], p[1], samples[p[1]].session) \in Y
      BY <1>1, <1>2, ExtendedIsSpans
    <3>2. QED
      BY <3>1
  <2>2. Picks(pick, D)
    BY <1>3 DEF Picks
  <2> HIDE DEF D, pick, op, Y
  <2>3. PICK f \in [SUBSET D -> Y] : IsFold(f, op, <<>>, pick, D)
    BY <1>1, <1>5, <2>1, <2>2, FoldExists
  <2>4. \A s \in SUBSET D : f[s] = Made(f, s)
    <3> USE DEF IsFold
    <3> SUFFICES ASSUME NEW s \in SUBSET D, s # {} PROVE f[s] = Made(f, s)
      BY <2>3
    <3>1. pick[s] = Max(s) /\ Max(s) \in D
      BY <1>3 DEF pick
    <3>2. f[s \ {Max(s)}] \in Y
      BY <2>3
    <3>3. op[<<Max(s), f[s \ {Max(s)}]>>]
            = Extended(f[s \ {Max(s)}], Max(s), samples[Max(s)].session)
      BY <3>1, <3>2 DEF op
    <3>4. QED
      BY <2>3, <3>1, <3>3
  <2> HIDE DEF Made
  <2>5. Eqn(f)
    BY <2>3, <2>4
  <2>6. QED
    BY <2>5
<1> HIDE DEF D, pick, Eqn
<1>7. PICK f : Eqn(f) /\ SpansOf(samples) = f[D]
  BY <1>4, <1>6
<1>8. \A s \in SUBSET D : f[s] = Made(f, s)
  <2> HIDE DEF Made
  <2>1. QED
    BY <1>7 DEF Eqn
<1> DEFINE Part(k, spans) == [stamps |-> StampsOf(samples, k), spans |-> spans]
           Good(k, spans) == spans \in Y /\ SpansDivide(Part(k, spans))
           T == {s \in SUBSET D : \A k \in 0..n : s = 1..k => Good(k, f[s])}
<1>9. {} \in T
  <2>1. SUFFICES ASSUME NEW k \in 0..n, {} = 1..k PROVE Good(k, f[{}])
    OBVIOUS
  <2>2. k = 0
    BY <1>1, <2>1
  <2>3. f[{}] = <<>>
    BY <1>8
  <2>4. StampsOf(samples, 0) = <<>>
    <3>1. StampsOf(samples, 0) \in Seq(Stamps) /\ Len(StampsOf(samples, 0)) = 0
      BY <1>1, StampsAreStamps
    <3>2. QED
      BY <3>1, EmptySeq
  <2>5. QED
    BY <1>5, <2>2, <2>3, <2>4 DEF SpansDivide
<1>10. ASSUME NEW s \in SUBSET D, s # {}, s \ {pick[s]} \in T
       PROVE  s \in T
  <2>1. SUFFICES ASSUME NEW k \in 0..n, s = 1..k PROVE Good(k, f[s])
    OBVIOUS
  <2>2. k # 0 /\ k \in D /\ k - 1 \in 0..n /\ k \in Nat
    BY <1>1, <1>10, <2>1 DEF D
  <2>3. Max(s) = k
    <3>1. Max(s) \in s /\ \A l \in s : Max(s) >= l
      BY <1>3, <1>10
    <3>2. k \in s
      BY <2>1, <2>2
    <3>3. Max(s) \in s /\ Max(s) >= k
      BY <3>1, <3>2
    <3> HIDE DEF D
    <3>4. \A l \in s : l \in Int /\ l <= k
      BY <2>1, <2>2
    <3>5. Max(s) \in Int /\ Max(s) <= k /\ Max(s) >= k
      BY <3>3, <3>4
    <3>6. k \in Int
      BY <2>2
    <3>7. QED
      BY <3>5, <3>6
  <2>4. pick[s] = k /\ s \ {k} = 1..(k - 1)
    BY <2>1, <2>2, <2>3 DEF pick
  <2>5. Good(k - 1, f[s \ {k}])
    BY <1>10, <2>2, <2>4
  <2>6. f[s] = Extended(f[s \ {k}], k, samples[k].session)
    BY <1>8, <1>10, <2>3
  <2> DEFINE x == [ts |-> samples[k].ts, session |-> samples[k].session]
             before == Part(k - 1, f[s \ {k}])
             after == Part(k, f[s])
  <2>7. /\ before.stamps \in Seq(Stamps) /\ Len(before.stamps) = k - 1
        /\ before.spans \in Seq(Spans) /\ SpansDivide(before)
    BY <2>2, <2>5, StampsAreStamps
  <2>8. x \in Stamps /\ x.session = samples[k].session
    BY <1>2, <2>2 DEF RawSamples, Stamps
  <2>9. after.stamps = Append(before.stamps, x)
    <3>1. StampsOf(samples, k) \in Seq(Stamps) /\ Len(StampsOf(samples, k)) = k
      BY <2>2, StampsAreStamps
    <3>2. /\ Append(before.stamps, x) \in Seq(Stamps) /\ Len(Append(before.stamps, x)) = k
          /\ \A i \in 1..(k - 1) : Append(before.stamps, x)[i] = before.stamps[i]
          /\ Append(before.stamps, x)[k] = x
      BY <2>2, <2>7, <2>8, AppendProperties
    <3>3. \A i \in 1..k : StampsOf(samples, k)[i] = Append(before.stamps, x)[i]
      <4>1. \A i \in 1..(k - 1) : StampsOf(samples, k)[i] = StampsOf(samples, k - 1)[i]
        BY <2>2 DEF StampsOf
      <4>2. StampsOf(samples, k)[k] = x
        BY <2>2 DEF StampsOf
      <4>3. \A i \in 1..k : i \in 1..(k - 1) \/ i = k
        BY <2>2
      <4>4. QED
        BY <3>2, <4>1, <4>2, <4>3
    <3>4. QED
      BY <3>1, <3>2, <3>3, SeqEqual
  <2>10. after.spans = Extended(before.spans, Len(before.stamps) + 1, x.session)
    BY <2>2, <2>6, <2>7, <2>8
  <2> HIDE DEF before, after, x
  <2>11. after.spans \in Seq(Spans) /\ SpansDivide(after)
    BY <2>7, <2>8, <2>9, <2>10, ExtendedDivides
  <2>12. QED
    BY <2>11 DEF after
<1> HIDE DEF T
<1>11. Picks(pick, D) /\ Inherited(T, pick, D)
  BY <1>3, <1>9, <1>10 DEF pick, Picks, Inherited
<1>12. SUBSET D \subseteq T
  BY <1>1, <1>11, SubsetInduction
<1>13. Good(n, f[D])
  <2>1. D \in T /\ D = 1..n /\ n \in 0..n
    BY <1>1, <1>12 DEF D
  <2> HIDE DEF Good
  <2>2. QED
    BY <2>1 DEF T
<1>14. b.stamps = Part(n, f[D]).stamps /\ b.spans = Part(n, f[D]).spans
  BY <1>7
<1>15. QED
  <2>1. b.stamps \in Seq(Stamps)
    BY <1>1, StampsAreStamps
  <2> HIDE DEF Part
  <2>2. QED
    BY <1>7, <1>13, <1>14, <2>1, SameSpans

\* A variable that had none has the samples given, and no other one has others.
Brought(m, n, v, s, samples) ==
    /\ m.vars[v].src = None => RawSeries(n, v) = samples
    /\ n.vars[v].src \in {m.vars[v].src, s}
    /\ \A w \in Vars \ {v} : n.vars[w] = m.vars[w]
    /\ \A r \in Sources \ {s} : n.sources[r].stamps = m.sources[r].stamps

LEMMA SeriesAdded ==
  ASSUME NEW m, Sound(m), NEW v \in Vars, NEW s \in Sources, NEW clock \in Sources,
         NEW samples \in Seq(RawSamples)
  PROVE  LET n == AddRawSeries(m, v, s, samples, clock) IN
         Sound(n) /\ Tracks(m, n) /\ Brought(m, n, v, s, samples)
<1> DEFINE k == Len(samples)
           label == samples[k].session
           b == [offset |-> clock, stamps |-> StampsOf(samples, k), spans |-> SpansOf(samples),
                 last |-> samples[k].ts, session |-> label]
           first == [m.sources EXCEPT ![s] = b]
           c == [first[clock] EXCEPT !.session = label]
           sources == [first EXCEPT ![clock] = c]
           values == [i \in 1..k |-> samples[i].value]
           bound == [src |-> s, values |-> values]
           n == [m EXCEPT !.sources = sources, !.vars = [m.vars EXCEPT ![v] = bound],
                          !.bumped = @ \cup {s}, !.valued = @ \cup {v}]
<1>1. m \in Models /\ m.sources \in [Sources -> Buckets] /\ m.vars \in [Vars -> Bindings]
  BY ModelFacts DEF Sound
<1>2. CASE k = 0
  <2>1. AddRawSeries(m, v, s, samples, clock) = m
    BY <1>2 DEF AddRawSeries
  <2>2. m.vars[v].src = None => RawSeries(m, v) = samples
    <3>1. samples = <<>>
      BY <1>2, EmptySeq
    <3>2. m.vars[v].src = None => Count(m, v) = 0
      BY DEF Count
    <3>3. QED
      BY <3>1, <3>2, EmptySeq DEF RawSeries
  <2>3. Brought(m, m, v, s, samples)
    BY <2>2 DEF Brought
  <2>4. QED
    BY <2>1, <2>3, EvolvesIsReflexive DEF Evolves
<1>3. CASE k # 0
  <2>1. k \in Nat /\ k \in 1..k /\ \A i \in 1..k : samples[i] \in RawSamples
    BY <1>3, LenProperties, ElementOfSeq
  <2>2. label \in Labels /\ samples[k].ts \in Instant /\ \A i \in 1..k : samples[i].value \in Instant
    BY <2>1 DEF RawSamples
  <2>3. /\ b.stamps \in Seq(Stamps) /\ b.spans \in Seq(Spans) /\ SpansDivide(b)
        /\ b.stamps = StampsOf(samples, k) /\ b.spans = SpansOf(samples)
        /\ b.offset = clock /\ b.last = samples[k].ts /\ b.session = label
    <3>1. b.stamps = StampsOf(samples, k) /\ b.spans = SpansOf(samples)
      OBVIOUS
    <3> HIDE DEF b
    <3>2. b.stamps \in Seq(Stamps) /\ b.spans \in Seq(Spans) /\ SpansDivide(b)
      BY <3>1, SpansOfDivide
    <3>3. QED
      BY <3>1, <3>2 DEF b
  <2>4. b \in Buckets
    BY <2>2, <2>3 DEF Buckets
  <2>5. AddRawSeries(m, v, s, samples, clock) = n
    <3>1. AddRawSeries(m, v, s, samples, clock) =
            [m EXCEPT !.sources[s] = b, !.sources[clock].session = label,
                      !.vars[v] = bound, !.bumped = @ \cup {s}, !.valued = @ \cup {v}]
      BY <1>3 DEF AddRawSeries, StampsOf, SpansOf
    <3> HIDE DEF b, bound, label
    <3>2. QED
      BY <1>1, <2>4, <3>1 DEF Models, Buckets
  <2>6. values \in Seq(Instant)
    <3>1. values \in [1..k -> Instant]
      BY <2>2
    <3>2. QED
      BY <2>1, <3>1
  <2>7. bound \in Bindings
    <3> HIDE DEF values
    <3>1. QED
      BY <2>6 DEF Bindings
  <2> HIDE DEF b, bound, label
  <2>8. first \in [Sources -> Buckets] /\ first[s] = b /\ \A r \in Sources \ {s} : first[r] = m.sources[r]
    BY <1>1, <2>4
  <2> HIDE DEF first
  <2>9. /\ c \in Buckets /\ c.stamps = first[clock].stamps /\ c.spans = first[clock].spans
        /\ c.offset = first[clock].offset
    <3>1. first[clock] \in Buckets
      BY <2>8
    <3>2. QED
      BY <2>2, <3>1 DEF Buckets
  <2> HIDE DEF c
  <2>10. /\ sources \in [Sources -> Buckets]
         /\ \A r \in Sources : /\ sources[r].stamps = first[r].stamps
                               /\ sources[r].spans = first[r].spans
                               /\ sources[r].offset = first[r].offset
    BY <2>8, <2>9
  <2> HIDE DEF sources
  <2>11. /\ n \in Models /\ n.sources = sources /\ n.vars = [m.vars EXCEPT ![v] = bound]
         /\ n.mode = m.mode /\ n.transforms = m.transforms /\ n.history = m.history
         /\ n.offsets = m.offsets /\ n.calibrated = m.calibrated
         /\ n.bumped = m.bumped \cup {s} /\ n.valued = m.valued \cup {v}
    BY <1>1, <2>7, <2>10 DEF Models
  <2> HIDE DEF n
  <2>12. \A r \in Sources : SpansDivide(n.sources[r])
    <3> SUFFICES ASSUME NEW r \in Sources PROVE SpansDivide(n.sources[r])
      OBVIOUS
    <3>1. SpansDivide(first[r])
      BY <2>3, <2>8 DEF Sound
    <3>2. QED
      BY <2>10, <2>11, <3>1, SameSpans
  <2>13. Sound(n)
    BY <2>11, <2>12 DEF Sound, HistoryHolds
  <2>14. \A r \in Sources : r \notin n.bumped =>
            /\ n.sources[r].stamps = m.sources[r].stamps
            /\ n.sources[r].offset = m.sources[r].offset
    BY <2>8, <2>10, <2>11
  <2>15. \A r \in Sources : r \notin n.bumped =>
            \A l \in Labels : Aligned(n, r, l) = Aligned(m, r, l)
    <3>1. \A r \in Sources : r \notin n.bumped => ClockOf(n, r) = ClockOf(m, r)
      BY <2>14 DEF ClockOf
    <3>2. QED
      BY <2>11, <3>1 DEF Aligned
  <2>16. \A w \in Vars : w \notin n.valued => n.vars[w] = m.vars[w]
    BY <1>1, <2>11
  <2>17. Tracks(m, n)
    BY <2>11, <2>14, <2>15, <2>16 DEF Tracks
  <2>18. n.vars[v] = bound /\ \A w \in Vars \ {v} : n.vars[w] = m.vars[w]
    BY <1>1, <2>11
  <2>19. /\ n.sources[s].stamps = StampsOf(samples, k)
         /\ \A r \in Sources \ {s} : n.sources[r].stamps = m.sources[r].stamps
    BY <2>3, <2>8, <2>10, <2>11
  <2>20. RawSeries(n, v) = samples
    <3> DEFINE stamps == StampsOf(samples, k)
               Raw(i) == [ts |-> stamps[i].ts, session |-> stamps[i].session,
                          value |-> values[i]]
    <3>1. Len(stamps) = k /\ \A i \in 1..k : /\ stamps[i].ts = samples[i].ts
                                            /\ stamps[i].session = samples[i].session
      <4>1. k \in 0..Len(samples)
        BY <2>1
      <4>2. QED
        BY <4>1, StampsAreStamps
    <3>2. Len(values) = k /\ \A i \in 1..k : values[i] = samples[i].value
      <4>1. \A i \in 1..k : values[i] = samples[i].value
        OBVIOUS
      <4>2. DOMAIN values = 1..k
        OBVIOUS
      <4> HIDE DEF values
      <4>3. QED
        BY <2>1, <2>6, <4>1, <4>2, LenProperties
    <3>3. bound.src = s /\ bound.values = values /\ s # None
      BY CaptureAssumption DEF bound
    <3> HIDE DEF values, stamps
    <3>4. Count(n, v) = Min({k, k})
      BY <2>18, <2>19, <3>1, <3>2, <3>3 DEF Count, stamps
    <3>5. Count(n, v) = k
      <4> HIDE DEF k
      <4>1. k \in Int
        BY <2>1
      <4>2. QED
        BY <3>4, <4>1, MinOfTwo
    <3>6. RawSeries(n, v) = [i \in 1..Count(n, v) |-> Raw(i)]
      BY <2>18, <2>19, <3>3 DEF RawSeries, stamps
    <3>7. \A i \in 1..k : Raw(i) = samples[i]
      <4> SUFFICES ASSUME NEW i \in 1..k PROVE Raw(i) = samples[i]
        OBVIOUS
      <4>1. /\ stamps[i].ts = samples[i].ts /\ stamps[i].session = samples[i].session
            /\ values[i] = samples[i].value
        BY <3>1, <3>2
      <4>2. samples[i] \in RawSamples
        BY <2>1
      <4>3. samples[i] = [ts |-> samples[i].ts, session |-> samples[i].session,
                          value |-> samples[i].value]
        BY <4>2 DEF RawSamples
      <4>4. QED
        BY <4>1, <4>3
    <3> HIDE DEF Raw
    <3>8. samples = [i \in 1..k |-> samples[i]]
      BY LenProperties
    <3>9. QED
      BY <3>5, <3>6, <3>7, <3>8
  <2>21. Brought(m, n, v, s, samples)
    BY <2>18, <2>19, <2>20 DEF Brought, bound
  <2>22. QED
    BY <2>5, <2>13, <2>17, <2>21
<1>4. QED
  BY <1>2, <1>3
-----------------------------------------------------------------------------
(* What is drawn.                                                          *)

LEMMA CountFacts ==
  ASSUME NEW m \in Models, NEW v \in Vars
  PROVE  /\ Count(m, v) \in Nat
         /\ m.vars[v].src = None => Count(m, v) = 0
         /\ m.vars[v].src # None =>
              /\ m.vars[v].src \in Sources
              /\ \A i \in 1..Count(m, v) :
                    /\ i \in DOMAIN m.vars[v].values
                    /\ m.vars[v].values[i] \in Instant
                    /\ i \in DOMAIN m.sources[m.vars[v].src].stamps
                    /\ m.sources[m.vars[v].src].stamps[i] \in Stamps
<1>1. m.vars[v] \in Bindings /\ \A s \in Sources : m.sources[s] \in Buckets
  BY ModelFacts
<1>2. CASE m.vars[v].src = None
  BY <1>2 DEF Count
<1>3. CASE m.vars[v].src # None
  <2> DEFINE s == m.vars[v].src
             values == m.vars[v].values
             stamps == m.sources[s].stamps
  <2>1. s \in Sources /\ values \in Seq(Instant)
    BY <1>1, <1>3 DEF Bindings
  <2>2. stamps \in Seq(Stamps)
    BY <1>1, <2>1 DEF Buckets
  <2>3. Count(m, v) = Min({Len(values), Len(stamps)})
    BY <1>3 DEF Count
  <2> HIDE DEF values, stamps
  <2>4. /\ Len(values) \in Nat /\ DOMAIN values = 1..Len(values)
        /\ Len(stamps) \in Nat /\ DOMAIN stamps = 1..Len(stamps)
    BY <2>1, <2>2, LenProperties
  <2>5. Count(m, v) \in Nat /\ Count(m, v) <= Len(values) /\ Count(m, v) <= Len(stamps)
    <3> DEFINE a == Len(values)
               b == Len(stamps)
    <3>1. a \in Int /\ b \in Int
      BY <2>4
    <3> HIDE DEF a, b
    <3>2. Min({a, b}) \in {a, b} /\ Min({a, b}) <= a /\ Min({a, b}) <= b
      BY <3>1, MinOfTwo
    <3>3. QED
      BY <2>3, <2>4, <3>2 DEF a, b
  <2>6. \A i \in 1..Count(m, v) : i \in 1..Len(values) /\ i \in 1..Len(stamps)
    BY <2>4, <2>5
  <2>7. \A i \in 1..Count(m, v) : values[i] \in Instant /\ stamps[i] \in Stamps
    BY <2>1, <2>2, <2>6, ElementOfSeq
  <2>8. QED
    BY <1>3, <2>1, <2>4, <2>5, <2>6, <2>7 DEF values, stamps
<1>4. QED
  BY <1>2, <1>3

LEMMA KeptSeries ==
  ASSUME NEW m \in Models, NEW n, NEW v \in Vars, n.vars[v] = m.vars[v],
         m.vars[v].src # None =>
            n.sources[m.vars[v].src].stamps = m.sources[m.vars[v].src].stamps
  PROVE  RawSeries(n, v) = RawSeries(m, v)
<1>1. CASE m.vars[v].src = None
  <2>1. Count(m, v) = 0 /\ Count(n, v) = 0
    BY <1>1 DEF Count
  <2>2. QED
    BY <2>1, EmptySeq DEF RawSeries
<1>2. CASE m.vars[v].src # None
  <2>1. Count(n, v) = Count(m, v)
    BY <1>2 DEF Count
  <2>2. QED
    BY <1>2, <2>1 DEF RawSeries
<1>3. QED
  BY <1>1, <1>2

LEMMA KeptTable ==
  ASSUME NEW m \in Models, NEW n, Keeps(m, n)
  PROVE  RawTable(n) = RawTable(m)
<1>1. ASSUME NEW v \in Vars PROVE RawSeries(n, v) = RawSeries(m, v)
  <2>1. m.vars[v].src # None => m.vars[v].src \in Sources
    BY CountFacts
  <2>2. QED
    BY <2>1, KeptSeries DEF Keeps
<1>2. QED
  BY <1>1 DEF RawTable

\* A series is what its variable, its stamps and their alignment make it.
LEMMA SeriesIsMapped ==
  ASSUME NEW m \in Models, NEW v \in Vars
  PROVE  Series(m, v) = [i \in 1..Count(m, v) |->
            [at |-> MapTimestamp(m, m.vars[v].src, i), value |-> m.vars[v].values[i]]]
<1> DEFINE n == Count(m, v)
           Drawn(i) == [at |-> MapTimestamp(m, m.vars[v].src, i), value |-> m.vars[v].values[i]]
<1>1. n \in Nat
  BY CountFacts
<1>2. Series(m, v) = [i \in 1..Max({0, n - 1 + 1}) |-> Drawn(1 + i - 1)]
  BY DEF Series, Slice
<1> HIDE DEF n
<1>3. Max({0, n - 1 + 1}) = n
  <2>1. n - 1 + 1 = n /\ n >= 0
    BY <1>1
  <2>2. n \in Int /\ 0 \in Int
    BY <1>1
  <2>3. n >= 0 => Max({0, n}) = n
    BY <2>2, MaxOfTwo
  <2>4. QED
    BY <2>1, <2>3
<1>4. \A i \in 1..n : 1 + i - 1 = i
  BY <1>1
<1> HIDE DEF Drawn
<1>5. Series(m, v) = [i \in 1..n |-> Drawn(i)]
  BY <1>2, <1>3, <1>4
<1>6. QED
  BY <1>5 DEF n, Drawn

LEMMA SeriesSame ==
  ASSUME NEW m \in Models, NEW n \in Models, Tracks(m, n), NEW v \in Vars,
         v \notin n.valued, n.vars[v].src \notin n.bumped
  PROVE  Series(n, v) = Series(m, v)
<1> DEFINE s == m.vars[v].src
<1>1. n.vars[v] = m.vars[v]
  BY DEF Tracks
<1>2. CASE s = None
  <2>1. Count(m, v) = 0 /\ Count(n, v) = 0
    BY <1>1, <1>2, CountFacts
  <2>2. QED
    BY <2>1, SeriesIsMapped
<1>3. CASE s # None
  <2>1. s \in Sources /\ \A i \in 1..Count(m, v) : m.sources[s].stamps[i] \in Stamps
    BY <1>3, CountFacts
  <2>2. /\ n.sources[s].stamps = m.sources[s].stamps
        /\ \A label \in Labels : Aligned(n, s, label) = Aligned(m, s, label)
    BY <1>1, <2>1 DEF Tracks
  <2>3. Count(n, v) = Count(m, v)
    BY <1>1, <2>2 DEF Count
  <2>4. \A i \in 1..Count(m, v) : MapTimestamp(n, s, i) = MapTimestamp(m, s, i)
    <3> SUFFICES ASSUME NEW i \in 1..Count(m, v)
                 PROVE  MapTimestamp(n, s, i) = MapTimestamp(m, s, i)
      OBVIOUS
    <3>1. m.sources[s].stamps[i].session \in Labels
      BY <2>1 DEF Stamps
    <3>2. QED
      BY <2>2, <3>1 DEF MapTimestamp
  <2> DEFINE Drawn(p, i) == [at |-> MapTimestamp(p, s, i), value |-> m.vars[v].values[i]]
  <2>5. /\ Series(m, v) = [i \in 1..Count(m, v) |-> Drawn(m, i)]
        /\ Series(n, v) = [i \in 1..Count(m, v) |-> Drawn(n, i)]
    BY <1>1, <2>3, SeriesIsMapped
  <2>6. \A i \in 1..Count(m, v) : Drawn(n, i) = Drawn(m, i)
    BY <2>4
  <2> HIDE DEF Drawn
  <2>7. QED
    BY <2>5, <2>6
<1>4. QED
  BY <1>2, <1>3

\* What a handler makes of the model keeps the cache true.
LEMMA BecomesCurrent ==
  ASSUME Sound(model), CacheIsCurrent, NEW m, Sound(m), Tracks(model, m), Becomes(m)
  PROVE  Sound(model') /\ CacheIsCurrent' /\ (Live(m) => Live(model)') /\ Keeps(m, model')
<1> DEFINE n == [m EXCEPT !.bumped = {}, !.valued = {}]
<1>1. m \in Models /\ model \in Models
  BY DEF Sound
<1>2. /\ n \in Models /\ n.sources = m.sources /\ n.vars = m.vars /\ n.offsets = m.offsets
      /\ n.transforms = m.transforms /\ n.history = m.history
      /\ n.calibrated = m.calibrated /\ n.mode = m.mode
  BY <1>1 DEF Models
<1>3. model' = n
  BY DEF Becomes
<1> HIDE DEF n
<1>4. Sound(n)
  BY <1>2 DEF Sound, HistoryHolds
<1>5. Live(m) => Live(n)
  BY <1>2 DEF Live, Known
<1>6. \A v \in Vars : Series(n, v) = Series(m, v)
  BY <1>2 DEF Series, Slice, Count, MapTimestamp, Aligned, ClockOf
<1>7. ASSUME NEW v \in Vars, cache'[v] # None
      PROVE  cache'[v] = Series(n, v)
  <2>1. /\ v \notin m.valued /\ m.vars[v].src \notin m.bumped
        /\ cache'[v] = cache[v]
    BY <1>7 DEF Becomes
  <2>2. Series(m, v) = Series(model, v)
    BY <1>1, <2>1, SeriesSame
  <2>3. QED
    BY <1>6, <1>7, <2>1, <2>2 DEF CacheIsCurrent
<1>8. CacheIsCurrent'
  BY <1>3, <1>7 DEF CacheIsCurrent
<1>9. Keeps(m, n)
  BY <1>2 DEF Keeps, Known
<1>10. QED
  BY <1>3, <1>4, <1>5, <1>8, <1>9
-----------------------------------------------------------------------------
(* Calibrations and imports, which go through a collection.                *)

Results == Dicts(Transforms)

LEMMA CalibrationsEvolve ==
  ASSUME NEW m, Sound(m), NEW seq \in Seq(Results)
  PROVE  Evolves(m, FoldLeft(SetCalibratedClockTransforms, m, seq))
<1> DEFINE D == DOMAIN seq
           Y == {n \in Models : Evolves(m, n)}
           pick == [s \in SUBSET D |-> Max(s)]
           Step(n, i) == SetCalibratedClockTransforms(n, seq[i])
           Made(f, s) == IF s = {} THEN m ELSE Step(f[s \ {Max(s)}], Max(s))
           Eqn(f) == f = [s \in SUBSET D |-> Made(f, s)]
           Result == FoldLeft(SetCalibratedClockTransforms, m, seq)
<1>1. D = 1..Len(seq) /\ Len(seq) \in Nat /\ IsFiniteSet(D)
  BY LenProperties, FS_Interval
<1>2. \A i \in D : seq[i] \in Results
  BY <1>1, ElementOfSeq
<1>3. \A s \in SUBSET D : s # {} => Max(s) \in s
  <2> SUFFICES ASSUME NEW s \in SUBSET D, s # {} PROVE Max(s) \in s
    OBVIOUS
  <2>1. IsFiniteSet(s)
    BY <1>1, FS_Subset
  <2>2. \E n \in s : \A k \in s : n >= k
    BY <1>1, <2>1, GreatestExists
  <2>3. QED
    BY <2>2 DEF Max
<1>4. m \in Y
  BY EvolvesIsReflexive DEF Sound
<1>5. ASSUME NEW n \in Y, NEW i \in D PROVE Step(n, i) \in Y
  <2>1. Sound(n) /\ seq[i] \in Dicts(Transforms)
    BY <1>2 DEF Evolves, Results
  <2>2. Evolves(n, Step(n, i))
    BY <2>1, CalibratedEvolves
  <2> HIDE DEF Step
  <2>3. Evolves(m, Step(n, i))
    BY <2>2, EvolvesIsTransitive
  <2>4. QED
    BY <2>3 DEF Evolves, Sound
<1>6. Result = (CHOOSE f : Eqn(f))[D]
  BY DEF FoldLeft, MapThenFoldSet
<1> HIDE DEF Step, Y, Result
<1>7. \E f : Eqn(f)
  <2> DEFINE op == [p \in D \X Y |-> Step(p[2], p[1])]
  <2>1. op \in [D \X Y -> Y]
    <3>1. \A p \in D \X Y : Step(p[2], p[1]) \in Y
      BY <1>5
    <3>2. QED
      BY <3>1
  <2>2. Picks(pick, D)
    BY <1>3 DEF Picks
  <2> HIDE DEF D, pick, op
  <2>3. PICK f \in [SUBSET D -> Y] : IsFold(f, op, m, pick, D)
    BY <1>1, <1>4, <2>1, <2>2, FoldExists
  <2>4. \A s \in SUBSET D : f[s] = Made(f, s)
    <3> USE DEF IsFold
    <3> SUFFICES ASSUME NEW s \in SUBSET D, s # {} PROVE f[s] = Made(f, s)
      BY <2>3
    <3>1. pick[s] = Max(s) /\ Max(s) \in D
      BY <1>3 DEF pick
    <3>2. f[s \ {Max(s)}] \in Y
      BY <2>3
    <3>3. op[<<Max(s), f[s \ {Max(s)}]>>] = Step(f[s \ {Max(s)}], Max(s))
      BY <3>1, <3>2 DEF op
    <3>4. QED
      BY <2>3, <3>1, <3>3
  <2> HIDE DEF Made
  <2>5. Eqn(f)
    BY <2>3, <2>4
  <2>6. QED
    BY <2>5
<1> HIDE DEF D, pick, Eqn
<1>8. PICK f : Eqn(f) /\ Result = f[D]
  BY <1>6, <1>7
<1>9. \A s \in SUBSET D : f[s] = Made(f, s)
  <2> HIDE DEF Made
  <2>1. QED
    BY <1>8 DEF Eqn
<1>10. f[{}] \in Y
  BY <1>4, <1>9
<1>11. \A s \in SUBSET D : s # {} /\ f[s \ {pick[s]}] \in Y => f[s] \in Y
  <2> SUFFICES ASSUME NEW s \in SUBSET D, s # {}, f[s \ {pick[s]}] \in Y
               PROVE  f[s] \in Y
    OBVIOUS
  <2>1. pick[s] = Max(s) /\ Max(s) \in D
    BY <1>3 DEF pick
  <2>2. f[s] = Step(f[s \ {Max(s)}], Max(s))
    BY <1>9
  <2>3. QED
    BY <1>5, <2>1, <2>2
<1>12. Picks(pick, D)
  BY <1>3 DEF pick, Picks
<1>13. f[D] \in Y
  BY <1>1, <1>10, <1>11, <1>12, FoldLands
<1>14. QED
  BY <1>8, <1>13 DEF Y, Result

\* A file holds series of known sources and clocks, models and observations.
Observations == [clock : Domains, session : Labels, offset : Int, imported : BOOLEAN]

Files == {f \in [series : [Vars -> Seq(RawSamples)],
                 domains : UNION {[D -> Sources] : D \in SUBSET Vars},
                 evidence : SUBSET Observations, models : Results] :
             IsFiniteSet(f.evidence)}

\* The series of the variables of s, and no others, are loaded.
Loaded(f, s, n) == \A v \in Vars :
    /\ n.vars[v].src \in {None, CsvSource[v]}
    /\ IF v \in s THEN RawSeries(n, v) = f.series[v] ELSE n.vars[v].src = None

LEMMA LoadedWithOneMore ==
  ASSUME NEW f, NEW s, NEW m \in Models, NEW n, NEW v \in s, v \in Vars,
         IsInjective(CsvSource), Loaded(f, s \ {v}, m), Brought(m, n, v, CsvSource[v], f.series[v])
  PROVE  Loaded(f, s, n)
<1>1. CsvSource \in [Vars -> Sources]
  BY CaptureAssumption
<1>2. SUFFICES ASSUME NEW w \in Vars
               PROVE  /\ n.vars[w].src \in {None, CsvSource[w]}
                      /\ IF w \in s THEN RawSeries(n, w) = f.series[w]
                         ELSE n.vars[w].src = None
  BY DEF Loaded
<1>3. CASE w = v
  BY <1>3 DEF Loaded, Brought
<1>4. CASE w # v
  <2>1. CsvSource[w] # CsvSource[v] /\ CsvSource[w] \in Sources
    BY <1>1, <1>4 DEF IsInjective
  <2>2. n.vars[w] = m.vars[w] /\ m.vars[w].src \in {None, CsvSource[w]}
    BY <1>4 DEF Loaded, Brought
  <2>3. m.vars[w].src # None =>
          n.sources[m.vars[w].src].stamps = m.sources[m.vars[w].src].stamps
    BY <2>1, <2>2 DEF Brought
  <2>4. RawSeries(n, w) = RawSeries(m, w)
    BY <2>2, <2>3, KeptSeries
  <2>5. QED
    BY <1>4, <2>2, <2>4 DEF Loaded
<1>5. QED
  BY <1>3, <1>4

LEMMA ImportedIsSound ==
  ASSUME Sound(model), NEW f \in Files
  PROVE  /\ Sound(ImportedModel(f)) /\ Tracks(model, ImportedModel(f))
         /\ IsInjective(CsvSource) =>
              \A v \in Vars : RawSeries(ImportedModel(f), v) =
                 IF v \in DOMAIN f.domains THEN f.series[v] ELSE <<>>
<1> DEFINE D == DOMAIN f.domains
           c == Clear(model)
           Y == {n \in Models : Sound(n) /\ Tracks(c, n)}
           pick == [s \in SUBSET D |-> CHOOSE x \in s : TRUE]
           Step(n, v) == AddRawSeries(n, v, CsvSource[v], f.series[v], f.domains[v])
           Made(g, s) == IF s = {} THEN c
                         ELSE Step(g[s \ {CHOOSE x \in s : TRUE}], CHOOSE x \in s : TRUE)
           Eqn(g) == g = [s \in SUBSET D |-> Made(g, s)]
           Result == FoldSet(LAMBDA v, m : AddRawSeries(m, v, CsvSource[v], f.series[v], f.domains[v]), c, D)
<1>1. D \subseteq Vars /\ IsFiniteSet(D) /\ \A v \in D : f.domains[v] \in Sources
  <2>1. f.domains \in UNION {[E -> Sources] : E \in SUBSET Vars}
    BY DEF Files
  <2>2. D \subseteq Vars /\ \A v \in D : f.domains[v] \in Sources
    BY <2>1
  <2>3. QED
    BY <2>2, FS_Subset, CaptureAssumption
<1>2. /\ f.series \in [Vars -> Seq(RawSamples)] /\ f.models \in Dicts(Transforms)
      /\ CsvSource \in [Vars -> Sources]
  BY CaptureAssumption DEF Files, Results
<1>3. \A s \in SUBSET D : s # {} => (CHOOSE x \in s : TRUE) \in s
  OBVIOUS
<1>4. c \in Y /\ Tracks(model, c) /\ Loaded(f, {}, c)
  <2>1. Sound(c) /\ Tracks(model, c) /\ c \in Models
    BY ClearIsSound DEF Sound
  <2>2. c.vars = [v \in Vars |-> Unbound]
    BY DEF Clear, EmptyModel
  <2> HIDE DEF c
  <2>3. QED
    BY <2>1, <2>2, EvolvesIsReflexive DEF Evolves, Loaded, Unbound
<1> HIDE DEF c
<1>5. ASSUME NEW n \in Y, NEW v \in D
      PROVE  Step(n, v) \in Y /\ Brought(n, Step(n, v), v, CsvSource[v], f.series[v])
  <2>1. Sound(n) /\ Tracks(c, n)
    OBVIOUS
  <2>2. /\ Sound(Step(n, v)) /\ Tracks(n, Step(n, v))
        /\ Brought(n, Step(n, v), v, CsvSource[v], f.series[v])
    <3>1. /\ v \in Vars /\ CsvSource[v] \in Sources /\ f.domains[v] \in Sources
          /\ f.series[v] \in Seq(RawSamples)
      BY <1>1, <1>2
    <3>2. QED
      BY <2>1, <3>1, SeriesAdded
  <2> HIDE DEF Step
  <2>3. Tracks(c, Step(n, v))
    BY <2>1, <2>2, TracksIsTransitive
  <2>4. QED
    BY <2>2, <2>3 DEF Sound
<1>6. Result = (CHOOSE g : Eqn(g))[D]
  BY DEF FoldSet, MapThenFoldSet
<1>0. ImportedModel(f) = SetAlignmentMode(SetCalibratedClockTransforms(Result, f.models),
                            IF f.models = Nothing THEN "realtime" ELSE "calibrated")
  BY DEF ImportedModel, c
<1> HIDE DEF Step, Y, Result
<1>7. \E g : Eqn(g)
  <2> DEFINE op == [p \in D \X Y |-> Step(p[2], p[1])]
  <2>1. op \in [D \X Y -> Y]
    <3>1. \A p \in D \X Y : Step(p[2], p[1]) \in Y
      BY <1>5
    <3>2. QED
      BY <3>1
  <2>2. Picks(pick, D)
    BY <1>3 DEF Picks
  <2> HIDE DEF D, pick, op
  <2>3. PICK g \in [SUBSET D -> Y] : IsFold(g, op, c, pick, D)
    BY <1>1, <1>4, <2>1, <2>2, FoldExists
  <2>4. \A s \in SUBSET D : g[s] = Made(g, s)
    <3> USE DEF IsFold
    <3> SUFFICES ASSUME NEW s \in SUBSET D, s # {} PROVE g[s] = Made(g, s)
      BY <2>3
    <3> DEFINE x == CHOOSE y \in s : TRUE
    <3>1. pick[s] = x /\ x \in D
      BY <1>3 DEF pick
    <3>5. Made(g, s) = Step(g[s \ {x}], x)
      OBVIOUS
    <3> HIDE DEF x, Made
    <3>2. g[s \ {x}] \in Y
      BY <2>3
    <3>3. op[<<x, g[s \ {x}]>>] = Step(g[s \ {x}], x)
      BY <3>1, <3>2 DEF op
    <3>4. QED
      BY <2>3, <3>1, <3>3, <3>5
  <2> HIDE DEF Made
  <2>5. Eqn(g)
    BY <2>3, <2>4
  <2>6. QED
    BY <2>5
<1> HIDE DEF D, pick, Eqn
<1>8. PICK g : Eqn(g) /\ Result = g[D]
  BY <1>6, <1>7
<1>9. \A s \in SUBSET D : g[s] = Made(g, s)
  <2> HIDE DEF Made
  <2>1. QED
    BY <1>8 DEF Eqn
<1>10. g[{}] \in Y
  BY <1>4, <1>9
<1>11. \A s \in SUBSET D : s # {} /\ g[s \ {pick[s]}] \in Y => g[s] \in Y
  <2> SUFFICES ASSUME NEW s \in SUBSET D, s # {}, g[s \ {pick[s]}] \in Y
               PROVE  g[s] \in Y
    OBVIOUS
  <2> DEFINE x == CHOOSE y \in s : TRUE
  <2>1. pick[s] = x /\ x \in D
    BY <1>3 DEF pick
  <2>2. g[s] = Step(g[s \ {x}], x)
    BY <1>9
  <2> HIDE DEF x
  <2>3. QED
    BY <1>5, <2>1, <2>2
<1>12. Picks(pick, D)
  BY <1>3 DEF pick, Picks
<1>13. g[D] \in Y
  BY <1>1, <1>10, <1>11, <1>12, FoldLands
<1>14. Sound(Result) /\ Tracks(model, Result)
  <2>1. Sound(Result) /\ Tracks(c, Result)
    BY <1>8, <1>13 DEF Y
  <2>2. QED
    BY <1>4, <2>1, TracksIsTransitive
<1>15. IsInjective(CsvSource) => Loaded(f, D, Result)
  <2> SUFFICES ASSUME IsInjective(CsvSource) PROVE Loaded(f, D, Result)
    OBVIOUS
  <2> DEFINE Z == {p \in (SUBSET D) \X Y : Loaded(f, p[1], p[2])}
             h == [s \in SUBSET D |-> <<s, g[s]>>]
  <2>1. h[{}] \in Z
    BY <1>4, <1>9
  <2>2. ASSUME NEW s \in SUBSET D, s # {}, h[s \ {pick[s]}] \in Z PROVE h[s] \in Z
    <3> DEFINE x == CHOOSE y \in s : TRUE
               n == g[s \ {x}]
    <3>1. pick[s] = x /\ x \in s /\ x \in D
      BY <1>3, <2>2 DEF pick
    <3>2. g[s] = Step(n, x)
      BY <1>9, <2>2
    <3> HIDE DEF x
    <3>3. n \in Y /\ Loaded(f, s \ {x}, n)
      <4>1. h[s \ {pick[s]}] = <<s \ {x}, n>>
        BY <3>1
      <4> HIDE DEF n, h
      <4>2. QED
        BY <2>2, <4>1
    <3> HIDE DEF n
    <3>4. g[s] \in Y /\ Brought(n, g[s], x, CsvSource[x], f.series[x])
      BY <1>5, <3>1, <3>2, <3>3
    <3>5. n \in Models /\ x \in Vars
      BY <1>1, <3>1, <3>3 DEF Y
    <3>6. Loaded(f, s, g[s])
      BY <3>1, <3>3, <3>4, <3>5, LoadedWithOneMore
    <3>7. QED
      BY <3>4, <3>6
  <2> HIDE DEF h, Z
  <2>3. h[D] \in Z
    BY <1>1, <1>12, <2>1, <2>2, FoldLands
  <2>4. QED
    BY <1>8, <2>3 DEF h, Z
<1> DEFINE set == SetCalibratedClockTransforms(Result, f.models)
           mode == IF f.models = Nothing THEN "realtime" ELSE "calibrated"
<1>16. Sound(set) /\ Tracks(model, set) /\ Evolves(Result, set)
  <2>1. Evolves(Result, set)
    BY <1>2, <1>14, CalibratedEvolves
  <2> HIDE DEF set
  <2>2. QED
    BY <1>14, <2>1, TracksIsTransitive DEF Evolves
<1> HIDE DEF set
<1>17. Evolves(set, SetAlignmentMode(set, mode))
  BY <1>16, ModeEvolves
<1>18. Sound(SetAlignmentMode(set, mode)) /\ Tracks(model, SetAlignmentMode(set, mode))
  BY <1>16, <1>17, TracksIsTransitive DEF Evolves
<1>19. \A v \in Vars : RawSeries(SetAlignmentMode(set, mode), v) = RawSeries(Result, v)
  <2> DEFINE last == SetAlignmentMode(set, mode)
  <2>1. Keeps(Result, last)
    BY <1>16, <1>17, KeepsIsTransitive DEF Evolves
  <2> HIDE DEF last
  <2>2. RawTable(last) = RawTable(Result)
    BY <1>14, <2>1, KeptTable DEF Sound
  <2>3. QED
    BY <2>2 DEF RawTable, last
<1>20. IsInjective(CsvSource) => \A v \in Vars : RawSeries(Result, v) =
          IF v \in D THEN f.series[v] ELSE <<>>
  <2>1. \A v \in Vars : Result.vars[v].src = None => RawSeries(Result, v) = <<>>
    <3>1. \A v \in Vars : Result.vars[v].src = None => Count(Result, v) = 0
      BY DEF Count
    <3>2. QED
      BY <3>1, EmptySeq DEF RawSeries
  <2>2. QED
    BY <1>15, <2>1 DEF Loaded
<1>21. QED
  BY <1>0, <1>18, <1>19, <1>20 DEF set, D
-----------------------------------------------------------------------------
(* What the handlers make of the model.                                    *)

\* The number of a clock's session, whatever its range.
HasSession(m, clock, k) ==
    /\ "sources" \in DOMAIN m /\ clock \in DOMAIN m.sources
    /\ "session" \in DOMAIN m.sources[clock] /\ m.sources[clock].session = k

LEMMA SessionGrows ==
  ASSUME NEW m \in Models, NEW s \in Sources, NEW clock \in Sources,
         NEW arrival, NEW ts, NEW clockTs, NEW data
  PROVE  LET k == AddData(m, s, arrival, ts, clock, clockTs, data).sources[clock].session
         IN  k \in Nat /\ k >= m.sources[clock].session
<1> DEFINE m1 == IF m.sources[s].offset = clock THEN m
                 ELSE [m EXCEPT !.sources[s].offset = clock, !.bumped = @ \cup {s}]
           label == m1.sources[clock].session
                    + (IF RolledBack(m1, clock, clockTs) THEN 1 ELSE 0)
           m2 == [m1 EXCEPT !.sources[clock].session = label, !.sources[clock].last = clockTs]
           m3 == IF s = clock THEN m2 ELSE [m2 EXCEPT !.sources[s].last = ts]
           t == m3.transforms[clock]
           m4 == IF t # None /\ t.epoch = label THEN m3
                 ELSE LowerOffset(m3, clock, label, arrival - clockTs)
           n == AddTimestamp(m4, s, ts, label)
           p == AddValues(n, s, data)
<1>1. /\ m.sources \in [Sources -> Buckets] /\ m.sources[clock] \in Buckets
      /\ m.sources[clock].session \in Nat
  BY ModelFacts, ConstantFacts DEF Buckets
<1>2. HasSession(m1, clock, m.sources[clock].session)
  <2>1. CASE m.sources[s].offset = clock
    BY <1>1, <2>1 DEF HasSession, Models, Buckets
  <2>2. CASE m.sources[s].offset # clock
    BY <1>1, <2>2 DEF HasSession, Models, Buckets
  <2>3. QED
    BY <2>1, <2>2
<1> HIDE DEF m1
<1>3. label \in Nat /\ label >= m.sources[clock].session
  BY <1>1, <1>2 DEF HasSession
<1> HIDE DEF label
<1>4. HasSession(m2, clock, label)
  BY <1>2 DEF HasSession
<1> HIDE DEF m2
<1>5. HasSession(m3, clock, label)
  BY <1>4 DEF HasSession
<1> HIDE DEF m3
<1>6. HasSession(m4, clock, label)
  <2>1. HasSession(LowerOffset(m3, clock, label, arrival - clockTs), clock, label)
    BY <1>5 DEF LowerOffset, Mark, HasSession
  <2>2. QED
    BY <1>5, <2>1
<1> HIDE DEF m4
<1>7. HasSession(n, clock, label)
  BY <1>6 DEF AddTimestamp, HasSession
<1> HIDE DEF n
<1>8. HasSession(p, clock, label)
  BY <1>7 DEF AddValues, HasSession
<1>9. AddData(m, s, arrival, ts, clock, clockTs, data) = p
  BY DEF AddData, UpdateSourceTimestamp, m1, label, m2, m3, m4, n
<1> HIDE DEF p
<1>10. QED
  BY <1>3, <1>8, <1>9 DEF HasSession

\* A sample is taken as long as the sessions stay within the bound.
LEMMA SampleTaken ==
  ASSUME Sound(model), NEW s \in Sources, NEW clock \in Sources,
         NEW arrival \in Int, NEW ts \in Instant, NEW clockTs \in Instant, NEW data,
         DOMAIN data \subseteq Vars, \A v \in DOMAIN data : data[v] \in Instant,
         Room(AddData(model, s, arrival, ts, clock, clockTs, data))
  PROVE  LET n == AddData(model, s, arrival, ts, clock, clockTs, data) IN
         /\ Sound(n) /\ Tracks(model, n)
         /\ \E label \in Labels : Sampled(model, n, s, [ts |-> ts, session |-> label], data)
         /\ Live(model) /\ clock = ClockFor(s) => Live(n)
<1>1. model \in Models /\ model.sources[clock] \in Buckets
  BY ModelFacts DEF Sound
<1>2. model.sources[clock].session \in Labels
  BY <1>1 DEF Buckets
<1> DEFINE k == AddData(model, s, arrival, ts, clock, clockTs, data).sources[clock].session
<1>3. k \in Nat /\ k >= model.sources[clock].session
  BY <1>1, SessionGrows
<1>4. k <= MaxSession
  BY DEF Room
<1>5. model.sources[clock].session \in 1..MaxSession
  <2> HIDE DEF k
  <2>1. MaxSession \in Nat
    BY CaptureAssumption
  <2>2. QED
    BY <1>2, <1>3, <1>4, <2>1 DEF Labels
<1>6. QED
  BY <1>5, DataAdded

LEMMA PublishedEvolves ==
  ASSUME NEW m, Sound(m), NEW clock \in Sources, NEW label \in Labels,
         NEW observations \in SUBSET Observations,
         NEW n \in Published(m, clock, label, observations)
  PROVE  Evolves(m, n)
<1>1. CASE n = m
  BY <1>1, EvolvesIsReflexive
<1>2. CASE n # m
  <2>1. PICK d \in Offsets({o \in observations : ~o.imported}) :
           n = SetClockTransform(m, clock, [offset |-> d, epoch |-> label])
    BY <1>2 DEF Published
  <2>2. d \in Int
    BY DEF Offsets, Observations
  <2>3. [offset |-> d, epoch |-> label] \in Transforms
    BY <2>2 DEF Transforms
  <2>4. QED
    BY <2>1, <2>3, TransformEvolves
<1>3. QED
  BY <1>1, <1>2

LEMMA SyncEvolves ==
  ASSUME Sound(model), epoch \in 1..MaxSession
  PROVE  Evolves(model, SyncEpoch(model))
<1>1. NfClock \in Sources
  BY CaptureAssumption
<1>2. QED
  BY <1>1, EvolvesIsReflexive, EpochEvolves DEF SyncEpoch

LEMMA DomainsAreSources == Domains \subseteq Sources
BY CaptureAssumption DEF Domains

\* What is fitted to observations, and what a file holds.
LEMMA FitIsNumber ==
  ASSUME NEW observations \in SUBSET Observations, IsFiniteSet(observations), observations # {}
  PROVE  Fit(observations) \in Int
<1> DEFINE f == [o \in observations |-> o.offset]
           D == Offsets(observations)
<1>1. D = {f[o] : o \in observations} /\ DOMAIN f = observations
  BY DEF Offsets
<1>2. D \in SUBSET Int /\ D # {}
  BY DEF Offsets, Observations
<1> HIDE DEF f, D
<1>3. IsFiniteSet(D)
  BY <1>1, ImageIsFinite
<1>4. \E n \in D : \A k \in D : n <= k
  BY <1>2, <1>3, LeastExists
<1>5. Min(D) \in D
  BY <1>4 DEF Min
<1>6. QED
  BY <1>2, <1>5 DEF Fit, D

LEMMA ModelsOfIsDict ==
  ASSUME evidence \in SUBSET Observations, IsFiniteSet(evidence),
         NEW sessions \in SUBSET (Domains \X Labels)
  PROVE  ModelsOf(sessions) \in Results
<1> DEFINE D == {k \in sessions : OfSession(k[1], k[2]) # {}}
           Made(key) == [offset |-> Fit(OfSession(key[1], key[2])), epoch |-> key[2]]
<1>1. \A key \in D : Made(key) \in Transforms
  <2> SUFFICES ASSUME NEW key \in D PROVE Made(key) \in Transforms
    OBVIOUS
  <2>1. key[2] \in Labels
    OBVIOUS
  <2>2. OfSession(key[1], key[2]) \in SUBSET Observations /\ OfSession(key[1], key[2]) # {}
    BY DEF OfSession
  <2>3. IsFiniteSet(OfSession(key[1], key[2]))
    BY FS_Subset DEF OfSession
  <2>4. Fit(OfSession(key[1], key[2])) \in Int
    BY <2>2, <2>3, FitIsNumber
  <2>5. QED
    BY <2>1, <2>4 DEF Transforms
<1>2. D \in SUBSET Sessions
  BY DomainsAreSources DEF Sessions
<1>3. ModelsOf(sessions) = [key \in D |-> Made(key)]
  BY DEF ModelsOf
<1> HIDE DEF D, Made
<1>4. ModelsOf(sessions) \in [D -> Transforms]
  BY <1>1, <1>3
<1>5. QED
  BY <1>2, <1>4 DEF Results, Dicts

LEMMA RawSeriesIsRaw ==
  ASSUME NEW m \in Models, NEW v \in Vars
  PROVE  RawSeries(m, v) \in Seq(RawSamples)
<1> DEFINE n == Count(m, v)
           Raw(i) == [ts      |-> m.sources[m.vars[v].src].stamps[i].ts,
                      session |-> m.sources[m.vars[v].src].stamps[i].session,
                      value   |-> m.vars[v].values[i]]
<1>1. n \in Nat /\ RawSeries(m, v) = [i \in 1..n |-> Raw(i)]
  BY CountFacts DEF RawSeries
<1>2. ASSUME NEW i \in 1..n PROVE Raw(i) \in RawSamples
  <2>1. m.vars[v].src # None
    BY CountFacts
  <2>2. /\ m.sources[m.vars[v].src].stamps[i] \in Stamps
        /\ m.vars[v].values[i] \in Instant
    BY <2>1, CountFacts
  <2>3. QED
    BY <2>2 DEF Stamps, RawSamples
<1> HIDE DEF Raw, n
<1>3. RawSeries(m, v) \in [1..n -> RawSamples]
  BY <1>1, <1>2
<1>4. QED
  BY <1>1, <1>3
-----------------------------------------------------------------------------
(* What queries answer.                                                    *)

\* The samples of a variable: when they are drawn, and of which session they are.
At(m, v, i) == MapTimestamp(m, m.vars[v].src, i)
LabelOf(m, v, i) == m.sources[m.vars[v].src].stamps[i].session

\* In time order, and no two sessions meet.
Sorted(m, v) == \A i, j \in 1..Count(m, v) : i < j =>
    /\ At(m, v, i) <= At(m, v, j)
    /\ LabelOf(m, v, i) # LabelOf(m, v, j) => At(m, v, i) < At(m, v, j)

Earlier(m, v, i, t, right) == At(m, v, i) < t \/ (right /\ At(m, v, i) = t)

LEMMA TimesAreNumbers ==
  ASSUME NEW m \in Models, NEW v \in Vars, NEW i \in 1..Count(m, v)
  PROVE  At(m, v, i) \in Int /\ LabelOf(m, v, i) \in Labels
<1> DEFINE s == m.vars[v].src
           stamp == m.sources[s].stamps[i]
           key == <<ClockOf(m, s), stamp.session>>
<1>1. s \in Sources /\ stamp \in Stamps
  <2>1. s # None
    BY CountFacts
  <2>2. QED
    BY <2>1, CountFacts
<1>2. stamp.ts \in Int /\ stamp.session \in Labels
  <2>1. stamp.ts \in Instant /\ stamp.session \in Labels
    <3> HIDE DEF stamp
    <3>1. QED
      BY <1>1 DEF Stamps
  <2>2. Instant \subseteq Int
    BY ConstantFacts
  <2> HIDE DEF stamp
  <2>3. QED
    BY <2>1, <2>2
<1> HIDE DEF stamp
<1>3. Aligned(m, s, stamp.session) \in Int
  <2>1. /\ key \in DOMAIN m.calibrated => m.calibrated[key].offset \in Int
        /\ key \in DOMAIN m.history => m.history[key].offset \in Int
        /\ key \in DOMAIN m.offsets => m.offsets[key] \in Int
    <3> HIDE DEF key
    <3>1. /\ m.calibrated \in Dicts(Transforms) /\ m.history \in Dicts(Transforms)
          /\ m.offsets \in Dicts(Int)
      BY ModelFacts
    <3>2. /\ key \in DOMAIN m.calibrated => m.calibrated[key] \in Transforms
          /\ key \in DOMAIN m.history => m.history[key] \in Transforms
          /\ key \in DOMAIN m.offsets => m.offsets[key] \in Int
      BY <3>1, DictFacts
    <3>3. QED
      BY <3>2 DEF Transforms
  <2>2. Aligned(m, s, stamp.session) =
          IF m.mode = "calibrated" /\ key \in DOMAIN m.calibrated THEN m.calibrated[key].offset
          ELSE IF key \in DOMAIN m.history THEN m.history[key].offset
          ELSE IF key \in DOMAIN m.offsets THEN m.offsets[key] ELSE 0
    BY DEF Aligned
  <2> HIDE DEF key
  <2>3. QED
    BY <2>1, <2>2
<1>4. At(m, v, i) = stamp.ts + Aligned(m, s, stamp.session)
  BY DEF At, MapTimestamp, stamp
<1>5. LabelOf(m, v, i) = stamp.session
  BY DEF LabelOf, stamp
<1> HIDE DEF s
<1>6. QED
  BY <1>2, <1>3, <1>4, <1>5

LEMMA SeriesOfTimes ==
  ASSUME NEW m \in Models, NEW v \in Vars
  PROVE  LET s == Series(m, v)
             n == Count(m, v)
         IN  /\ n \in Nat /\ s \in Seq([at : Int, value : Instant]) /\ Len(s) = n
             /\ DOMAIN s = 1..n
             /\ \A i \in 1..n : s[i] = [at |-> At(m, v, i), value |-> m.vars[v].values[i]]
<1> DEFINE n == Count(m, v)
           x(i) == [at |-> At(m, v, i), value |-> m.vars[v].values[i]]
<1>1. n \in Nat /\ Series(m, v) = [i \in 1..n |-> x(i)]
  BY CountFacts, SeriesIsMapped DEF At
<1>2. \A i \in 1..n : x(i) \in [at : Int, value : Instant]
  <2> SUFFICES ASSUME NEW i \in 1..n PROVE x(i) \in [at : Int, value : Instant]
    OBVIOUS
  <2>1. At(m, v, i) \in Int
    BY TimesAreNumbers
  <2>2. m.vars[v].values[i] \in Instant
    <3>1. m.vars[v].src # None
      BY CountFacts
    <3>2. QED
      BY <3>1, CountFacts
  <2>3. QED
    BY <2>1, <2>2
<1> HIDE DEF n
<1>3. Series(m, v) \in [1..n -> [at : Int, value : Instant]]
  <2> HIDE DEF x
  <2>1. QED
    BY <1>1, <1>2
<1>4. Series(m, v) \in Seq([at : Int, value : Instant]) /\ Len(Series(m, v)) = n
  BY <1>1, <1>3, LenProperties
<1>5. QED
  BY <1>1, <1>4 DEF n

LEMMA OrderIsSorted ==
  ASSUME Sound(model), NEW v \in Vars, InOrder(v)
  PROVE  Sorted(model, v)
<1> DEFINE s == Series(model, v)
           r == RawSeries(model, v)
           n == Count(model, v)
<1>1. model \in Models
  BY DEF Sound
<1>2. DOMAIN s = 1..n /\ \A i \in 1..n : s[i].at = At(model, v, i)
  <2> DEFINE x(i) == [at |-> At(model, v, i), value |-> model.vars[v].values[i]]
  <2>1. DOMAIN s = 1..n /\ \A i \in 1..n : s[i] = x(i)
    BY <1>1, SeriesOfTimes
  <2>2. \A i \in 1..n : x(i).at = At(model, v, i)
    OBVIOUS
  <2> HIDE DEF s, n, x
  <2>3. QED
    BY <2>1, <2>2
<1>3. \A i \in 1..n : r[i].session = LabelOf(model, v, i)
  BY DEF RawSeries, LabelOf
<1>4. \A i, j \in 1..n : i < j =>
        s[i].at <= s[j].at /\ (r[i].session # r[j].session => s[i].at < s[j].at)
  BY <1>2 DEF InOrder
<1> HIDE DEF s, r, n
<1>5. QED
  BY <1>2, <1>3, <1>4 DEF Sorted, n

\* A set of numbers that has all below those it has.
LEMMA InitialPart ==
  ASSUME NEW a \in Int, NEW b \in Int, a <= b + 1, NEW D \in SUBSET (a..b),
         \A j \in D : \A i \in a..b : i < j => i \in D
  PROVE  /\ Cardinality(D) \in Nat /\ a + Cardinality(D) - 1 <= b
         /\ \A i \in a..b : i \in D <=> i <= a + Cardinality(D) - 1
<1>1. IsFiniteSet(D)
  BY FS_Interval, FS_Subset
<1>2. CASE D = {}
  <2>1. Cardinality(D) = 0
    BY <1>2, FS_EmptySet
  <2>2. QED
    BY <1>2, <2>1
<1>3. CASE D # {}
  <2>1. D \in SUBSET Int
    OBVIOUS
  <2>2. PICK g \in D : \A i \in D : g >= i
    BY <1>1, <1>3, <2>1, GreatestExists
  <2>4. g \in Int /\ a <= g /\ g <= b
    BY <2>2
  <2>3. D = a..g
    <3>1. \A i \in Int : a <= i /\ i <= g => i \in D
      BY <2>2, <2>4
    <3>2. \A i \in D : i \in Int /\ a <= i /\ i <= g
      BY <2>2, <2>4
    <3>3. \A i : i \in a..g <=> i \in Int /\ a <= i /\ i <= g
      BY <2>4
    <3>4. QED
      BY <3>1, <3>2, <3>3
  <2>5. Cardinality(a..g) = g - a + 1
    BY <2>4, FS_Interval
  <2>6. Cardinality(D) \in Nat /\ a + Cardinality(D) - 1 = g
    BY <2>3, <2>4, <2>5
  <2>7. QED
    BY <2>3, <2>4, <2>6
<1>4. QED
  BY <1>2, <1>3

\* A search of n samples that spans divide, span j from st[j] to en[j]: B says which
\* are before the target, R which are at it or after.
ClipAt(n, en, j) == Min({n, en[j]})
Deciding(n, K, st, en, B, R) ==
    {j \in 1..K : st[j] <= n /\ (~B[st[j]] \/ R[ClipAt(n, en, j)])}
PartOf(n, st, en, B, j) == {i \in st[j] .. ClipAt(n, en, j) : B[i]}
Found(n, K, st, en, B, R) ==
    LET D == Deciding(n, K, st, en, B, R) IN
    IF D = {} THEN n ELSE (st[Min(D)] - 1) + Cardinality(PartOf(n, st, en, B, Min(D)))

\* A search of spans that divide the samples, each by bisection, finds where those
\* before a target end.  B: before the target; R: at it or after.
LEMMA SearchOfSpans ==
  ASSUME NEW n \in Nat \ {0}, NEW K \in Nat \ {0},
         NEW st \in [1..K -> Nat], NEW en \in [1..K -> Nat], st[1] = 1, en[K] >= n,
         \A j \in 1..K : st[j] <= en[j],
         \A j \in 1..K : j > 1 => st[j] = en[j - 1] + 1,
         NEW B \in [1..n -> BOOLEAN], NEW R \in [1..n -> BOOLEAN],
         \A i, k \in 1..n : i < k /\ B[k] => B[i],
         \A i \in 1..n : R[i] \/ B[i],
         \A j \in 1..K : \A k \in 1..n : en[j] < k /\ R[en[j]] => ~B[k]
  PROVE  LET k == Found(n, K, st, en, B, R) IN
         k \in 0..n /\ \A i \in 1..n : B[i] <=> i <= k
<1> DEFINE Clip(j) == ClipAt(n, en, j)
           deciding == Deciding(n, K, st, en, B, R)
           first == Min(deciding)
           found == Found(n, K, st, en, B, R)
           Ends(k) == k \in 0..n /\ \A i \in 1..n : B[i] <=> i <= k
<1>1. \A j \in 1..K : /\ st[j] \in Nat /\ en[j] \in Nat
                      /\ Clip(j) \in {n, en[j]} /\ Clip(j) <= n /\ Clip(j) <= en[j]
  <2> SUFFICES ASSUME NEW j \in 1..K
               PROVE  /\ st[j] \in Nat /\ en[j] \in Nat
                      /\ Clip(j) \in {n, en[j]} /\ Clip(j) <= n /\ Clip(j) <= en[j]
    OBVIOUS
  <2> DEFINE e == en[j]
  <2>1. st[j] \in Nat /\ e \in Nat /\ e \in Int /\ n \in Int
    OBVIOUS
  <2> HIDE DEF e
  <2>2. Min({n, e}) \in {n, e} /\ Min({n, e}) <= n /\ Min({n, e}) <= e
    BY <2>1, MinOfTwo
  <2>3. QED
    BY <2>1, <2>2 DEF e, ClipAt
<1> HIDE DEF Clip
<1>2. \A j \in 1..K : Clip(j) \in Nat
  BY <1>1
<1>0. deciding = {j \in 1..K : st[j] <= n /\ (~B[st[j]] \/ R[Clip(j)])}
  BY DEF Deciding, Clip
<1> HIDE DEF deciding
<1>3. CASE deciding = {}
  <2> DEFINE held == {j \in 1..K : st[j] <= n}
  <2>1. PICK g \in held : \A j \in held : g >= j
    <3>1. held \in SUBSET Int /\ held # {}
      OBVIOUS
    <3>2. IsFiniteSet(held)
      <4>1. held \in SUBSET (1..K) /\ IsFiniteSet(1..K)
        BY FS_Interval
      <4> HIDE DEF held
      <4>2. QED
        BY <4>1, FS_Subset
    <3> HIDE DEF held
    <3>3. QED
      BY <3>1, <3>2, GreatestExists
  <2>2. en[g] >= n
    <3>1. CASE g = K
      BY <3>1
    <3>2. CASE g # K
      <4>1. g + 1 \in 1..K
        BY <2>1, <3>2
      <4>2. st[g + 1] = en[g] + 1
        <5>1. g + 1 > 1 /\ g + 1 - 1 = g
          BY <2>1
        <5>2. QED
          BY <4>1, <5>1
      <4>3. ~(st[g + 1] <= n)
        BY <2>1, <4>1
      <4>4. QED
        BY <1>1, <2>1, <4>1, <4>2, <4>3
    <3>3. QED
      BY <3>1, <3>2
  <2>3. Clip(g) = n
    BY <1>1, <2>1, <2>2
  <2>4. B[st[g]] /\ ~R[n]
    BY <1>0, <1>3, <2>1, <2>3
  <2>5. B[n]
    BY <2>4
  <2>6. Ends(n)
    BY <2>5
  <2>7. QED
    BY <1>3, <2>6 DEF Found, deciding
<1>4. CASE deciding # {}
  <2> DEFINE j == first
  <2>1. /\ j \in 1..K /\ st[j] <= n /\ (~B[st[j]] \/ R[Clip(j)])
        /\ \A d \in deciding : j <= d
    <3>1. deciding \in SUBSET Int /\ deciding \in SUBSET (1..K)
      BY <1>0
    <3>2. IsFiniteSet(deciding)
      <4>1. IsFiniteSet(1..K)
        BY FS_Interval
      <4>2. QED
        BY <3>1, <4>1, FS_Subset
    <3>3. \E d \in deciding : \A k \in deciding : d <= k
      BY <1>4, <3>1, <3>2, LeastExists
    <3>4. Min(deciding) \in deciding /\ \A k \in deciding : Min(deciding) <= k
      BY <3>3 DEF Min
    <3>5. j \in deciding /\ \A k \in deciding : j <= k
      BY <3>4
    <3> HIDE DEF j
    <3>6. QED
      BY <1>0, <3>5
  <2> HIDE DEF j
  <2>2. st[j] \in Nat /\ 1 <= st[j]
    <3>1. CASE j = 1
      BY <2>1, <3>1
    <3>2. CASE j # 1
      <4>1. j - 1 \in 1..K /\ j > 1
        BY <2>1, <3>2
      <4>2. QED
        BY <1>1, <2>1, <4>1
    <3>3. QED
      BY <3>1, <3>2
  <2>3. Clip(j) \in Nat /\ Clip(j) <= n /\ st[j] <= Clip(j) /\ (Clip(j) < n => Clip(j) = en[j])
    BY <1>1, <2>1
  <2> DEFINE a == st[j]
             c == Clip(j)
             D == {i \in a..c : B[i]}
  <2>4. /\ Cardinality(D) \in Nat /\ a + Cardinality(D) - 1 <= c
        /\ \A i \in a..c : i \in D <=> i <= a + Cardinality(D) - 1
    <3>1. D \in SUBSET (a..c) /\ \A k \in D : \A i \in a..c : i < k => i \in D
      <4>1. \A i \in a..c : i \in 1..n
        BY <2>2, <2>3
      <4> HIDE DEF a, c
      <4>2. QED
        BY <4>1
    <3>2. a \in Int /\ c \in Int /\ a <= c + 1
      BY <2>2, <2>3
    <3> HIDE DEF a, c, D
    <3>3. QED
      BY <3>1, <3>2, InitialPart
  <2>5. \A i \in 1..n : i < a => B[i]
    <3> SUFFICES ASSUME NEW i \in 1..n, i < a PROVE B[i]
      OBVIOUS
    <3>1. j # 1
      BY <2>2
    <3> DEFINE p == j - 1
    <3>2. p \in 1..K /\ p < j /\ j > 1
      BY <2>1, <3>1
    <3>3. a = en[p] + 1
      BY <2>1, <3>2
    <3>4. st[p] \in Nat /\ en[p] \in Nat /\ st[p] <= en[p] /\ en[p] < n
      BY <1>1, <2>1, <3>2, <3>3
    <3>5. p \notin deciding
      <4>1. p \in deciding => j <= p
        BY <2>1
      <4>2. QED
        BY <2>1, <3>2, <4>1
    <3>6. ~R[Clip(p)]
      BY <1>0, <3>2, <3>4, <3>5
    <3>7. Clip(p) = en[p]
      BY <1>1, <3>2, <3>4
    <3>8. en[p] \in 1..n /\ i <= en[p]
      BY <3>3, <3>4
    <3>9. B[en[p]]
      BY <3>6, <3>7, <3>8
    <3>10. QED
      BY <3>8, <3>9
  <2>6. \A i \in 1..n : i > c => ~B[i]
    <3> SUFFICES ASSUME NEW i \in 1..n, i > c PROVE ~B[i]
      OBVIOUS
    <3>1. c = en[j] /\ a \in 1..n /\ a < i
      BY <2>1, <2>2, <2>3
    <3>2. CASE ~B[a]
      BY <3>1, <3>2
    <3>3. CASE R[c]
      BY <2>1, <3>1, <3>3
    <3>4. QED
      BY <2>1, <3>2, <3>3
  <2>7. found = a - 1 + Cardinality(D)
    BY <1>4 DEF j, Found, PartOf, deciding, Clip
  <2> DEFINE k == Cardinality(D)
  <2>8. a \in Nat /\ c \in Nat /\ k \in Nat /\ 1 <= a /\ c <= n /\ a + k - 1 <= c
    BY <2>2, <2>3, <2>4
  <2>9. \A i \in a..c : B[i] <=> i <= a + k - 1
    BY <2>4
  <2> HIDE DEF a, c, D, k
  <2>10. Ends(a - 1 + k)
    <3>1. a - 1 + k \in 0..n /\ a - 1 + k = a + k - 1
      BY <2>8
    <3>2. ASSUME NEW i \in 1..n PROVE B[i] <=> i <= a - 1 + k
      <4>1. CASE i < a
        BY <2>5, <2>8, <4>1
      <4>2. CASE i > c
        BY <2>6, <2>8, <4>2
      <4>3. CASE i \in a..c
        BY <2>8, <2>9, <4>3
      <4>4. QED
        BY <2>8, <4>1, <4>2, <4>3
    <3>3. QED
      BY <3>1, <3>2
  <2>11. QED
    BY <2>7, <2>10 DEF k
<1>5. Ends(found)
  BY <1>3, <1>4
<1>6. QED
  BY <1>5

\* The spans of the source of a variable that has samples: no sample is outside.
SpansHold(m, v, Sp, n) ==
    /\ n \in Nat \ {0} /\ Len(Sp) \in Nat \ {0} /\ DOMAIN Sp = 1..Len(Sp)
    /\ Sp[1].start = 1 /\ Sp[Len(Sp)].end >= n
    /\ \A j \in 1..Len(Sp) :
          /\ Sp[j].start \in Nat /\ Sp[j].end \in Nat
          /\ 1 <= Sp[j].start /\ Sp[j].start <= Sp[j].end
          /\ \A i \in Sp[j].start .. Sp[j].end : LabelOf(m, v, i) = Sp[j].session
          /\ j > 1 => /\ Sp[j].start = Sp[j - 1].end + 1
                      /\ Sp[j].session # Sp[j - 1].session

LEMMA SpansHoldSamples ==
  ASSUME NEW m, Sound(m), NEW v \in Vars, Count(m, v) > 0
  PROVE  SpansHold(m, v, m.sources[m.vars[v].src].spans, Count(m, v))
<1> DEFINE s == m.vars[v].src
           b == m.sources[s]
           Sp == b.spans
           n == Count(m, v)
<1>1. m \in Models /\ n \in Nat /\ n > 0
  BY CountFacts DEF Sound
<1>2. s \in Sources /\ \A i \in 1..n : i \in DOMAIN b.stamps
  BY <1>1, CountFacts
<1>3. b \in Buckets /\ SpansDivide(b)
  BY <1>1, <1>2, ModelFacts DEF Sound
<1> HIDE DEF b, n
<1>4. b.stamps \in Seq(Stamps) /\ Sp \in Seq(Spans)
  BY <1>3 DEF Buckets
<1>5. /\ Len(b.stamps) \in Nat /\ DOMAIN b.stamps = 1..Len(b.stamps)
      /\ Len(Sp) \in Nat /\ DOMAIN Sp = 1..Len(Sp)
  BY <1>4, LenProperties
<1>6. n <= Len(b.stamps)
  <2>1. n \in 1..n
    BY <1>1
  <2>2. QED
    BY <1>2, <1>5, <2>1
<1>7. b.stamps # <<>>
  BY <1>1, <1>6
<1>8. Sp # <<>>
  BY <1>3, <1>7 DEF SpansDivide
<1>9. Len(Sp) # 0
  BY <1>4, <1>8, EmptySeq
<1>10. Sp[1].start = 1 /\ Sp[Len(Sp)].end = Len(b.stamps)
  BY <1>3, <1>8 DEF SpansDivide
<1>11. \A j \in 1..Len(Sp) :
          /\ 1 <= Sp[j].start /\ Sp[j].start <= Sp[j].end
          /\ \A i \in Sp[j].start .. Sp[j].end : b.stamps[i].session = Sp[j].session
          /\ j > 1 => /\ Sp[j].start = Sp[j - 1].end + 1
                      /\ Sp[j].session # Sp[j - 1].session
  BY <1>3, <1>5 DEF SpansDivide
<1>12. \A j \in 1..Len(Sp) : Sp[j].start \in Nat /\ Sp[j].end \in Nat
  <2>1. \A j \in 1..Len(Sp) : Sp[j] \in Spans
    BY <1>4, ElementOfSeq
  <2> HIDE DEF Sp
  <2>2. QED
    BY <2>1 DEF Spans
<1>13. \A i : LabelOf(m, v, i) = b.stamps[i].session
  BY DEF LabelOf, b
<1>14. Sp = m.sources[m.vars[v].src].spans
  BY DEF b
<1> HIDE DEF Sp, s
<1>15. SpansHold(m, v, Sp, n)
  <2>1. /\ n \in Nat \ {0} /\ Len(Sp) \in Nat \ {0} /\ DOMAIN Sp = 1..Len(Sp)
        /\ Sp[1].start = 1 /\ Sp[Len(Sp)].end >= n
    BY <1>1, <1>5, <1>6, <1>9, <1>10
  <2>2. ASSUME NEW j \in 1..Len(Sp)
        PROVE  \A i \in Sp[j].start .. Sp[j].end : LabelOf(m, v, i) = Sp[j].session
    BY <1>11, <1>13
  <2>3. QED
    BY <1>11, <1>12, <2>1, <2>2 DEF SpansHold
<1>16. QED
  BY <1>14, <1>15 DEF n

\* How many samples come before a target: bisection finds where they end.
LEMMA InsertionCounts ==
  ASSUME NEW m, Sound(m), NEW v \in Vars, Count(m, v) > 0, Sorted(m, v),
         NEW t \in Int, NEW right \in BOOLEAN
  PROVE  LET k == InsertionIndex(m, v, t, right) IN
         k \in 0..Count(m, v) /\ \A i \in 1..Count(m, v) : Earlier(m, v, i, t, right) <=> i <= k
<1> DEFINE s == m.vars[v].src
           Sp == m.sources[s].spans
           n == Count(m, v)
           K == Len(Sp)
           st == [j \in 1..K |-> Sp[j].start]
           en == [j \in 1..K |-> Sp[j].end]
           B == [i \in 1..n |-> Earlier(m, v, i, t, right)]
           R == [i \in 1..n |-> t <= At(m, v, i)]
           deciding == {j \in DOMAIN Sp :
                          /\ Sp[j].start <= n
                          /\ \/ ~Earlier(m, v, Sp[j].start, t, right)
                             \/ t <= At(m, v, Min({n, Sp[j].end}))}
           part(j) == {i \in Sp[j].start .. Min({n, Sp[j].end}) : Earlier(m, v, i, t, right)}
           found == IF deciding = {} THEN n
                    ELSE (Sp[Min(deciding)].start - 1) + Cardinality(part(Min(deciding)))
<1>1. InsertionIndex(m, v, t, right) = found
  BY DEF InsertionIndex, Earlier, At
<1>2. /\ n \in Nat \ {0} /\ K \in Nat \ {0} /\ DOMAIN Sp = 1..K
      /\ Sp[1].start = 1 /\ Sp[K].end >= n
      /\ \A j \in 1..K :
            /\ Sp[j].start \in Nat /\ Sp[j].end \in Nat
            /\ 1 <= Sp[j].start /\ Sp[j].start <= Sp[j].end
            /\ \A i \in Sp[j].start .. Sp[j].end : LabelOf(m, v, i) = Sp[j].session
            /\ j > 1 => /\ Sp[j].start = Sp[j - 1].end + 1
                        /\ Sp[j].session # Sp[j - 1].session
  <2>1. SpansHold(m, v, Sp, n)
    BY SpansHoldSamples
  <2> HIDE DEF Sp, n
  <2>2. QED
    BY <2>1 DEF SpansHold
<1>3. \A i \in 1..n : At(m, v, i) \in Int
  BY TimesAreNumbers DEF Sound
<1>4. \A i, j \in 1..n : i < j =>
        /\ At(m, v, i) <= At(m, v, j)
        /\ LabelOf(m, v, i) # LabelOf(m, v, j) => At(m, v, i) < At(m, v, j)
  BY DEF Sorted
<1> HIDE DEF Sp, n, K
<1>5. /\ st \in [1..K -> Nat] /\ en \in [1..K -> Nat] /\ st[1] = 1 /\ en[K] >= n
      /\ \A j \in 1..K : st[j] <= en[j]
      /\ \A j \in 1..K : j > 1 => st[j] = en[j - 1] + 1
  BY <1>2
<1>6. B \in [1..n -> BOOLEAN] /\ R \in [1..n -> BOOLEAN]
  <2>1. \A i \in 1..n : Earlier(m, v, i, t, right) \in BOOLEAN /\ (t <= At(m, v, i)) \in BOOLEAN
    BY <1>3 DEF Earlier
  <2>2. QED
    BY <2>1
<1>7. \A i, k \in 1..n : i < k /\ B[k] => B[i]
  BY <1>3, <1>4 DEF Earlier
<1>8. \A i \in 1..n : R[i] \/ B[i]
  <2> SUFFICES ASSUME NEW i \in 1..n PROVE R[i] \/ B[i]
    OBVIOUS
  <2>1. t <= At(m, v, i) \/ At(m, v, i) < t
    BY <1>3
  <2>2. B[i] = Earlier(m, v, i, t, right) /\ R[i] = (t <= At(m, v, i))
    OBVIOUS
  <2> HIDE DEF B, R
  <2>3. QED
    BY <2>1, <2>2 DEF Earlier
<1>9. \A j \in 1..K : \A k \in 1..n : en[j] < k /\ R[en[j]] => ~B[k]
  <2> SUFFICES ASSUME NEW j \in 1..K, NEW k \in 1..n, Sp[j].end < k, R[Sp[j].end] PROVE ~B[k]
    OBVIOUS
  <2> DEFINE e == Sp[j].end
  <2>1. e \in 1..n /\ e < n
    <3>1. e \in Nat /\ Sp[j].start \in Nat /\ 1 <= Sp[j].start /\ Sp[j].start <= e
      BY <1>2
    <3>2. e < k
      OBVIOUS
    <3> HIDE DEF e, B, R
    <3>3. QED
      BY <1>2, <3>1, <3>2
  <2>2. j + 1 \in 1..K
    <3>1. j # K
      BY <1>2, <2>1
    <3>2. QED
      BY <1>2, <3>1
  <2>3. /\ Sp[j + 1].start = e + 1 /\ Sp[j + 1].session # Sp[j].session
        /\ LabelOf(m, v, e) = Sp[j].session
    <3>1. j + 1 > 1 /\ (j + 1) - 1 = j
      OBVIOUS
    <3>2. e \in Sp[j].start .. Sp[j].end
      BY <1>2
    <3>3. Sp[j + 1].start = e + 1 /\ Sp[j + 1].session # Sp[j].session
      BY <1>2, <2>2, <3>1
    <3>4. LabelOf(m, v, e) = Sp[j].session
      BY <1>2, <3>2
    <3>5. QED
      BY <3>3, <3>4
  <2>4. e + 1 \in 1..n /\ e + 1 <= k /\ LabelOf(m, v, e + 1) = Sp[j + 1].session
    <3>1. e + 1 \in Sp[j + 1].start .. Sp[j + 1].end
      BY <1>2, <2>1, <2>2, <2>3
    <3>2. LabelOf(m, v, e + 1) = Sp[j + 1].session
      BY <1>2, <2>2, <3>1
    <3>3. e + 1 \in 1..n /\ e + 1 <= k
      BY <1>2, <2>1
    <3>4. QED
      BY <3>2, <3>3
  <2>5. t <= At(m, v, e)
    BY <2>1
  <2> HIDE DEF e
  <2>6. At(m, v, e) < At(m, v, e + 1)
    BY <1>4, <2>1, <2>3, <2>4
  <2>7. At(m, v, e + 1) <= At(m, v, k)
    <3>1. CASE e + 1 = k
      BY <1>3, <2>4, <3>1
    <3>2. CASE e + 1 # k
      BY <1>4, <2>1, <2>4, <3>2
    <3>3. QED
      BY <3>1, <3>2
  <2>8. t < At(m, v, k)
    BY <1>3, <2>1, <2>4, <2>5, <2>6, <2>7
  <2>9. ~Earlier(m, v, k, t, right)
    BY <1>3, <2>8 DEF Earlier
  <2>10. QED
    BY <2>9
<1> HIDE DEF st, en, B, R
<1>10. LET k == Found(n, K, st, en, B, R) IN k \in 0..n /\ \A i \in 1..n : B[i] <=> i <= k
  BY <1>2, <1>5, <1>6, <1>7, <1>8, <1>9, SearchOfSpans
<1>11. \A j \in 1..K : Sp[j].start <= n =>
         /\ st[j] = Sp[j].start /\ ClipAt(n, en, j) = Min({n, Sp[j].end})
         /\ Sp[j].start \in 1..n /\ Min({n, Sp[j].end}) \in 1..n
  <2> SUFFICES ASSUME NEW j \in 1..K, Sp[j].start <= n
               PROVE  /\ st[j] = Sp[j].start /\ ClipAt(n, en, j) = Min({n, Sp[j].end})
                      /\ Sp[j].start \in 1..n /\ Min({n, Sp[j].end}) \in 1..n
    OBVIOUS
  <2> DEFINE e == Sp[j].end
  <2>1. en[j] = e /\ st[j] = Sp[j].start
    BY DEF en, st
  <2>2. Sp[j].start \in 1..n /\ e \in Nat /\ 1 <= e /\ e \in Int /\ n \in Int /\ 1 <= n
    BY <1>2
  <2> HIDE DEF e
  <2>3. Min({n, e}) \in {n, e} /\ Min({n, e}) <= n
    BY <2>2, MinOfTwo
  <2>4. Min({n, e}) \in 1..n
    BY <2>2, <2>3
  <2>5. QED
    BY <2>1, <2>2, <2>4 DEF e, ClipAt
<1>12. \A i \in 1..n : B[i] = Earlier(m, v, i, t, right) /\ R[i] = (t <= At(m, v, i))
  BY DEF B, R
<1>13. deciding = Deciding(n, K, st, en, B, R)
  <2> DEFINE D1(j) == Sp[j].start <= n /\ (\/ ~Earlier(m, v, Sp[j].start, t, right)
                                         \/ t <= At(m, v, Min({n, Sp[j].end})))
             D2(j) == st[j] <= n /\ (~B[st[j]] \/ R[ClipAt(n, en, j)])
  <2>1. ASSUME NEW j \in 1..K PROVE D1(j) <=> D2(j)
    <3>1. st[j] = Sp[j].start
      BY DEF st
    <3>2. CASE Sp[j].start <= n
      <4>1. /\ B[st[j]] = Earlier(m, v, Sp[j].start, t, right)
            /\ R[ClipAt(n, en, j)] = (t <= At(m, v, Min({n, Sp[j].end})))
        BY <1>11, <1>12, <3>2
      <4>2. QED
        BY <3>1, <3>2, <4>1
    <3>3. QED
      BY <3>1, <3>2
  <2>2. deciding = {j \in 1..K : D1(j)} /\ Deciding(n, K, st, en, B, R) = {j \in 1..K : D2(j)}
    BY <1>2 DEF Deciding
  <2> HIDE DEF D1, D2
  <2>3. QED
    BY <2>1, <2>2
<1>14. \A j \in deciding : Sp[j].start = st[j] /\ part(j) = PartOf(n, st, en, B, j)
  <2> SUFFICES ASSUME NEW j \in deciding
               PROVE  Sp[j].start = st[j] /\ part(j) = PartOf(n, st, en, B, j)
    OBVIOUS
  <2>1. j \in 1..K /\ Sp[j].start <= n
    BY <1>2
  <2>2. /\ st[j] = Sp[j].start /\ ClipAt(n, en, j) = Min({n, Sp[j].end})
        /\ Sp[j].start \in 1..n /\ Min({n, Sp[j].end}) \in 1..n
    BY <1>11, <2>1
  <2> DEFINE a == Sp[j].start
             c == Min({n, Sp[j].end})
  <2>3. \A i \in a..c : B[i] = Earlier(m, v, i, t, right)
    <3>1. \A i \in a..c : i \in 1..n
      <4>1. a \in 1..n /\ c \in 1..n
        BY <2>2
      <4> HIDE DEF a, c
      <4>2. QED
        BY <1>2, <4>1
    <3>2. QED
      BY <1>12, <3>1
  <2>4. part(j) = {i \in a..c : Earlier(m, v, i, t, right)}
    OBVIOUS
  <2>5. PartOf(n, st, en, B, j) = {i \in a..c : B[i]}
    BY <2>2 DEF PartOf
  <2> HIDE DEF a, c, part
  <2>6. part(j) = PartOf(n, st, en, B, j)
    BY <2>3, <2>4, <2>5
  <2>7. QED
    BY <2>2, <2>6
<1>15. deciding # {} => Min(deciding) \in deciding
  <2>1. deciding \in SUBSET Int /\ deciding \in SUBSET (1..K)
    BY <1>2
  <2>2. IsFiniteSet(deciding)
    <3>1. IsFiniteSet(1..K)
      BY <1>2, FS_Interval
    <3> HIDE DEF deciding
    <3>2. QED
      BY <2>1, <3>1, FS_Subset
  <2> HIDE DEF deciding
  <2>3. deciding # {} => \E d \in deciding : \A k \in deciding : d <= k
    BY <2>1, <2>2, LeastExists
  <2>4. QED
    BY <2>3 DEF Min
<1> HIDE DEF deciding, part
<1>16. found = Found(n, K, st, en, B, R)
  BY <1>13, <1>14, <1>15 DEF Found
<1> HIDE DEF found
<1>17. QED
  BY <1>1, <1>10, <1>12, <1>16 DEF n

LEMMA InsertionIsCount ==
  ASSUME NEW m, Sound(m), NEW v \in Vars, Count(m, v) > 0, Sorted(m, v), NEW t \in Int
  PROVE  /\ InsertionIndex(m, v, t, FALSE) = Before(Series(m, v), t)
         /\ InsertionIndex(m, v, t, TRUE) = UpTo(Series(m, v), t)
<1> DEFINE s == Series(m, v)
           n == Count(m, v)
           low == InsertionIndex(m, v, t, FALSE)
           high == InsertionIndex(m, v, t, TRUE)
           early == {i \in DOMAIN s : s[i].at < t}
           upto == {i \in DOMAIN s : s[i].at <= t}
<1>1. m \in Models
  BY DEF Sound
<1>2. n \in Nat
  BY <1>1, CountFacts
<1>3. DOMAIN s = 1..n /\ \A i \in 1..n : s[i].at = At(m, v, i)
  <2> DEFINE x(i) == [at |-> At(m, v, i), value |-> m.vars[v].values[i]]
  <2>1. DOMAIN s = 1..n /\ \A i \in 1..n : s[i] = x(i)
    BY <1>1, SeriesOfTimes
  <2>2. \A i \in 1..n : x(i).at = At(m, v, i)
    OBVIOUS
  <2> HIDE DEF s, n, x
  <2>3. QED
    BY <2>1, <2>2
<1>4. \A i \in 1..n : At(m, v, i) \in Int
  BY <1>1, TimesAreNumbers
<1>5. low \in 0..n /\ \A i \in 1..n : Earlier(m, v, i, t, FALSE) <=> i <= low
  BY InsertionCounts
<1>6. high \in 0..n /\ \A i \in 1..n : Earlier(m, v, i, t, TRUE) <=> i <= high
  BY InsertionCounts
<1> HIDE DEF s, n, low, high
<1>7. early = 1..low
  <2>1. \A i \in 1..n : s[i].at < t <=> i <= low
    BY <1>3, <1>4, <1>5 DEF Earlier
  <2>2. QED
    BY <1>2, <1>3, <1>5, <2>1
<1>8. upto = 1..high
  <2>1. \A i \in 1..n : s[i].at <= t <=> i <= high
    BY <1>3, <1>4, <1>6 DEF Earlier
  <2>2. QED
    BY <1>2, <1>3, <1>6, <2>1
<1>9. \A k \in 0..n : Cardinality(1..k) = k
  <2> SUFFICES ASSUME NEW k \in 0..n PROVE Cardinality(1..k) = k
    OBVIOUS
  <2>1. k \in Nat /\ 1 \in Int /\ k \in Int
    BY <1>2
  <2>2. Cardinality(1..k) = IF 1 > k THEN 0 ELSE k - 1 + 1
    BY <2>1, FS_Interval
  <2>3. QED
    BY <2>1, <2>2
<1>10. Before(s, t) = low /\ UpTo(s, t) = high
  BY <1>5, <1>6, <1>7, <1>8, <1>9 DEF Before, UpTo
<1>11. QED
  BY <1>10 DEF s, low, high

\* A slice of the storage is that part of the series.
LEMMA SliceIsPart ==
  ASSUME NEW m \in Models, NEW v \in Vars, NEW from \in 1..(Count(m, v) + 1),
         NEW to \in 0..Count(m, v)
  PROVE  Slice(m, v, from, to) = SubSeq(Series(m, v), from, to)
<1> DEFINE s == Series(m, v)
           n == Count(m, v)
           X == [at : Int, value : Instant]
           size == to - from + 1
           x(i) == [at |-> At(m, v, i), value |-> m.vars[v].values[i]]
           k == IF from <= to THEN size ELSE 0
           w == Slice(m, v, from, to)
<1>1. n \in Nat /\ s \in Seq(X) /\ DOMAIN s = 1..n /\ \A i \in 1..n : s[i] = x(i)
  BY SeriesOfTimes
<1>2. n \in Nat /\ from \in Nat /\ 1 <= from /\ to \in Nat /\ to <= n
  BY <1>1
<1>3. \A i \in 1..n : s[i] \in X
  <2>1. Len(s) = n
    BY SeriesOfTimes
  <2> HIDE DEF s, n, X
  <2>2. QED
    BY <1>1, <2>1, ElementOfSeq
<1>4. w = [i \in 1..Max({0, size}) |-> x(from + i - 1)]
  BY DEF Slice, At
<1>5. size \in Int /\ k \in Nat /\ Max({0, size}) = k
  <2>1. size \in Int /\ 0 \in Int /\ (from <= to => size >= 0) /\ (~(from <= to) => size <= 0)
    BY <1>2
  <2> HIDE DEF size
  <2>2. (0 >= size => Max({0, size}) = 0) /\ (size >= 0 => Max({0, size}) = size)
    BY <2>1, MaxOfTwo
  <2>3. QED
    BY <2>1, <2>2
<1>6. \A i \in 1..k : from + i - 1 \in 1..n
  BY <1>2
<1> HIDE DEF s, n, X, x, w
<1>7. w = [i \in 1..k |-> x(from + i - 1)]
  BY <1>4, <1>5
<1>8. \A i \in 1..k : w[i] = s[from + i - 1] /\ w[i] \in X
  BY <1>1, <1>3, <1>6, <1>7
<1>9. w \in Seq(X) /\ Len(w) = k
  <2>1. w \in [1..k -> X]
    BY <1>7, <1>8
  <2>2. k \in Nat
    BY <1>5
  <2> HIDE DEF k
  <2>3. w \in Seq(X)
    BY <2>1, <2>2
  <2>4. QED
    BY <2>1, <2>2, <2>3, LenProperties
<1>10. /\ SubSeq(s, from, to) \in Seq(X) /\ Len(SubSeq(s, from, to)) = k
       /\ \A i \in 1..k : SubSeq(s, from, to)[i] = s[from + i - 1]
  <2>1. \A i \in from..to : s[i] \in X
    BY <1>2, <1>3
  <2>2. from \in Int /\ to \in Int
    BY <1>2
  <2>3. /\ SubSeq(s, from, to) \in Seq(X)
        /\ Len(SubSeq(s, from, to)) = IF from <= to THEN to - from + 1 ELSE 0
        /\ \A i \in 1 .. (to - from + 1) : SubSeq(s, from, to)[i] = s[from + i - 1]
    BY <2>1, <2>2, SubSeqProperties
  <2>4. QED
    BY <2>2, <2>3
<1> HIDE DEF k
<1>11. w = SubSeq(s, from, to)
  BY <1>8, <1>9, <1>10, SeqEqual
<1>12. QED
  BY <1>11 DEF w, s

\* The parts of WindowsAreExact, for a variable and an instant.
TailIsExact(m, v, k) == LET s == Series(m, v) IN
    SeriesTail(m, v, k) = SubSeq(s, Max({0, Len(s) - k}) + 1, Len(s))
BetweenIsExact(m, v, a, b, k) == LET s == Series(m, v) IN
    SeriesBetween(m, v, a, b, k) =
       SubSeq(s, Max({0, Before(s, a) - k}) + 1, Min({Len(s), UpTo(s, b) + k}))
EndingIsExact(m, v, a) == LET s == Series(m, v) IN
    SeriesWindowEndingAt(m, v, a, 1) = SubSeq(s, Max({1, UpTo(s, a)}), UpTo(s, a))
NearestIsExact(m, v, a) == LET s == Series(m, v) IN
    \A i \in DOMAIN s : Distance(NearestSample(m, v, a)[1].at, a) <= Distance(s[i].at, a)

LEMMA TailOfSeries ==
  ASSUME NEW m \in Models, NEW v \in Vars, NEW k \in Nat
  PROVE  TailIsExact(m, v, k)
<1> DEFINE s == Series(m, v)
           n == Count(m, v)
           from == Max({0, n - k}) + 1
<1>1. n \in Nat /\ Len(s) = n
  BY SeriesOfTimes
<1>2. from \in 1..(n + 1) /\ (k = 0 => from = n + 1)
  <2> DEFINE x == n - k
  <2>1. x \in Int /\ x <= n /\ 0 \in Int /\ (k = 0 => x = n)
    BY <1>1
  <2> HIDE DEF x
  <2>2. Max({0, x}) \in {0, x} /\ Max({0, x}) >= 0 /\ (x >= 0 => Max({0, x}) = x)
    BY <2>1, MaxOfTwo
  <2>3. QED
    BY <1>1, <2>1, <2>2 DEF x
<1> HIDE DEF from
<1>3. SeriesTail(m, v, k) = IF k <= 0 THEN <<>> ELSE Slice(m, v, from, n)
  BY DEF SeriesTail, from
<1>4. TailIsExact(m, v, k) <=> SeriesTail(m, v, k) = SubSeq(s, from, n)
  BY <1>1 DEF TailIsExact, from
<1>5. Slice(m, v, from, n) = SubSeq(s, from, n)
  BY <1>1, <1>2, SliceIsPart
<1> HIDE DEF s, n
<1>6. CASE k = 0
  <2>1. from \in Int /\ n \in Int /\ n < from
    BY <1>1, <1>2, <1>6
  <2>2. SubSeq(s, from, n) = <<>>
    BY <2>1, SubSeqEmpty
  <2>3. QED
    BY <1>3, <1>4, <1>6, <2>2
<1>7. CASE k # 0
  <2>1. ~(k <= 0)
    BY <1>7
  <2>2. QED
    BY <1>3, <1>4, <1>5, <2>1
<1>8. QED
  BY <1>6, <1>7

LEMMA BetweenOfSeries ==
  ASSUME NEW m, Sound(m), NEW v \in Vars, Count(m, v) > 0, Sorted(m, v),
         NEW a \in Int, NEW b \in Int, NEW k \in Nat
  PROVE  BetweenIsExact(m, v, a, b, k)
<1> DEFINE s == Series(m, v)
           n == Count(m, v)
           low == InsertionIndex(m, v, a, FALSE)
           high == InsertionIndex(m, v, b, TRUE)
           from == Max({0, low - k}) + 1
           to == Min({n, high + k})
<1>1. m \in Models /\ n \in Nat /\ Len(s) = n
  BY SeriesOfTimes DEF Sound
<1>2. low \in 0..n /\ high \in 0..n
  <2>1. low \in 0..n
    BY InsertionCounts
  <2>2. high \in 0..n
    BY InsertionCounts
  <2>3. QED
    BY <2>1, <2>2
<1>3. low = Before(s, a) /\ high = UpTo(s, b)
  BY InsertionIsCount
<1>4. SeriesBetween(m, v, a, b, k) = Slice(m, v, from, to)
  <2>1. n # 0
    BY <1>1
  <2>2. QED
    BY <2>1 DEF SeriesBetween
<1> HIDE DEF low, high
<1>5. from \in 1..(n + 1)
  <2> DEFINE x == low - k
  <2>1. x \in Int /\ x <= n /\ 0 \in Int
    BY <1>1, <1>2
  <2> HIDE DEF x
  <2>2. Max({0, x}) \in {0, x} /\ Max({0, x}) >= 0
    BY <2>1, MaxOfTwo
  <2>3. QED
    BY <1>1, <2>1, <2>2 DEF x
<1>6. to \in 0..n
  <2> DEFINE x == high + k
  <2>1. x \in Nat /\ x \in Int /\ n \in Int
    BY <1>1, <1>2
  <2> HIDE DEF x
  <2>2. Min({n, x}) \in {n, x} /\ Min({n, x}) <= n
    BY <2>1, MinOfTwo
  <2>3. QED
    BY <1>1, <2>1, <2>2 DEF x
<1>7. BetweenIsExact(m, v, a, b, k) <=> SeriesBetween(m, v, a, b, k) = SubSeq(s, from, to)
  BY <1>1, <1>3 DEF BetweenIsExact
<1> HIDE DEF from, to
<1>8. Slice(m, v, from, to) = SubSeq(s, from, to)
  BY <1>1, <1>5, <1>6, SliceIsPart
<1>9. QED
  BY <1>4, <1>7, <1>8

LEMMA EndingOfSeries ==
  ASSUME NEW m, Sound(m), NEW v \in Vars, Count(m, v) > 0, Sorted(m, v), NEW a \in Int
  PROVE  EndingIsExact(m, v, a)
<1> DEFINE s == Series(m, v)
           n == Count(m, v)
           high == InsertionIndex(m, v, a, TRUE)
           from == Max({0, high - 1}) + 1
<1>1. m \in Models /\ n \in Nat
  BY SeriesOfTimes DEF Sound
<1>2. high \in 0..n
  BY InsertionCounts
<1>3. high = UpTo(s, a)
  BY InsertionIsCount
<1>4. SeriesWindowEndingAt(m, v, a, 1) = Slice(m, v, from, high)
  <2>1. n # 0 /\ ~(1 <= 0)
    BY <1>1
  <2>2. QED
    BY <2>1 DEF SeriesWindowEndingAt
<1> HIDE DEF high
<1>5. from = Max({1, high}) /\ from \in 1..(n + 1)
  <2> DEFINE x == high - 1
  <2>1. x \in Int /\ high \in Int /\ x + 1 = high /\ 0 \in Int /\ 1 \in Int /\ x < n
    BY <1>1, <1>2
  <2> HIDE DEF x
  <2>2. /\ (0 >= x => Max({0, x}) = 0) /\ (x >= 0 => Max({0, x}) = x)
    BY <2>1, MaxOfTwo
  <2>3. /\ (1 >= high => Max({1, high}) = 1) /\ (high >= 1 => Max({1, high}) = high)
    BY <2>1, MaxOfTwo
  <2>4. from = Max({0, x}) + 1
    BY DEF x
  <2> HIDE DEF from
  <2>5. CASE x >= 0
    BY <1>1, <2>1, <2>2, <2>3, <2>4, <2>5
  <2>6. CASE 0 >= x
    BY <1>1, <2>1, <2>2, <2>3, <2>4, <2>6
  <2>7. QED
    BY <2>1, <2>5, <2>6
<1> HIDE DEF from
<1>6. Slice(m, v, from, high) = SubSeq(s, from, high)
  BY <1>1, <1>2, <1>5, SliceIsPart
<1>7. QED
  BY <1>3, <1>4, <1>5, <1>6 DEF EndingIsExact

LEMMA SliceOfOne ==
  ASSUME NEW m \in Models, NEW v \in Vars, NEW i \in Nat
  PROVE  /\ Slice(m, v, i, i) # <<>> /\ Slice(m, v, i, i)[1].at = At(m, v, i)
         /\ Slice(m, v, i + 1, i) = <<>>
<1> DEFINE x(k) == [at |-> At(m, v, k), value |-> m.vars[v].values[k]]
           one == i - i + 1
           none == i - (i + 1) + 1
           zero == 0
<1>1. /\ Slice(m, v, i, i) = [j \in 1..Max({zero, one}) |-> x(i + j - 1)]
      /\ Slice(m, v, i + 1, i) = [j \in 1..Max({zero, none}) |-> x((i + 1) + j - 1)]
  BY DEF Slice, At
<1>2. one \in Int /\ none \in Int /\ zero \in Int /\ one = 1 /\ none = 0 /\ zero = 0
  OBVIOUS
<1> HIDE DEF one, none, zero
<1>3. Max({zero, one}) = 1 /\ Max({zero, none}) = 0
  <2>1. (one >= zero => Max({zero, one}) = one) /\ (none >= zero => Max({zero, none}) = none)
    BY <1>2, MaxOfTwo
  <2>2. QED
    BY <1>2, <2>1
<1> HIDE DEF x
<1>4. Slice(m, v, i + 1, i) = <<>>
  BY <1>1, <1>3
<1>5. DOMAIN Slice(m, v, i, i) = {1} /\ Slice(m, v, i, i)[1] = x(i)
  <2>1. 1 \in 1..1 /\ i + 1 - 1 = i /\ 1..1 = {1}
    OBVIOUS
  <2>2. QED
    BY <1>1, <1>3, <2>1
<1>6. x(i).at = At(m, v, i)
  BY DEF x
<1>7. Slice(m, v, i, i) # <<>>
  <2>1. DOMAIN <<>> = {}
    OBVIOUS
  <2>2. QED
    BY <1>5, <2>1
<1>8. QED
  BY <1>4, <1>5, <1>6, <1>7

LEMMA NearestOfSeries ==
  ASSUME NEW m, Sound(m), NEW v \in Vars, Count(m, v) > 0, Sorted(m, v), NEW a \in Int
  PROVE  NearestIsExact(m, v, a)
<1> DEFINE s == Series(m, v)
           n == Count(m, v)
           k == InsertionIndex(m, v, a, TRUE)
           before == Slice(m, v, Max({1, k}), k)
           after == Slice(m, v, k + 1, Min({n, k + 1}))
           nearest == NearestSample(m, v, a)[1].at
           at(i) == At(m, v, i)
<1>1. m \in Models /\ n \in Nat /\ n # 0
  BY SeriesOfTimes DEF Sound
<1>2. DOMAIN s = 1..n /\ \A i \in 1..n : s[i].at = at(i)
  <2> DEFINE x(i) == [at |-> At(m, v, i), value |-> m.vars[v].values[i]]
  <2>1. DOMAIN s = 1..n /\ \A i \in 1..n : s[i] = x(i)
    BY <1>1, SeriesOfTimes
  <2>2. \A i \in 1..n : x(i).at = At(m, v, i)
    OBVIOUS
  <2> HIDE DEF s, n, x
  <2>3. QED
    BY <2>1, <2>2
<1>3. \A i \in 1..n : at(i) \in Int
  BY <1>1, TimesAreNumbers
<1>4. k \in 0..n /\ \A i \in 1..n : Earlier(m, v, i, a, TRUE) <=> i <= k
  BY InsertionCounts
<1>5. \A i, j \in 1..n : i < j => at(i) <= at(j)
  BY DEF Sorted
<1>6. BracketingSamples(m, v, a) = <<before, after>>
  BY <1>1 DEF BracketingSamples
<1> DEFINE nearer == before # <<>> /\ (after = <<>>
                        \/ Distance(before[1].at, a) <= Distance(after[1].at, a))
<1>7. NearestSample(m, v, a) = IF nearer THEN before ELSE after
  <2> HIDE DEF before, after
  <2>1. <<before, after>>[1] = before /\ <<before, after>>[2] = after
    OBVIOUS
  <2>2. QED
    BY <1>6, <2>1 DEF NearestSample
<1> HIDE DEF n, k, s, at
<1>8. IF k = 0 THEN before = <<>> ELSE before # <<>> /\ before[1].at = at(k)
  <2>1. k \in Nat /\ k \in Int /\ 1 \in Int
    BY <1>1, <1>4
  <2>2. (1 >= k => Max({1, k}) = 1) /\ (k >= 1 => Max({1, k}) = k)
    BY <2>1, MaxOfTwo
  <2>3. CASE k = 0
    <3> DEFINE i == 0
    <3>1. i \in Nat /\ Max({1, k}) = i + 1 /\ k = i
      BY <2>2, <2>3
    <3> HIDE DEF i
    <3>2. Slice(m, v, i + 1, i) = <<>>
      BY <1>1, <3>1, SliceOfOne
    <3>3. QED
      BY <2>3, <3>1, <3>2
  <2>4. CASE k # 0
    <3>1. Max({1, k}) = k
      BY <2>1, <2>2, <2>4
    <3>2. Slice(m, v, k, k) # <<>> /\ Slice(m, v, k, k)[1].at = At(m, v, k)
      BY <1>1, <2>1, SliceOfOne
    <3>3. QED
      BY <2>4, <3>1, <3>2 DEF at
  <2>5. QED
    BY <2>3, <2>4
<1>9. IF k = n THEN after = <<>> ELSE after # <<>> /\ after[1].at = at(k + 1)
  <2> DEFINE l == k + 1
  <2>1. l \in Nat /\ l \in Int /\ n \in Int
    BY <1>1, <1>4
  <2>2. CASE k = n
    <3>1. Min({n, l}) = n
      <4>1. n <= l
        BY <1>1, <2>2
      <4> HIDE DEF l
      <4>2. Min({n, l}) \in {n, l} /\ Min({n, l}) <= n /\ Min({n, l}) <= l
        BY <2>1, MinOfTwo
      <4>3. QED
        BY <2>1, <4>1, <4>2
    <3>2. Slice(m, v, n + 1, n) = <<>>
      BY <1>1, SliceOfOne
    <3>3. after = <<>>
      BY <2>2, <3>1, <3>2
    <3>4. QED
      BY <2>2, <3>3
  <2>3. CASE k # n
    <3>1. Min({n, l}) = l
      <4>1. l <= n
        BY <1>1, <1>4, <2>3
      <4> HIDE DEF l
      <4>2. Min({n, l}) \in {n, l} /\ Min({n, l}) <= n /\ Min({n, l}) <= l
        BY <2>1, MinOfTwo
      <4>3. QED
        BY <2>1, <4>1, <4>2
    <3> HIDE DEF l
    <3>2. Slice(m, v, l, l) # <<>> /\ Slice(m, v, l, l)[1].at = At(m, v, l)
      BY <1>1, <2>1, SliceOfOne
    <3>3. after = Slice(m, v, l, l)
      BY <3>1 DEF l
    <3> HIDE DEF after
    <3>4. QED
      BY <2>3, <3>2, <3>3 DEF at, l
  <2>4. QED
    BY <2>2, <2>3
<1> HIDE DEF before, after
<1>10. \A i \in 1..n : at(i) <= a <=> i <= k
  <2> SUFFICES ASSUME NEW i \in 1..n PROVE at(i) <= a <=> i <= k
    OBVIOUS
  <2>1. Earlier(m, v, i, a, TRUE) <=> i <= k
    BY <1>4
  <2>2. at(i) \in Int
    BY <1>3
  <2>3. Earlier(m, v, i, a, TRUE) <=> (at(i) < a \/ at(i) = a)
    BY DEF Earlier, at
  <2>4. at(i) <= a <=> (at(i) < a \/ at(i) = a)
    BY <2>2
  <2>5. QED
    BY <2>1, <2>3, <2>4
<1>11. \A x \in Int : Distance(x, a) = (IF x < a THEN a - x ELSE x - a)
  BY DEF Distance
<1>12. ASSUME NEW i \in 1..n PROVE Distance(nearest, a) <= Distance(at(i), a)
  <2> DEFINE D(j) == Distance(at(j), a)
  <2>0. \A j \in 1..n : D(j) = (IF at(j) < a THEN a - at(j) ELSE at(j) - a)
    BY <1>3, <1>11
  <2>1. k # 0 => k \in 1..n /\ at(k) <= a
    BY <1>1, <1>4, <1>10
  <2>2. k # n => (k + 1) \in 1..n /\ at(k + 1) > a
    <3>1. k # n => (k + 1) \in 1..n /\ ~(k + 1 <= k)
      BY <1>1, <1>4
    <3>2. k # n => ~(at(k + 1) <= a) /\ at(k + 1) \in Int
      BY <1>3, <1>10, <3>1
    <3>3. QED
      BY <3>1, <3>2
  <2>3. i <= k => k # 0 /\ at(i) <= at(k) /\ D(k) <= D(i)
    <3>1. SUFFICES ASSUME i <= k PROVE k # 0 /\ at(i) <= at(k) /\ D(k) <= D(i)
      OBVIOUS
    <3>2. k \in 1..n /\ k # 0
      BY <1>1, <1>4, <3>1
    <3>3. at(i) <= at(k) /\ at(i) \in Int /\ at(k) \in Int
      BY <1>3, <1>5, <3>1, <3>2
    <3>4. QED
      BY <2>0, <2>1, <3>2, <3>3
  <2>4. ~(i <= k) => k # n /\ at(k + 1) <= at(i) /\ D(k + 1) <= D(i)
    <3>1. SUFFICES ASSUME ~(i <= k) PROVE k # n /\ at(k + 1) <= at(i) /\ D(k + 1) <= D(i)
      OBVIOUS
    <3>2. k # n /\ (k + 1) \in 1..n /\ (k + 1 = i \/ k + 1 < i)
      BY <1>1, <1>4, <3>1
    <3>3. at(k + 1) <= at(i) /\ at(i) \in Int /\ at(k + 1) \in Int
      BY <1>3, <1>5, <3>2
    <3>4. QED
      BY <2>0, <2>2, <3>2, <3>3
  <2>5. /\ k # 0 => D(k) \in Int
        /\ k # n => D(k + 1) \in Int
        /\ D(i) \in Int
    BY <1>3, <2>0, <2>1, <2>2
  <2>6. Distance(nearest, a) =
          IF k # 0 /\ (k = n \/ D(k) <= D(k + 1)) THEN D(k) ELSE D(k + 1)
    BY <1>1, <1>7, <1>8, <1>9
  <2> HIDE DEF D, nearest
  <2>7. Distance(nearest, a) <= D(i)
    <3>1. CASE i <= k
      <4>1. k # 0 /\ D(k) <= D(i)
        BY <2>3, <3>1
      <4>2. QED
        BY <2>5, <2>6, <4>1
    <3>2. CASE ~(i <= k)
      <4>1. k # n /\ D(k + 1) <= D(i)
        BY <2>4, <3>2
      <4>2. QED
        BY <2>5, <2>6, <4>1
    <3>3. QED
      BY <3>1, <3>2
  <2>8. QED
    BY <2>7 DEF D
<1>13. QED
  BY <1>2, <1>12 DEF NearestIsExact, s

LEMMA BoundsOfSeries ==
  ASSUME NEW m \in Models, \A v \in Vars : Sorted(m, v), NEW v \in Vars,
         NEW i \in 1..Count(m, v)
  PROVE  LET b == TimeBounds(m, Vars) IN b[1] <= At(m, v, i) /\ At(m, v, i) <= b[2]
<1> DEFINE known == {w \in Vars : Count(m, w) > 0}
           first == [w \in known |-> At(m, w, 1)]
           last == [w \in known |-> At(m, w, Count(m, w))]
           firsts == {first[w] : w \in known}
           lasts == {last[w] : w \in known}
           ends == UNION {{At(m, w, 1), At(m, w, Count(m, w))} : w \in known}
<1>1. \A w \in Vars : Count(m, w) \in Nat
  BY CountFacts
<1>2. \A w \in known : 1 \in 1..Count(m, w) /\ Count(m, w) \in 1..Count(m, w)
  BY <1>1
<1>3. v \in known
  BY <1>1
<1>4. TimeBounds(m, Vars) = IF known = {} THEN <<None, None>> ELSE <<Min(ends), Max(ends)>>
  BY DEF TimeBounds, At
<1>5. ends = firsts \cup lasts
  <2>1. /\ firsts = {At(m, w, 1) : w \in known}
        /\ lasts = {At(m, w, Count(m, w)) : w \in known}
    OBVIOUS
  <2> HIDE DEF firsts, lasts, known
  <2>2. QED
    BY <2>1
<1>6. IsFiniteSet(ends)
  <2>1. IsFiniteSet(known)
    <3>1. IsFiniteSet(Vars) /\ known \in SUBSET Vars
      BY CaptureAssumption
    <3> HIDE DEF known
    <3>2. QED
      BY <3>1, FS_Subset
  <2>2. DOMAIN first = known /\ DOMAIN last = known
    OBVIOUS
  <2> HIDE DEF known, first, last
  <2>3. IsFiniteSet(firsts)
    BY <2>1, <2>2, ImageIsFinite
  <2>4. IsFiniteSet(lasts)
    BY <2>1, <2>2, ImageIsFinite
  <2> HIDE DEF firsts, lasts, ends
  <2>5. QED
    BY <1>5, <2>3, <2>4, FS_Union
<1>7. ends \in SUBSET Int
  <2>1. \A w \in known : At(m, w, 1) \in Int /\ At(m, w, Count(m, w)) \in Int
    BY <1>2, TimesAreNumbers
  <2> HIDE DEF known
  <2>2. QED
    BY <2>1
<1>8. At(m, v, 1) \in ends /\ At(m, v, Count(m, v)) \in ends
  BY <1>3
<1> HIDE DEF known, ends
<1>9. \A x \in ends : Min(ends) <= x /\ x <= Max(ends)
  <2>1. ends # {}
    BY <1>8
  <2>2. \E e \in ends : \A x \in ends : e <= x
    BY <1>6, <1>7, <2>1, LeastExists
  <2>3. \E e \in ends : \A x \in ends : e >= x
    BY <1>6, <1>7, <2>1, GreatestExists
  <2>4. Min(ends) \in ends /\ \A x \in ends : Min(ends) <= x
    BY <2>2 DEF Min
  <2>5. Max(ends) \in ends /\ \A x \in ends : Max(ends) >= x
    BY <2>3 DEF Max
  <2>6. QED
    BY <1>7, <2>4, <2>5
<1>10. Min(ends) \in Int /\ Max(ends) \in Int
  <2>1. \E e \in ends : \A x \in ends : e <= x
    BY <1>6, <1>7, <1>8, LeastExists
  <2>2. \E e \in ends : \A x \in ends : e >= x
    BY <1>6, <1>7, <1>8, GreatestExists
  <2>3. Min(ends) \in ends /\ Max(ends) \in ends
    BY <2>1, <2>2 DEF Min, Max
  <2>4. QED
    BY <1>7, <2>3
<1> DEFINE n == Count(m, v)
           low == Min(ends)
           high == Max(ends)
<1>11. n \in Nat /\ 1 \in 1..n /\ n \in 1..n
  BY <1>1
<1>12. \A j \in 1..n : At(m, v, j) \in Int
  BY TimesAreNumbers
<1>13. low <= At(m, v, 1) /\ At(m, v, n) <= high
  BY <1>8, <1>9
<1>14. \A j, k \in 1..n : j < k => At(m, v, j) <= At(m, v, k)
  BY DEF Sorted
<1>15. known # {}
  BY <1>3
<1>16. TimeBounds(m, Vars)[1] = low /\ TimeBounds(m, Vars)[2] = high
  BY <1>4, <1>15
<1>17. low \in Int /\ high \in Int
  BY <1>10
<1> HIDE DEF low, high
<1>18. low <= At(m, v, i) /\ At(m, v, i) <= high
  <2> HIDE DEF n
  <2>0. i \in 1..n /\ (i = 1 \/ 1 < i) /\ (i = n \/ i < n)
    BY <1>11 DEF n
  <2>1. At(m, v, 1) <= At(m, v, i)
    BY <1>11, <1>12, <1>14, <2>0
  <2>2. At(m, v, i) <= At(m, v, n)
    BY <1>11, <1>12, <1>14, <2>0
  <2>3. QED
    BY <1>11, <1>12, <1>13, <1>17, <2>0, <2>1, <2>2
<1>19. QED
  BY <1>16, <1>18

-----------------------------------------------------------------------------
(* The invariant.                                                          *)

\* What is beside the model and the cache.
Beside ==
    /\ schema \in Schemas /\ epoch \in 1..MaxSession
    /\ {ingesting, replay} \subseteq BOOLEAN
    /\ evidence \in SUBSET Observations /\ IsFiniteSet(evidence)
    /\ results \in Seq(Results)
    /\ file # Nothing => file \in Files

Consistent ==
    /\ Sound(model) /\ CacheIsCurrent /\ DOMAIN cache = Vars
    /\ ingesting => Live(model)
    /\ Beside

LEMMA ModelChanges ==
  ASSUME Consistent, NEW m, Sound(m), Tracks(model, m), Becomes(m),
         ingesting' => Live(m), Beside'
  PROVE  Consistent' /\ Keeps(m, model')
<1>1. Sound(model') /\ CacheIsCurrent' /\ (Live(m) => Live(model)') /\ Keeps(m, model')
  BY BecomesCurrent DEF Consistent
<1>2. DOMAIN cache' = Vars
  BY DEF Becomes
<1>3. Sound(model)'
  BY <1>1 DEF Sound, HistoryHolds
<1>4. QED
  BY <1>1, <1>2, <1>3 DEF Consistent

LEMMA InitConsistent == Init => Consistent
<1> SUFFICES ASSUME Init PROVE Consistent
  OBVIOUS
<1>1. Sound(model) /\ Live(model)
  BY EmptyIsSound DEF Init
<1>2. CacheIsCurrent /\ DOMAIN cache = Vars
  BY DEF Init, CacheIsCurrent
<1>3. results \in Seq(Results)
  BY EmptySeq DEF Init
<1>4. evidence \in SUBSET Observations /\ IsFiniteSet(evidence)
  BY FS_EmptySet DEF Init
<1>5. epoch \in 1..MaxSession
  BY CaptureAssumption DEF Init
<1>6. Beside
  BY <1>3, <1>4, <1>5 DEF Init, Beside
<1>7. QED
  BY <1>1, <1>2, <1>6 DEF Consistent

\* An observation that is added.
LEMMA EvidenceAdded ==
  ASSUME Beside, NEW o \in Observations
  PROVE  /\ evidence \cup {o} \in SUBSET Observations /\ IsFiniteSet(evidence \cup {o})
         /\ \A clock, label : OfSession(clock, label) \cup {o} \in SUBSET Observations
<1>1. IsFiniteSet(evidence \cup {o})
  BY FS_AddElement DEF Beside
<1>2. QED
  BY <1>1 DEF Beside, OfSession

LEMMA NameFacts ==
    /\ Ports \cup {NfClock, Ft, Mocap, CsvClock} \subseteq Sources
    /\ NfVars \cup FtVars \cup MocapVars \subseteq Vars
    /\ ClockFor(Ft) = Ft /\ ClockFor(Mocap) = Mocap /\ \A s \in Ports : ClockFor(s) = NfClock
BY CaptureAssumption DEF ClockFor

LEMMA PacketFacts ==
  ASSUME NEW s \in {NfClock, Ft, Mocap}, NEW p \in Packets[s]
  PROVE  /\ p.sent \in Instant /\ p.sent - p.age \in Instant /\ p.delay \in Int
         /\ p.sent + p.delay \in Int
<1>1. p.sent \in Instant /\ p.sent - p.age \in Instant /\ p.delay \in Int
  BY CaptureAssumption
<1>2. Instant \subseteq Nat
  BY ConstantFacts
<1>3. p.sent + p.delay \in Int
  <2> DEFINE a == p.sent
             d == p.delay
  <2>1. a \in Nat /\ d \in Int
    BY <1>1, <1>2
  <2> HIDE DEF a, d
  <2>2. a + d \in Int
    BY <2>1
  <2>3. QED
    BY <2>2 DEF a, d
<1>4. QED
  BY <1>1, <1>3

LEMMA FtFrameKeeps ==
  ASSUME Consistent, NEW p \in Packets[Ft], FtFrame(p.sent, p.delay)
  PROVE  /\ Consistent'
         /\ \E l \in Labels : Sampled(model, model', Ft, [ts |-> p.sent, session |-> l],
                                       [v \in FtVars |-> p.sent])
<1> DEFINE m == AddData(model, Ft, p.sent + p.delay, p.sent, Ft, p.sent, [v \in FtVars |-> p.sent])
           label == m.sources[Ft].session
           seen == [clock |-> Ft, session |-> label, offset |-> p.delay, imported |-> FALSE]
           data == [v \in FtVars |-> p.sent]
<1>1. /\ Ft \in Sources /\ Ft \in Domains /\ ClockFor(Ft) = Ft /\ FtVars \subseteq Vars
      /\ p.sent \in Instant /\ p.delay \in Int /\ p.sent + p.delay \in Int
  BY NameFacts, PacketFacts DEF Domains
<1>2. /\ ingesting /\ Room(m) /\ evidence' = evidence \cup {seen}
      /\ UNCHANGED <<schema, ingesting, replay, epoch, results, file>>
  BY DEF FtFrame
<1>3. PICK n \in Published(m, Ft, label, OfSession(Ft, label) \cup {seen}) : Becomes(n)
  BY DEF FtFrame
<1>4. DOMAIN data \subseteq Vars /\ \A v \in DOMAIN data : data[v] \in Instant
  BY <1>1
<1>5. /\ Sound(m) /\ Tracks(model, m) /\ Live(m)
      /\ \E l \in Labels : Sampled(model, m, Ft, [ts |-> p.sent, session |-> l], data)
  <2>1. m = AddData(model, Ft, p.sent + p.delay, p.sent, Ft, p.sent, data)
    OBVIOUS
  <2>2. Sound(model) /\ Live(model)
    BY <1>2 DEF Consistent
  <2> HIDE DEF m, data
  <2>3. QED
    BY <1>1, <1>2, <1>4, <2>1, <2>2, SampleTaken
<1> HIDE DEF m
<1>6. label \in Labels
  <2>1. m.sources[Ft] \in Buckets
    BY <1>1, <1>5, ModelFacts DEF Sound
  <2>2. QED
    BY <2>1 DEF Buckets
<1> HIDE DEF label
<1>7. seen \in Observations
  BY <1>1, <1>6 DEF Observations
<1> HIDE DEF seen
<1>8. Beside'
  BY <1>2, <1>7, EvidenceAdded DEF Consistent, Beside
<1>9. Evolves(m, n)
  BY <1>1, <1>3, <1>5, <1>6, <1>7, EvidenceAdded, PublishedEvolves DEF Consistent
<1>10. Sound(n) /\ Tracks(model, n) /\ Live(n)
  BY <1>5, <1>9, TracksIsTransitive, KeepsLive DEF Evolves
<1>11. Consistent' /\ Keeps(n, model')
  BY <1>3, <1>8, <1>10, ModelChanges
<1>12. PICK l \in Labels : Sampled(model, m, Ft, [ts |-> p.sent, session |-> l], data)
  BY <1>5
<1> HIDE DEF data
<1>13. Sampled(model, model', Ft, [ts |-> p.sent, session |-> l], data)
  BY <1>1, <1>9, <1>11, <1>12, SampledIsKept DEF Evolves
<1>14. QED
  BY <1>11, <1>13 DEF data

LEMMA MocapFrameKeeps ==
  ASSUME Consistent, NEW p \in Packets[Mocap], NEW tracked \in SUBSET MocapVars,
         MocapFrame(tracked, p.sent, p.delay)
  PROVE  /\ Consistent'
         /\ \E l \in Labels : Sampled(model, model', Mocap, [ts |-> p.sent, session |-> l],
                                       [v \in tracked |-> p.sent])
<1> DEFINE data == [v \in tracked |-> p.sent]
           m == AddData(model, Mocap, p.sent + p.delay, p.sent, Mocap, p.sent, data)
<1>1. /\ Mocap \in Sources /\ ClockFor(Mocap) = Mocap /\ MocapVars \subseteq Vars
      /\ p.sent \in Instant /\ p.sent + p.delay \in Int
  BY NameFacts, PacketFacts
<1>2. /\ ingesting /\ Room(m) /\ Becomes(m)
      /\ UNCHANGED <<schema, ingesting, replay, epoch, evidence, results, file>>
  BY DEF MocapFrame
<1>3. DOMAIN data \subseteq Vars /\ \A v \in DOMAIN data : data[v] \in Instant
  BY <1>1
<1>4. /\ Sound(m) /\ Tracks(model, m) /\ Live(m)
      /\ \E l \in Labels : Sampled(model, m, Mocap, [ts |-> p.sent, session |-> l], data)
  <2>1. Sound(model) /\ Live(model)
    BY <1>2 DEF Consistent
  <2> HIDE DEF data
  <2>2. QED
    BY <1>1, <1>2, <1>3, <2>1, SampleTaken
<1> HIDE DEF m
<1>5. Beside'
  BY <1>2 DEF Consistent, Beside
<1>6. Consistent' /\ Keeps(m, model')
  BY <1>2, <1>4, <1>5, ModelChanges
<1>7. PICK l \in Labels : Sampled(model, m, Mocap, [ts |-> p.sent, session |-> l], data)
  BY <1>4
<1> HIDE DEF data
<1>8. Sampled(model, model', Mocap, [ts |-> p.sent, session |-> l], data)
  BY <1>1, <1>6, <1>7, SampledIsKept
<1>9. QED
  BY <1>6, <1>8 DEF data

LEMMA NfSampleKeeps ==
  ASSUME Consistent, NEW p \in Packets[NfClock], NEW v \in NfVars,
         NfSample(v, p.sent, p.age, p.delay)
  PROVE  /\ Consistent'
         /\ \E l \in Labels : Sampled(model, model', schema[v],
                                       [ts |-> p.sent - p.age, session |-> l],
                                       [w \in {v} |-> p.sent - p.age])
<1> DEFINE data == [w \in {v} |-> p.sent - p.age]
           s == schema[v]
           m == AddData(model, s, p.sent + p.delay, p.sent - p.age, NfClock, p.sent, data)
<1>1. /\ NfClock \in Sources /\ Ports \subseteq Sources /\ NfVars \subseteq Vars
      /\ p.sent \in Instant /\ p.sent + p.delay \in Int /\ p.sent - p.age \in Instant
  BY NameFacts, PacketFacts
<1>2. s \in Ports /\ s \in Sources /\ ClockFor(s) = NfClock
  <2>1. schema \in [NfVars -> Ports]
    BY CaptureAssumption DEF Consistent, Beside
  <2>2. QED
    BY <1>1, <2>1, NameFacts
<1>3. /\ ingesting /\ Room(m) /\ Becomes(m)
      /\ UNCHANGED <<schema, ingesting, replay, epoch, evidence, results, file>>
  BY DEF NfSample
<1>4. DOMAIN data \subseteq Vars /\ \A w \in DOMAIN data : data[w] \in Instant
  BY <1>1
<1>5. /\ Sound(m) /\ Tracks(model, m) /\ Live(m)
      /\ \E l \in Labels : Sampled(model, m, s, [ts |-> p.sent - p.age, session |-> l], data)
  <2>1. Sound(model) /\ Live(model)
    BY <1>3 DEF Consistent
  <2> HIDE DEF data, s
  <2>2. QED
    BY <1>1, <1>2, <1>3, <1>4, <2>1, SampleTaken
<1> HIDE DEF m
<1>6. Beside'
  BY <1>3 DEF Consistent, Beside
<1>7. Consistent' /\ Keeps(m, model')
  BY <1>3, <1>5, <1>6, ModelChanges
<1>8. PICK l \in Labels : Sampled(model, m, s, [ts |-> p.sent - p.age, session |-> l], data)
  BY <1>5
<1> HIDE DEF data, s
<1>9. Sampled(model, model', s, [ts |-> p.sent - p.age, session |-> l], data)
  BY <1>2, <1>7, <1>8, SampledIsKept
<1>10. QED
  BY <1>7, <1>9 DEF data, s

LEMMA MeasureKeeps ==
  ASSUME Consistent, NEW d \in Measured, Measure(d)
  PROVE  Consistent' /\ Keeps(model, model')
<1> DEFINE m == SyncEpoch(model)
           seen == [clock |-> NfClock, session |-> epoch, offset |-> d, imported |-> FALSE]
<1>1. NfClock \in Sources /\ NfClock \in Domains /\ d \in Int /\ epoch \in Labels
  BY NameFacts, ConstantFacts, CaptureAssumption DEF Domains, Consistent, Beside
<1>2. /\ evidence' = evidence \cup {seen}
      /\ UNCHANGED <<schema, ingesting, replay, epoch, results, file>>
  BY DEF Measure
<1>3. PICK n \in Published(m, NfClock, epoch, OfSession(NfClock, epoch) \cup {seen}) : Becomes(n)
  BY DEF Measure
<1>4. seen \in Observations
  BY <1>1 DEF Observations
<1>5. Evolves(model, m)
  BY SyncEvolves DEF Consistent, Beside
<1> HIDE DEF m, seen
<1>6. Beside'
  BY <1>2, <1>4, EvidenceAdded DEF Consistent, Beside
<1>7. Evolves(m, n)
  <2>1. OfSession(NfClock, epoch) \cup {seen} \in SUBSET Observations
    BY <1>4, EvidenceAdded DEF Consistent
  <2>2. Sound(m)
    BY <1>5 DEF Evolves
  <2>3. QED
    BY <1>1, <1>3, <2>1, <2>2, PublishedEvolves
<1>8. Evolves(model, n)
  BY <1>5, <1>7, EvolvesIsTransitive
<1>9. Sound(n) /\ Tracks(model, n) /\ (ingesting' => Live(n))
  BY <1>2, <1>8, KeepsLive DEF Evolves, Consistent
<1>10. QED
  BY <1>3, <1>6, <1>8, <1>9, ModelChanges, KeepsIsTransitive DEF Evolves

LEMMA SessionStartKeeps ==
  ASSUME Consistent, SessionStart
  PROVE  Consistent' /\ Keeps(model, model')
<1> DEFINE n == BeginClockEpoch(model, NfClock, epoch + 1)
<1>1. /\ Becomes(n) /\ epoch' = epoch + 1 /\ epoch < MaxSession
      /\ UNCHANGED <<schema, ingesting, replay, evidence, results, file>>
  BY DEF SessionStart
<1>2. epoch + 1 \in 1..MaxSession
  <2>1. epoch \in 1..MaxSession /\ MaxSession \in Nat
    BY CaptureAssumption DEF Consistent, Beside
  <2>2. QED
    BY <1>1, <2>1
<1>3. Evolves(model, n)
  BY <1>2, NameFacts, EpochEvolves DEF Consistent
<1> HIDE DEF n
<1>4. Beside'
  BY <1>1, <1>2 DEF Consistent, Beside
<1>5. Sound(n) /\ Tracks(model, n) /\ (ingesting' => Live(n))
  BY <1>1, <1>3, KeepsLive DEF Evolves, Consistent
<1>6. QED
  BY <1>1, <1>3, <1>4, <1>5, ModelChanges, KeepsIsTransitive DEF Evolves

LEMMA RequestKeeps ==
  ASSUME Consistent, RequestCalibration
  PROVE  Consistent'
<1> DEFINE sessions == {<<d, model.sources[d].session>> : d \in Domains}
           models == ModelsOf(sessions)
<1>1. sessions \in SUBSET (Domains \X Labels)
  <2>1. \A d \in Domains : model.sources[d] \in Buckets
    BY DomainsAreSources, ModelFacts DEF Consistent, Sound
  <2>2. QED
    BY <2>1 DEF Buckets
<1>2. /\ results' = Append(results, models)
      /\ UNCHANGED <<model, cache, schema, ingesting, replay, epoch, evidence, file>>
  BY DEF RequestCalibration
<1> HIDE DEF sessions
<1>3. models \in Results
  BY <1>1, ModelsOfIsDict DEF Consistent, Beside
<1> HIDE DEF models
<1>4. results' \in Seq(Results)
  BY <1>2, <1>3, AppendProperties DEF Consistent, Beside
<1>5. Beside'
  BY <1>2, <1>4 DEF Consistent, Beside
<1>6. Sound(model)' /\ (ingesting' => Live(model)')
  BY <1>2 DEF Consistent
<1>7. CacheIsCurrent' /\ DOMAIN cache' = Vars
  BY <1>2 DEF Consistent, CacheIsCurrent
<1>8. QED
  BY <1>5, <1>6, <1>7 DEF Consistent

LEMMA ApplyKeeps ==
  ASSUME Consistent, ApplyCalibration
  PROVE  Consistent' /\ Keeps(model, model')
<1> DEFINE m == FoldLeft(SetCalibratedClockTransforms, model, results)
           n == SetAlignmentMode(m, "calibrated")
<1>1. /\ Becomes(n) /\ results' = <<>>
      /\ UNCHANGED <<schema, ingesting, replay, epoch, evidence, file>>
  BY DEF ApplyCalibration
<1>2. Evolves(model, m)
  BY CalibrationsEvolve DEF Consistent, Beside
<1> HIDE DEF m
<1>3. Evolves(model, n)
  <2>1. Evolves(m, n)
    BY <1>2, ModeEvolves DEF Evolves
  <2> HIDE DEF n
  <2>2. QED
    BY <1>2, <2>1, EvolvesIsTransitive
<1> HIDE DEF n
<1>4. Beside'
  BY <1>1, EmptySeq DEF Consistent, Beside
<1>5. Sound(n) /\ Tracks(model, n) /\ (ingesting' => Live(n))
  BY <1>1, <1>3, KeepsLive DEF Evolves, Consistent
<1>6. QED
  BY <1>1, <1>3, <1>4, <1>5, ModelChanges, KeepsIsTransitive DEF Evolves

LEMMA ChooseModeKeeps ==
  ASSUME Consistent, NEW mode \in {"realtime", "calibrated"}, ChooseMode(mode)
  PROVE  Consistent' /\ Keeps(model, model')
<1> DEFINE n == SetAlignmentMode(model, mode)
<1>1. /\ Becomes(n)
      /\ UNCHANGED <<schema, ingesting, replay, epoch, evidence, results, file>>
  BY DEF ChooseMode
<1>2. Evolves(model, n)
  BY ModeEvolves DEF Consistent
<1> HIDE DEF n
<1>3. Beside'
  BY <1>1 DEF Consistent, Beside
<1>4. Sound(n) /\ Tracks(model, n) /\ (ingesting' => Live(n))
  BY <1>1, <1>2, KeepsLive DEF Evolves, Consistent
<1>5. QED
  BY <1>1, <1>2, <1>3, <1>4, ModelChanges, KeepsIsTransitive DEF Evolves

\* What begins anew.
LEMMA ClearKeeps ==
  ASSUME Consistent, Becomes(Clear(model)), evidence' = {},
         schema' \in Schemas, {ingesting', replay'} \subseteq BOOLEAN,
         UNCHANGED <<epoch, results, file>>
  PROVE  Consistent' /\ Keeps(Clear(model), model')
<1>1. Sound(Clear(model)) /\ Tracks(model, Clear(model)) /\ Live(Clear(model))
  BY ClearIsSound DEF Consistent, Sound
<1>2. Beside'
  BY FS_EmptySet DEF Consistent, Beside
<1>3. QED
  BY <1>1, <1>2, ModelChanges

LEMMA ExportKeeps ==
  ASSUME Consistent, Export
  PROVE  Consistent'
<1> DEFINE D == {w \in Vars : Count(model, w) > 0}
           clock == [v \in D |-> ClockOf(model, model.vars[v].src)]
           domains == [v \in D |-> IF clock[v] \in Domains THEN clock[v] ELSE CsvClock]
           sessions == {<<o.clock, o.session>> : o \in evidence}
           f == [series |-> RawTable(model), domains |-> domains, evidence |-> evidence,
                 models |-> ModelsOf(sessions)]
<1>1. /\ file' = f
      /\ UNCHANGED <<model, cache, schema, ingesting, replay, epoch, evidence, results>>
  BY DEF Export
<1>2. RawTable(model) \in [Vars -> Seq(RawSamples)]
  BY RawSeriesIsRaw DEF RawTable, Consistent, Sound
<1>3. domains \in UNION {[E -> Sources] : E \in SUBSET Vars}
  <2>1. D \in SUBSET Vars
    OBVIOUS
  <2>2. \A v \in D : domains[v] \in Sources
    BY DomainsAreSources, NameFacts
  <2>3. domains \in [D -> Sources]
    BY <2>2
  <2> HIDE DEF D, domains
  <2>4. QED
    BY <2>1, <2>3
<1>4. evidence \in SUBSET Observations /\ IsFiniteSet(evidence)
  BY DEF Consistent, Beside
<1>5. ModelsOf(sessions) \in Results
  <2>1. sessions \in SUBSET (Domains \X Labels)
    BY <1>4 DEF Observations
  <2> HIDE DEF sessions
  <2>2. QED
    BY <1>4, <2>1, ModelsOfIsDict
<1> HIDE DEF domains, sessions
<1>6. f \in Files
  BY <1>2, <1>3, <1>4, <1>5 DEF Files
<1> HIDE DEF f
<1>7. Beside'
  BY <1>1, <1>6 DEF Consistent, Beside
<1>8. Sound(model)' /\ (ingesting' => Live(model)')
  BY <1>1 DEF Consistent
<1>9. CacheIsCurrent' /\ DOMAIN cache' = Vars
  BY <1>1 DEF Consistent, CacheIsCurrent
<1>10. QED
  BY <1>7, <1>8, <1>9 DEF Consistent

LEMMA ImportKeeps ==
  ASSUME Consistent, Import
  PROVE  Consistent' /\ Keeps(ImportedModel(file), model')
<1> DEFINE f == [o \in file.evidence |-> [o EXCEPT !.imported = TRUE]]
<1>1. /\ file # Nothing /\ Becomes(ImportedModel(file)) /\ ~ingesting' /\ {ingesting', replay'} \subseteq BOOLEAN
      /\ evidence' = {f[o] : o \in file.evidence} /\ DOMAIN f = file.evidence
      /\ UNCHANGED <<schema, epoch, results, file>>
  BY DEF Import
<1>2. file \in Files
  BY <1>1 DEF Consistent, Beside
<1>3. Sound(ImportedModel(file)) /\ Tracks(model, ImportedModel(file))
  BY <1>2, ImportedIsSound DEF Consistent
<1>4. file.evidence \in SUBSET Observations /\ IsFiniteSet(file.evidence)
  BY <1>2 DEF Files
<1>5. \A o \in file.evidence : f[o] \in Observations
  BY <1>4 DEF Observations
<1> HIDE DEF f
<1>6. evidence' \in SUBSET Observations
  BY <1>1, <1>5
<1>7. IsFiniteSet(evidence')
  BY <1>1, <1>4, ImageIsFinite
<1>8. Beside'
  BY <1>1, <1>6, <1>7 DEF Consistent, Beside
<1>9. QED
  BY <1>1, <1>3, <1>8, ModelChanges

LEMMA DrawKeeps ==
  ASSUME Consistent, NEW v \in Vars, Draw(v)
  PROVE  Consistent'
<1>1. /\ cache' = [cache EXCEPT ![v] = Series(model, v)]
      /\ UNCHANGED <<model, schema, ingesting, replay, epoch, evidence, results, file>>
  BY DEF Draw
<1>2. \A w \in Vars : Series(model, w)' = Series(model, w)
  BY <1>1
<1>3. ASSUME NEW w \in Vars, cache'[w] # None PROVE cache'[w] = Series(model, w)
  BY <1>1, <1>3 DEF Consistent, CacheIsCurrent
<1>4. CacheIsCurrent' /\ DOMAIN cache' = Vars
  BY <1>1, <1>2, <1>3 DEF CacheIsCurrent, Consistent
<1>5. Beside'
  BY <1>1 DEF Consistent, Beside
<1>6. Sound(model)' /\ (ingesting' => Live(model)')
  BY <1>1 DEF Consistent
<1>7. QED
  BY <1>4, <1>5, <1>6 DEF Consistent

LEMMA Inductive == Consistent /\ [Next]_vars => Consistent'
<1> SUFFICES ASSUME Consistent, [Next]_vars PROVE Consistent'
  OBVIOUS
<1>1. ASSUME NEW p \in Packets[Ft], FtFrame(p.sent, p.delay) PROVE Consistent'
  BY <1>1, FtFrameKeeps
<1>2. ASSUME NEW p \in Packets[Mocap], NEW tracked \in SUBSET MocapVars,
             MocapFrame(tracked, p.sent, p.delay)
      PROVE  Consistent'
  BY <1>2, MocapFrameKeeps
<1>3. ASSUME NEW p \in Packets[NfClock], NEW v \in NfVars, NfSample(v, p.sent, p.age, p.delay)
      PROVE  Consistent'
  BY <1>3, NfSampleKeeps
<1>4. ASSUME NEW s \in Schemas, SchemaInstalled(s) PROVE Consistent'
  <2>1. /\ schema' = s
        /\ UNCHANGED <<model, cache, ingesting, replay, epoch, evidence, results, file>>
    BY <1>4 DEF SchemaInstalled
  <2>2. Beside' /\ CacheIsCurrent' /\ DOMAIN cache' = Vars
    BY <2>1 DEF Consistent, Beside, CacheIsCurrent
  <2>3. Sound(model)' /\ (ingesting' => Live(model)')
    BY <2>1 DEF Consistent
  <2>4. QED
    BY <2>2, <2>3 DEF Consistent
<1>5. ASSUME NEW s \in Schemas, SchemaActivates(s) PROVE Consistent'
  BY <1>5, ClearKeeps DEF SchemaActivates
<1>6. ASSUME NEW d \in Measured, Measure(d) PROVE Consistent'
  BY <1>6, MeasureKeeps
<1>7. CASE SessionStart
  BY <1>7, SessionStartKeeps
<1>8. CASE RequestCalibration
  BY <1>8, RequestKeeps
<1>9. CASE ApplyCalibration
  BY <1>9, ApplyKeeps
<1>10. ASSUME NEW mode \in {"realtime", "calibrated"}, ChooseMode(mode) PROVE Consistent'
  BY <1>10, ChooseModeKeeps
<1>11. CASE ClearCapture
  BY <1>11, ClearKeeps DEF ClearCapture, Consistent, Beside
<1>12. CASE Export
  BY <1>12, ExportKeeps
<1>13. CASE Import
  BY <1>13, ImportKeeps
<1>14. ASSUME NEW v \in Vars, Draw(v) PROVE Consistent'
  BY <1>14, DrawKeeps
<1>15. CASE UNCHANGED vars
  <2>1. UNCHANGED <<model, schema, ingesting, replay, epoch, evidence, results, file, cache>>
    BY <1>15 DEF vars
  <2>2. Beside' /\ CacheIsCurrent' /\ DOMAIN cache' = Vars
    BY <2>1 DEF Consistent, Beside, CacheIsCurrent
  <2>3. Sound(model)' /\ (ingesting' => Live(model)')
    BY <2>1 DEF Consistent
  <2>4. QED
    BY <2>2, <2>3 DEF Consistent
<1>16. QED
  BY <1>1, <1>2, <1>3, <1>4, <1>5, <1>6, <1>7, <1>8, <1>9, <1>10, <1>11, <1>12, <1>13,
     <1>14, <1>15 DEF Next

LEMMA Invariance == Spec => []Consistent
BY InitConsistent, Inductive, PTL DEF Spec

-----------------------------------------------------------------------------
(* What follows.                                                           *)

LEMMA ConsistentIsTyped == Consistent => TypeOK
<1> SUFFICES ASSUME Consistent PROVE TypeOK
  OBVIOUS
<1>1. model \in Models
  BY DEF Consistent, Sound
<1>2. ASSUME NEW s \in Sources
      PROVE  LET b == model.sources[s] IN
             /\ b.offset \in Sources \cup {None} /\ b.last \in Instant \cup {None}
             /\ b.session \in 1..(MaxSession + 1)
             /\ \A i \in DOMAIN b.stamps : b.stamps[i].ts \in Instant
  <2>1. model.sources[s] \in Buckets
    BY <1>1, ModelFacts
  <2>2. model.sources[s].stamps \in Seq(Stamps)
    BY <2>1 DEF Buckets
  <2>3. \A i \in DOMAIN model.sources[s].stamps : model.sources[s].stamps[i] \in Stamps
    BY <2>2, LenProperties, ElementOfSeq
  <2>4. QED
    BY <2>1, <2>3 DEF Buckets, Stamps, Labels
<1>3. \A v \in Vars : model.vars[v].src \in Sources \cup {None}
  BY <1>1, ModelFacts DEF Bindings
<1>4. QED
  BY <1>2, <1>3 DEF TypeOK, Consistent, Beside

\* The model is of the right shape: the labels of stamps are sessions, the clock a
\* source follows is a source, and calibrations, imports and late samples leave
\* nothing that is not.
THEOREM TypeCorrect == Spec => []TypeOK
BY ConsistentIsTyped, Invariance, PTL

\* A curve is never drawn from a cache that is out of date: what the revisions of a
\* source and a variable do not tell has not changed (data_model.py: get_revision,
\* main_window.py: _curve_cache).
THEOREM CachesAreCurrent == Spec => []CacheIsCurrent
<1>1. Consistent => CacheIsCurrent
  BY DEF Consistent
<1>2. QED
  BY <1>1, Invariance, PTL

\* The spans by which window queries find a sample divide the stamps of every source
\* into the runs of one session, after every sequence of samples and imports.
THEOREM SpansDivideStamps == Spec => []SessionsDivide
<1>1. Consistent => SessionsDivide
  BY DEF Consistent, Sound, SessionsDivide
<1>2. QED
  BY <1>1, Invariance, PTL

\* No sample is recorded whose clock has neither an offset nor a transform for the
\* session of the sample, whatever exchanges, epochs and rollbacks came before.
THEOREM LiveSamplesHaveOffsets == Spec => []LiveSamplesAreAligned
<1>1. Consistent => LiveSamplesAreAligned
  <2> SUFFICES ASSUME Consistent, ingesting, NEW v \in Vars, NEW i \in 1..Count(model, v)
               PROVE  <<ClockOf(model, model.vars[v].src), RawSeries(model, v)[i].session>>
                        \in DOMAIN model.offsets \cup DOMAIN model.history
    <3>1. \A v \in Vars : DOMAIN RawSeries(model, v) = 1..Count(model, v)
      BY DEF RawSeries
    <3>2. QED
      BY <3>1 DEF LiveSamplesAreAligned, Range
  <2> DEFINE s == model.vars[v].src
  <2>1. model \in Models /\ Live(model)
    BY DEF Consistent, Sound
  <2>2. s \in Sources /\ i \in DOMAIN model.sources[s].stamps
    BY <2>1, CountFacts
  <2>3. RawSeries(model, v)[i].session = model.sources[s].stamps[i].session
    BY DEF RawSeries
  <2>4. model.sources[s].stamps # <<>>
    BY <2>2
  <2>5. model.sources[s].offset = ClockFor(s)
    BY <2>1, <2>2, <2>4 DEF Live
  <2>6. ClockOf(model, s) = ClockFor(s)
    <3>1. ClockFor(s) \in Sources
      BY <2>2, NameFacts DEF ClockFor
    <3>2. ClockFor(s) # None
      BY <3>1, CaptureAssumption
    <3>3. QED
      BY <2>5, <3>2 DEF ClockOf
  <2>7. <<ClockFor(s), model.sources[s].stamps[i].session>> \in Known(model)
    BY <2>1, <2>2 DEF Live
  <2>8. QED
    BY <2>3, <2>6, <2>7 DEF Known
<1>2. QED
  BY <1>1, Invariance, PTL

\* For every recording, in whatever sessions and transforms it came to be: the
\* searches by bisection of data_model.py (_aligned_insertion_index, _query_range,
\* get_nearest_sample, get_time_bounds) answer what the whole series says.
THEOREM QueriesAnswerExactly == Spec => []QueriesAreExact
<1>1. ASSUME Consistent PROVE WindowsAreExact
  <2>0. Sound(model) /\ model \in Models
    BY <1>1 DEF Consistent, Sound
  <2>1. ASSUME NEW v \in Vars, Count(model, v) > 0, InOrder(v)
        PROVE  /\ \A k \in 0..2 : TailIsExact(model, v, k)
               /\ \A a \in Instant :
                     /\ \A b \in {a, a + 1}, k \in 0..1 : BetweenIsExact(model, v, a, b, k)
                     /\ EndingIsExact(model, v, a) /\ NearestIsExact(model, v, a)
    <3>1. Sorted(model, v)
      BY <2>0, <2>1, OrderIsSorted
    <3>2. \A k \in 0..2 : TailIsExact(model, v, k)
      BY <2>0, TailOfSeries
    <3>3. ASSUME NEW a \in Instant
          PROVE  /\ \A b \in {a, a + 1}, k \in 0..1 : BetweenIsExact(model, v, a, b, k)
                 /\ EndingIsExact(model, v, a) /\ NearestIsExact(model, v, a)
      <4>1. a \in Int
        BY ConstantFacts
      <4>2. \A b \in {a, a + 1}, k \in 0..1 : BetweenIsExact(model, v, a, b, k)
        BY <2>0, <2>1, <3>1, <4>1, BetweenOfSeries
      <4>3. EndingIsExact(model, v, a) /\ NearestIsExact(model, v, a)
        BY <2>0, <2>1, <3>1, <4>1, EndingOfSeries, NearestOfSeries
      <4>4. QED
        BY <4>2, <4>3
    <3>4. QED
      BY <3>2, <3>3
  <2>2. QED
    BY <2>1 DEF WindowsAreExact, TailIsExact, BetweenIsExact, EndingIsExact, NearestIsExact
<1>2. ASSUME Consistent PROVE BoundsHoldSeries
  <2>1. Sound(model) /\ model \in Models
    BY <1>2 DEF Consistent, Sound
  <2> SUFFICES ASSUME \A v \in Vars : InOrder(v), NEW v \in Vars,
                      NEW x \in Range(Series(model, v))
               PROVE  LET b == TimeBounds(model, Vars) IN b[1] <= x.at /\ x.at <= b[2]
    BY DEF BoundsHoldSeries
  <2>2. \A w \in Vars : Sorted(model, w)
    BY <2>1, OrderIsSorted
  <2> DEFINE X(i) == [at |-> At(model, v, i), value |-> model.vars[v].values[i]]
  <2>3. PICK i \in 1..Count(model, v) : x = X(i)
    <3>1. /\ DOMAIN Series(model, v) = 1..Count(model, v)
          /\ \A i \in 1..Count(model, v) : Series(model, v)[i] = X(i)
      BY <2>1, SeriesOfTimes
    <3> HIDE DEF X
    <3>2. QED
      BY <3>1 DEF Range
  <2>4. x.at = At(model, v, i)
    BY <2>3
  <2>5. QED
    BY <2>1, <2>2, <2>4, BoundsOfSeries
<1>3. Consistent => SessionsDivide
  BY DEF Consistent, Sound, SessionsDivide
<1>4. Consistent => QueriesAreExact
  BY <1>1, <1>2, <1>3, ConsistentIsTyped DEF QueriesAreExact
<1>5. QED
  BY <1>4, Invariance, PTL

-----------------------------------------------------------------------------
(* The recording as a table of samples.                                    *)

\* The source of a variable, as long as frames are whole.
Homed == NfVars \cup FtVars \cup MocapVars
Home(ports, v) == IF v \in NfVars THEN ports[v] ELSE IF v \in FtVars THEN Ft ELSE Mocap

\* What a source with the stamps given has of each of its variables.
TimesOf(stamps) == [i \in 1..Len(stamps) |-> stamps[i].ts]
SamplesOf(stamps) == [i \in 1..Len(stamps) |->
    [ts |-> stamps[i].ts, session |-> stamps[i].session, value |-> stamps[i].ts]]

\* A variable has a value for each stamp of its source, and was never bound to another.
InStep(m, ports, v) ==
    LET b == m.vars[v]
        s == Home(ports, v)
    IN IF v \in Homed
       THEN /\ b.src \in {None, s} /\ b.values = TimesOf(m.sources[s].stamps)
            /\ b.src = None => m.sources[s].stamps = <<>>
       ELSE b.src = None

LEMMA OneMore ==
  ASSUME NEW stamps \in Seq(Stamps), NEW x \in Stamps
  PROVE  /\ TimesOf(Append(stamps, x)) = Append(TimesOf(stamps), x.ts)
         /\ SamplesOf(Append(stamps, x)) =
              Append(SamplesOf(stamps), [ts |-> x.ts, session |-> x.session, value |-> x.ts])
<1> DEFINE n == Len(stamps)
           more == Append(stamps, x)
           y == [ts |-> x.ts, session |-> x.session, value |-> x.ts]
           R(z) == [ts |-> z.ts, session |-> z.session, value |-> z.ts]
<1>1. /\ more \in Seq(Stamps) /\ Len(more) = n + 1 /\ n \in Nat
      /\ \A i \in 1..n : more[i] = stamps[i]
      /\ more[n + 1] = x
  BY AppendProperties, LenProperties
<1>2. /\ \A i \in 1..n : stamps[i] \in Stamps
      /\ \A z \in Stamps : z.ts \in Instant /\ R(z) \in RawSamples
  BY ElementOfSeq DEF Stamps, RawSamples
<1> HIDE DEF more, n
<1>3. \A i \in 1..(n + 1) : i \in 1..n \/ i = n + 1
  BY <1>1
<1>4. TimesOf(more) = Append(TimesOf(stamps), x.ts)
  <2> DEFINE t == TimesOf(stamps)
             u == TimesOf(more)
  <2>1. t \in Seq(Instant) /\ Len(t) = n /\ \A i \in 1..n : t[i] = stamps[i].ts
    <3>1. t \in [1..n -> Instant] /\ t = [i \in 1..n |-> stamps[i].ts]
      BY <1>2 DEF TimesOf, n
    <3> HIDE DEF t
    <3>2. t \in Seq(Instant)
      BY <1>1, <3>1
    <3>3. QED
      BY <1>1, <3>1, <3>2, LenProperties
  <2>2. u \in Seq(Instant) /\ Len(u) = n + 1 /\ \A i \in 1..(n + 1) : u[i] = more[i].ts
    <3>1. \A i \in 1..(n + 1) : more[i] \in Stamps
      BY <1>1, ElementOfSeq
    <3>2. u \in [1..(n + 1) -> Instant] /\ u = [i \in 1..(n + 1) |-> more[i].ts]
      BY <1>1, <1>2, <3>1 DEF TimesOf
    <3> HIDE DEF u
    <3>3. u \in Seq(Instant)
      BY <1>1, <3>2
    <3>4. QED
      BY <1>1, <3>2, <3>3, LenProperties
  <2> HIDE DEF t, u
  <2>3. x.ts \in Instant
    BY <1>2
  <2>4. /\ Append(t, x.ts) \in Seq(Instant) /\ Len(Append(t, x.ts)) = n + 1
        /\ \A i \in 1..n : Append(t, x.ts)[i] = t[i]
        /\ Append(t, x.ts)[n + 1] = x.ts
    BY <2>1, <2>3, AppendProperties
  <2>5. \A i \in 1..(n + 1) : u[i] = Append(t, x.ts)[i]
    <3> SUFFICES ASSUME NEW i \in 1..(n + 1) PROVE u[i] = Append(t, x.ts)[i]
      OBVIOUS
    <3>1. CASE i \in 1..n
      BY <1>1, <2>1, <2>2, <2>4, <3>1
    <3>2. CASE i = n + 1
      BY <1>1, <2>2, <2>4, <3>2
    <3>3. QED
      BY <1>3, <3>1, <3>2
  <2>6. u = Append(t, x.ts)
    BY <2>2, <2>4, <2>5, SeqEqual
  <2>7. QED
    BY <2>6 DEF t, u
<1>5. SamplesOf(more) = Append(SamplesOf(stamps), y)
  <2> DEFINE t == SamplesOf(stamps)
             u == SamplesOf(more)
  <2>1. t \in Seq(RawSamples) /\ Len(t) = n /\ \A i \in 1..n : t[i] = R(stamps[i])
    <3>1. t = [i \in 1..n |-> R(stamps[i])]
      BY DEF SamplesOf, n
    <3> HIDE DEF t, R
    <3>2. t \in [1..n -> RawSamples]
      BY <1>2, <3>1
    <3>3. t \in Seq(RawSamples)
      BY <1>1, <3>2
    <3>4. QED
      BY <1>1, <3>1, <3>2, <3>3, LenProperties
  <2>2. u \in Seq(RawSamples) /\ Len(u) = n + 1 /\ \A i \in 1..(n + 1) : u[i] = R(more[i])
    <3>1. \A i \in 1..(n + 1) : more[i] \in Stamps
      BY <1>1, ElementOfSeq
    <3>2. u = [i \in 1..(n + 1) |-> R(more[i])]
      BY <1>1 DEF SamplesOf
    <3> HIDE DEF u, R
    <3>3. u \in [1..(n + 1) -> RawSamples]
      BY <1>2, <3>1, <3>2
    <3>4. u \in Seq(RawSamples)
      <4>1. n + 1 \in Nat
        BY <1>1
      <4>2. QED
        BY <3>3, <4>1
    <3>5. QED
      BY <1>1, <3>2, <3>3, <3>4, LenProperties
  <2> HIDE DEF t, u
  <2>3. y \in RawSamples /\ y = R(x)
    BY <1>2
  <2> HIDE DEF y, R
  <2>4. /\ Append(t, y) \in Seq(RawSamples) /\ Len(Append(t, y)) = n + 1
        /\ \A i \in 1..n : Append(t, y)[i] = t[i]
        /\ Append(t, y)[n + 1] = y
    BY <2>1, <2>3, AppendProperties
  <2>5. \A i \in 1..(n + 1) : u[i] = Append(t, y)[i]
    <3> SUFFICES ASSUME NEW i \in 1..(n + 1) PROVE u[i] = Append(t, y)[i]
      OBVIOUS
    <3>1. CASE i \in 1..n
      BY <1>1, <2>1, <2>2, <2>4, <3>1
    <3>2. CASE i = n + 1
      BY <1>1, <2>2, <2>3, <2>4, <3>2
    <3>3. QED
      BY <1>3, <3>1, <3>2
  <2>6. u = Append(t, y)
    BY <2>2, <2>4, <2>5, SeqEqual
  <2>7. QED
    BY <2>6 DEF t, u
<1>6. QED
  BY <1>4, <1>5 DEF more

LEMMA NoSamples == TimesOf(<<>>) = <<>> /\ SamplesOf(<<>>) = <<>>
BY EmptySeq DEF TimesOf, SamplesOf

\* The raw series of a variable in step is what its source has of it.
LEMMA SeriesInStep ==
  ASSUME NEW m \in Models, NEW v \in Vars, NEW ports \in [NfVars -> Ports],
         InStep(m, ports, v)
  PROVE  RawSeries(m, v) = IF v \in Homed THEN SamplesOf(m.sources[Home(ports, v)].stamps)
                           ELSE <<>>
<1> DEFINE s == Home(ports, v)
           b == m.vars[v]
           stamps == m.sources[s].stamps
           n == Len(stamps)
<1>1. s \in Sources
  BY NameFacts DEF Home
<1>2. stamps \in Seq(Stamps) /\ n \in Nat
  BY <1>1, ModelFacts, LenProperties DEF Buckets
<1>3. ASSUME b.src = None PROVE RawSeries(m, v) = <<>>
  <2>1. Count(m, v) = 0
    BY <1>3 DEF Count
  <2>2. QED
    BY <2>1, EmptySeq DEF RawSeries
<1>4. CASE v \notin Homed
  BY <1>3, <1>4 DEF InStep
<1>5. CASE v \in Homed /\ b.src = None
  BY <1>3, <1>5, NoSamples DEF InStep
<1>6. CASE v \in Homed /\ b.src # None
  <2>1. b.src = s /\ b.values = TimesOf(stamps)
    BY <1>6 DEF InStep
  <2> HIDE DEF s
  <2>2. Len(b.values) = n /\ \A i \in 1..n : b.values[i] = stamps[i].ts
    <3>1. b.values \in Seq(Instant)
      BY ModelFacts DEF Bindings
    <3>2. DOMAIN b.values = 1..n /\ \A i \in 1..n : b.values[i] = stamps[i].ts
      BY <2>1 DEF TimesOf
    <3> HIDE DEF b, n
    <3>3. QED
      BY <1>2, <3>1, <3>2, LenProperties
  <2>3. Count(m, v) = Min({n, n})
    BY <1>6, <2>1, <2>2 DEF Count
  <2> DEFINE Raw(i) == [ts |-> stamps[i].ts, session |-> stamps[i].session,
                        value |-> b.values[i]]
  <2>4. RawSeries(m, v) = [i \in 1..Count(m, v) |-> Raw(i)]
    BY <2>1 DEF RawSeries
  <2>5. Count(m, v) = n
    <3> HIDE DEF n
    <3>1. Min({n, n}) \in {n, n}
      <4>1. n \in Int
        BY <1>2
      <4>2. QED
        BY <4>1, MinOfTwo
    <3>2. QED
      BY <2>3, <3>1
  <2>6. \A i \in 1..n : Raw(i) = [ts |-> stamps[i].ts, session |-> stamps[i].session,
                                  value |-> stamps[i].ts]
    BY <2>2
  <2> HIDE DEF Raw, b
  <2>7. RawSeries(m, v) = SamplesOf(stamps)
    BY <2>4, <2>5, <2>6 DEF SamplesOf
  <2>8. QED
    BY <1>6, <2>7 DEF s
<1>7. QED
  BY <1>4, <1>5, <1>6

\* A whole frame of a source keeps all variables in step and is a row of the table.
LEMMA FrameInStep ==
  ASSUME NEW m \in Models, NEW n \in Models, NEW ports \in [NfVars -> Ports],
         \A v \in Vars : InStep(m, ports, v),
         NEW s \in Sources, NEW ts \in Instant, NEW label \in Labels, NEW data,
         DOMAIN data = {v \in Homed : Home(ports, v) = s}, \A v \in DOMAIN data : data[v] = ts,
         Sampled(m, n, s, [ts |-> ts, session |-> label], data), NEW v \in Vars
  PROVE  /\ InStep(n, ports, v)
         /\ RawSeries(n, v) \in
              {RawSeries(m, v),
               Append(RawSeries(m, v), [ts |-> ts, session |-> label, value |-> ts])}
<1> DEFINE x == [ts |-> ts, session |-> label]
           y == [ts |-> ts, session |-> label, value |-> ts]
           h == Home(ports, v)
           stamps == m.sources[s].stamps
<1>1. /\ x \in Stamps /\ x.ts = ts /\ x.session = label
      /\ [ts |-> x.ts, session |-> x.session, value |-> x.ts] = y
  BY DEF Stamps
<1> HIDE DEF x
<1>2. stamps \in Seq(Stamps) /\ h \in Sources /\ s # None
  BY ModelFacts, NameFacts, CaptureAssumption DEF Buckets, Home
<1>3. \A w \in DOMAIN data : w \in Vars /\ m.vars[w].src \in {None, s}
  BY NameFacts DEF InStep, Homed
<1>4. /\ n.sources[s].stamps = Append(stamps, x)
      /\ \A r \in Sources \ {s} : n.sources[r].stamps = m.sources[r].stamps
      /\ n.vars = [w \in Vars |-> IF w \notin DOMAIN data THEN m.vars[w]
                     ELSE [src |-> s, values |-> Append(m.vars[w].values, data[w])]]
  BY <1>3 DEF Sampled, x
<1>5. RawSeries(m, v) = IF v \in Homed THEN SamplesOf(m.sources[h].stamps) ELSE <<>>
  BY SeriesInStep
<1>6. InStep(n, ports, v) =>
        RawSeries(n, v) = IF v \in Homed THEN SamplesOf(n.sources[h].stamps) ELSE <<>>
  BY SeriesInStep
<1>7. CASE v \in DOMAIN data
  <2>1. v \in Homed /\ h = s /\ data[v] = ts
    BY <1>7
  <2>2. m.vars[v].values = TimesOf(stamps)
    BY <2>1 DEF InStep
  <2>3. n.vars[v].src = s /\ n.vars[v].values = Append(TimesOf(stamps), ts)
    BY <1>4, <1>7, <2>1, <2>2
  <2> HIDE DEF stamps
  <2>4. /\ TimesOf(Append(stamps, x)) = Append(TimesOf(stamps), ts)
        /\ SamplesOf(Append(stamps, x)) = Append(SamplesOf(stamps), y)
    BY <1>1, <1>2, OneMore
  <2>5. InStep(n, ports, v)
    BY <1>2, <1>4, <2>1, <2>3, <2>4 DEF InStep
  <2>6. RawSeries(n, v) = Append(RawSeries(m, v), y)
    BY <1>4, <1>5, <1>6, <2>1, <2>4, <2>5 DEF stamps
  <2>7. QED
    BY <2>5, <2>6
<1>8. CASE v \notin DOMAIN data
  <2>1. n.vars[v] = m.vars[v]
    BY <1>4, <1>8
  <2>2. v \in Homed => n.sources[h].stamps = m.sources[h].stamps
    BY <1>2, <1>4, <1>8
  <2>3. InStep(n, ports, v)
    BY <2>1, <2>2 DEF InStep
  <2>4. RawSeries(n, v) = RawSeries(m, v)
    BY <1>5, <1>6, <2>2, <2>3
  <2>5. QED
    BY <2>3, <2>4
<1>9. QED
  BY <1>7, <1>8

\* What adds no sample keeps variables in step.
LEMMA KeptInStep ==
  ASSUME NEW m, NEW n, Keeps(m, n), NEW ports \in [NfVars -> Ports], NEW v \in Vars,
         InStep(m, ports, v)
  PROVE  InStep(n, ports, v)
<1>1. Home(ports, v) \in Sources
  BY NameFacts DEF Home
<1>2. /\ n.vars[v] = m.vars[v]
      /\ n.sources[Home(ports, v)].stamps = m.sources[Home(ports, v)].stamps
  BY <1>1 DEF Keeps
<1>3. QED
  BY <1>2 DEF InStep

\* An empty model.
LEMMA BlankTable ==
  ASSUME NEW n, n \in {EmptyModel, Clear(model)}
  PROVE  /\ RawTable(n) = [v \in Vars |-> <<>>]
         /\ \A ports \in [NfVars -> Ports], v \in Vars : InStep(n, ports, v)
<1>1. /\ n.sources = [s \in Sources |-> NoBucket] /\ n.vars = [v \in Vars |-> Unbound]
  <2>1. EmptyModel.sources = [s \in Sources |-> NoBucket] /\ EmptyModel.vars = [v \in Vars |-> Unbound]
    BY DEF EmptyModel
  <2>2. /\ Clear(model).sources = EmptyModel.sources /\ Clear(model).vars = EmptyModel.vars
    BY DEF EmptyModel, Clear
  <2>3. QED
    BY <2>1, <2>2
<1>2. \A v \in Vars : RawSeries(n, v) = <<>>
  <2>1. \A v \in Vars : Count(n, v) = 0
    BY <1>1 DEF Count, Unbound
  <2>2. QED
    BY <2>1, EmptySeq DEF RawSeries
<1>3. ASSUME NEW ports \in [NfVars -> Ports], NEW v \in Vars PROVE InStep(n, ports, v)
  <2>1. Home(ports, v) \in Sources
    BY NameFacts DEF Home
  <2>2. /\ n.vars[v].src = None /\ n.vars[v].values = <<>>
        /\ n.sources[Home(ports, v)].stamps = <<>>
    BY <1>1, <2>1 DEF Unbound, NoBucket
  <2>3. QED
    BY <2>2, NoSamples DEF InStep
<1>4. QED
  BY <1>2, <1>3 DEF RawTable

\* While samples are recorded variables are in step; a file has all series.
Whole ==
    /\ Consistent
    /\ ingesting => \A v \in Vars : InStep(model, schema, v)
    /\ file # Nothing => /\ file.series # Nothing
                         /\ \A v \in Vars \ DOMAIN file.domains : file.series[v] = <<>>

\* A step that is a step of the table, or none.
Advances == Whole' /\ [Table!TableNext]_(Table!tableVars)

LEMMA InitWhole == Init => Whole /\ Table!TableInit
<1> SUFFICES ASSUME Init PROVE Whole /\ Table!TableInit
  OBVIOUS
<1>1. Consistent /\ schema \in [NfVars -> Ports]
  BY InitConsistent, CaptureAssumption DEF Init
<1>2. /\ model = EmptyModel /\ ingesting = TRUE /\ file = Nothing
  BY DEF Init
<1>3. /\ RawTable(model) = [v \in Vars |-> <<>>]
      /\ \A v \in Vars : InStep(model, schema, v)
  BY <1>1, <1>2, BlankTable
<1>4. QED
  BY <1>1, <1>2, <1>3 DEF Whole, Table!TableInit, Table!Blank

LEMMA SchemaStays ==
  ASSUME FramesAreWhole, Consistent, Consistent'
  PROVE  schema' = schema /\ schema \in [NfVars -> Ports]
BY CaptureAssumption DEF FramesAreWhole, Consistent, Beside

\* A step that adds no sample, takes nothing away and leaves the file.
LEMMA KeptStep ==
  ASSUME FramesAreWhole, Whole, Consistent', Keeps(model, model'), UNCHANGED <<ingesting, file>>
  PROVE  Advances
<1>1. schema' = schema /\ schema \in [NfVars -> Ports]
  BY SchemaStays DEF Whole
<1>2. ingesting => \A v \in Vars : InStep(model', schema, v)
  BY <1>1, KeptInStep DEF Whole
<1>3. Whole'
  BY <1>1, <1>2 DEF Whole
<1>4. RawTable(model') = RawTable(model)
  BY KeptTable DEF Whole, Consistent, Sound
<1>5. QED
  BY <1>3, <1>4 DEF Advances, Table!tableVars

\* A whole frame.
LEMMA RecordStep ==
  ASSUME FramesAreWhole, Whole, Consistent', ingesting, UNCHANGED <<ingesting, file>>,
         NEW s \in Sources, NEW ts \in Instant, NEW label \in Labels, NEW data,
         DOMAIN data = {v \in Homed : Home(schema, v) = s}, \A v \in DOMAIN data : data[v] = ts,
         Sampled(model, model', s, [ts |-> ts, session |-> label], data)
  PROVE  Advances
<1>1. schema' = schema /\ schema \in [NfVars -> Ports]
  BY SchemaStays DEF Whole
<1>2. model \in Models /\ model' \in Models
  BY DEF Whole, Consistent, Sound
<1>3. ASSUME NEW v \in Vars
      PROVE  /\ InStep(model', schema, v)
             /\ RawSeries(model', v) \in
                  {RawSeries(model, v),
                   Append(RawSeries(model, v), [ts |-> ts, session |-> label, value |-> ts])}
  BY <1>1, <1>2, FrameInStep DEF Whole
<1>4. Whole'
  BY <1>1, <1>3 DEF Whole
<1>5. Table!Record(ts, label)
  BY <1>3 DEF Table!Record, RawTable
<1>6. QED
  BY <1>4, <1>5 DEF Advances, Table!TableNext, Labels

\* A new beginning.
LEMMA ForgetStep ==
  ASSUME FramesAreWhole, Whole, Consistent', Keeps(Clear(model), model'),
         ingesting' \in {ingesting, TRUE}, UNCHANGED file
  PROVE  Advances
<1>1. schema' = schema /\ schema \in [NfVars -> Ports]
  BY SchemaStays DEF Whole
<1>2. Clear(model) \in Models
  BY ClearIsSound DEF Whole, Consistent, Sound
<1>3. RawTable(model') = [v \in Vars |-> <<>>]
  <2>1. RawTable(model') = RawTable(Clear(model))
    BY <1>2, KeptTable
  <2>2. QED
    BY <2>1, BlankTable
<1>4. \A v \in Vars : InStep(model', schema, v)
  BY <1>1, BlankTable, KeptInStep
<1>5. Whole'
  BY <1>1, <1>4 DEF Whole
<1>6. ingesting \in BOOLEAN
  BY DEF Whole, Consistent, Beside
<1>7. Table!Forget
  <2>1. (~ingesting') \in {~ingesting, FALSE}
    <3>1. CASE ingesting' = ingesting
      BY <3>1
    <3>2. CASE ingesting' = TRUE
      <4>1. (~ingesting') <=> FALSE
        BY <3>2
      <4>2. QED
        BY <4>1
    <3>3. QED
      BY <3>1, <3>2
  <2>2. QED
    BY <1>3, <2>1 DEF Table!Forget, Table!Blank
<1>8. QED
  BY <1>5, <1>7 DEF Advances, Table!TableNext

LEMMA SaveStep ==
  ASSUME Whole, Consistent', Export
  PROVE  Advances
<1>1. /\ file'.series = RawTable(model) /\ file'.domains # Nothing
      /\ DOMAIN file'.domains = {w \in Vars : Count(model, w) > 0}
      /\ DOMAIN file' = {"series", "domains", "evidence", "models"}
      /\ UNCHANGED <<model, schema, ingesting>>
  BY DEF Export
<1>2. file' # Nothing
  BY <1>1 DEF Nothing
<1>3. file'.series # Nothing
  <2>1. {w \in Vars : Count(model, w) > 0} # {}
    <3> DEFINE D == {w \in Vars : Count(model, w) > 0}
    <3>1. D = {} => file'.domains = [k \in {} |-> None]
      BY <1>1 DEF Export
    <3>2. QED
      BY <1>1, <3>1 DEF Nothing
  <2>2. Vars # {} /\ DOMAIN file'.series = Vars
    BY <1>1, <2>1 DEF RawTable
  <2>3. QED
    BY <2>2 DEF Nothing
<1>4. \A v \in Vars \ DOMAIN file'.domains : file'.series[v] = <<>>
  <2> SUFFICES ASSUME NEW v \in Vars, ~(Count(model, v) > 0) PROVE RawSeries(model, v) = <<>>
    BY <1>1 DEF RawTable
  <2>1. Count(model, v) \in Nat
    BY CountFacts DEF Whole, Consistent, Sound
  <2>2. Count(model, v) = 0
    BY <2>1
  <2>3. QED
    BY <2>2, EmptySeq DEF RawSeries
<1>5. ingesting' => \A v \in Vars : InStep(model', schema', v)
  BY <1>1 DEF Whole
<1>6. Whole'
  BY <1>3, <1>4, <1>5 DEF Whole
<1>7. Table!Save
  BY <1>1, <1>2 DEF Table!Save
<1>8. QED
  BY <1>6, <1>7 DEF Advances, Table!TableNext

LEMMA LoadStep ==
  ASSUME FramesAreWhole, Whole, Consistent', Import
  PROVE  Advances
<1>1. file # Nothing /\ ~ingesting' /\ UNCHANGED <<schema, file>>
  BY DEF Import
<1>2. file \in Files /\ file.series # Nothing
  BY <1>1 DEF Whole, Consistent, Beside
<1>3. /\ Sound(ImportedModel(file))
      /\ \A v \in Vars : RawSeries(ImportedModel(file), v) =
            IF v \in DOMAIN file.domains THEN file.series[v] ELSE <<>>
  BY <1>2, ImportedIsSound DEF FramesAreWhole, Whole, Consistent
<1>4. RawTable(ImportedModel(file)) = file.series
  <2>1. \A v \in Vars : RawSeries(ImportedModel(file), v) = file.series[v]
    BY <1>1, <1>3 DEF Whole
  <2>2. file.series = [v \in Vars |-> file.series[v]]
    BY <1>2 DEF Files
  <2>3. QED
    BY <2>1, <2>2 DEF RawTable
<1>5. RawTable(model') = file.series
  <2>1. Keeps(ImportedModel(file), model')
    BY ImportKeeps DEF Whole
  <2>2. QED
    BY <1>3, <1>4, <2>1, KeptTable DEF Sound
<1>6. Whole'
  BY <1>1 DEF Whole
<1>7. Table!Load
  BY <1>1, <1>2, <1>5 DEF Table!Load
<1>8. QED
  BY <1>6, <1>7 DEF Advances, Table!TableNext

LEMMA WholeStep ==
  ASSUME FramesAreWhole
  PROVE  Whole /\ [Next]_vars => Advances
<1> SUFFICES ASSUME Whole, [Next]_vars PROVE Advances
  OBVIOUS
<1>0. Consistent /\ Consistent' /\ schema \in [NfVars -> Ports]
  BY Inductive, SchemaStays DEF Whole
<1>1. ASSUME NEW p \in Packets[Ft], FtFrame(p.sent, p.delay) PROVE Advances
  <2> DEFINE data == [v \in FtVars |-> p.sent]
  <2>1. ingesting /\ UNCHANGED <<ingesting, file>>
    BY <1>1 DEF FtFrame
  <2>2. p.sent \in Instant /\ Ft \in Sources
    BY PacketFacts, NameFacts
  <2>3. PICK l \in Labels : Sampled(model, model', Ft, [ts |-> p.sent, session |-> l], data)
    BY <1>0, <1>1, FtFrameKeeps
  <2>4. /\ DOMAIN data = {v \in Homed : Home(schema, v) = Ft}
        /\ \A v \in DOMAIN data : data[v] = p.sent
    <3>1. Ft \notin Ports /\ Ft # Mocap
      BY CaptureAssumption
    <3>2. QED
      BY <1>0, <3>1 DEF Homed, Home, FramesAreWhole
  <2> HIDE DEF data
  <2>5. QED
    BY <1>0, <2>1, <2>2, <2>3, <2>4, RecordStep
<1>2. ASSUME NEW p \in Packets[Mocap], NEW tracked \in SUBSET MocapVars,
             MocapFrame(tracked, p.sent, p.delay)
      PROVE  Advances
  <2> DEFINE data == [v \in tracked |-> p.sent]
  <2>1. ingesting /\ UNCHANGED <<ingesting, file>> /\ tracked = MocapVars
    BY <1>2 DEF MocapFrame, FramesAreWhole
  <2>2. p.sent \in Instant /\ Mocap \in Sources
    BY PacketFacts, NameFacts
  <2>3. PICK l \in Labels : Sampled(model, model', Mocap, [ts |-> p.sent, session |-> l], data)
    BY <1>0, <1>2, MocapFrameKeeps
  <2>4. /\ DOMAIN data = {v \in Homed : Home(schema, v) = Mocap}
        /\ \A v \in DOMAIN data : data[v] = p.sent
    <3>1. Mocap \notin Ports /\ Ft # Mocap
      BY CaptureAssumption
    <3>2. QED
      BY <1>0, <2>1, <3>1 DEF Homed, Home, FramesAreWhole
  <2> HIDE DEF data
  <2>5. QED
    BY <1>0, <2>1, <2>2, <2>3, <2>4, RecordStep
<1>3. ASSUME NEW p \in Packets[NfClock], NEW v \in NfVars, NfSample(v, p.sent, p.age, p.delay)
      PROVE  Advances
  <2> DEFINE ts == p.sent - p.age
             data == [w \in {v} |-> ts]
             s == schema[v]
  <2>1. ingesting /\ UNCHANGED <<ingesting, file>>
    BY <1>3 DEF NfSample
  <2>2. ts \in Instant /\ s \in Ports /\ s \in Sources
    BY <1>0, PacketFacts, NameFacts
  <2>3. PICK l \in Labels : Sampled(model, model', s, [ts |-> ts, session |-> l], data)
    BY <1>0, <1>3, NfSampleKeeps
  <2>4. /\ DOMAIN data = {w \in Homed : Home(schema, w) = s}
        /\ \A w \in DOMAIN data : data[w] = ts
    <3>1. s # Ft /\ s # Mocap
      BY <2>2, CaptureAssumption
    <3>2. \A w \in NfVars : schema[w] = s => w = v
      BY <1>0 DEF FramesAreWhole, IsInjective, Consistent, Beside
    <3>3. DOMAIN data = {v} /\ \A w \in {v} : data[w] = ts
      OBVIOUS
    <3>4. {w \in Homed : Home(schema, w) = s} = {v}
      BY <3>1, <3>2 DEF Homed, Home
    <3> HIDE DEF data, ts, s
    <3>5. QED
      BY <3>3, <3>4
  <2> HIDE DEF data, ts, s
  <2>5. QED
    BY <1>0, <2>1, <2>2, <2>3, <2>4, RecordStep
<1>4. ASSUME UNCHANGED <<model, ingesting, file>> PROVE Advances
  <2>1. Keeps(model, model')
    BY <1>4 DEF Keeps
  <2>2. QED
    BY <1>0, <1>4, <2>1, KeptStep
<1>5. ASSUME NEW s \in Schemas, SchemaActivates(s) PROVE Advances
  <2>1. ingesting' = TRUE /\ UNCHANGED file
    BY <1>5 DEF SchemaActivates
  <2>2. Keeps(Clear(model), model')
    BY <1>0, <1>5, ClearKeeps DEF SchemaActivates
  <2>3. QED
    BY <1>0, <2>1, <2>2, ForgetStep
<1>6. ASSUME NEW d \in Measured, Measure(d) PROVE Advances
  <2>1. UNCHANGED <<ingesting, file>>
    BY <1>6 DEF Measure
  <2>2. QED
    BY <1>0, <1>6, <2>1, MeasureKeeps, KeptStep
<1>7. CASE SessionStart
  <2>1. UNCHANGED <<ingesting, file>>
    BY <1>7 DEF SessionStart
  <2>2. QED
    BY <1>0, <1>7, <2>1, SessionStartKeeps, KeptStep
<1>8. CASE ApplyCalibration
  <2>1. UNCHANGED <<ingesting, file>>
    BY <1>8 DEF ApplyCalibration
  <2>2. QED
    BY <1>0, <1>8, <2>1, ApplyKeeps, KeptStep
<1>9. ASSUME NEW mode \in {"realtime", "calibrated"}, ChooseMode(mode) PROVE Advances
  <2>1. UNCHANGED <<ingesting, file>>
    BY <1>9 DEF ChooseMode
  <2>2. QED
    BY <1>0, <1>9, <2>1, ChooseModeKeeps, KeptStep
<1>10. CASE ClearCapture
  <2>1. UNCHANGED <<schema, ingesting, replay, epoch, results, file>>
    BY <1>10 DEF ClearCapture
  <2>2. Keeps(Clear(model), model')
    BY <1>0, <1>10, <2>1, ClearKeeps DEF ClearCapture, Consistent, Beside
  <2>3. QED
    BY <1>0, <2>1, <2>2, ForgetStep
<1>11. CASE Export
  BY <1>0, <1>11, SaveStep
<1>12. CASE Import
  BY <1>0, <1>12, LoadStep
<1>13. ASSUME NEW s \in Schemas, SchemaInstalled(s) PROVE Advances
  <2>1. UNCHANGED <<model, ingesting, file>>
    BY <1>13 DEF SchemaInstalled
  <2>2. QED
    BY <1>4, <2>1
<1>14. CASE RequestCalibration
  <2>1. UNCHANGED <<model, ingesting, file>>
    BY <1>14 DEF RequestCalibration
  <2>2. QED
    BY <1>4, <2>1
<1>15. ASSUME NEW v \in Vars, Draw(v) PROVE Advances
  <2>1. UNCHANGED <<model, ingesting, file>>
    BY <1>15 DEF Draw
  <2>2. QED
    BY <1>4, <2>1
<1>16. CASE UNCHANGED vars
  BY <1>4, <1>16 DEF vars
<1>17. QED
  BY <1>1, <1>2, <1>3, <1>5, <1>6, <1>7, <1>8, <1>9, <1>10, <1>11, <1>12, <1>13, <1>14,
     <1>15, <1>16 DEF Next

\* When frames are whole the recording is a table: a row is added for every frame, with
\* the time at which its values were taken, and what was exported is read back as it was
\* (data_model.py: add_data, add_raw_series; data_receiver.py: export_csv).
THEOREM RecordingIsATable == ASSUME FramesAreWhole PROVE Spec => IsASampleTable
<1>1. Init => Whole /\ Table!TableInit
  BY InitWhole
<1>2. Whole /\ [Next]_vars => Whole' /\ [Table!TableNext]_(Table!tableVars)
  BY WholeStep DEF Advances
<1>3. QED
  BY <1>1, <1>2, PTL DEF Spec, IsASampleTable, Table!TableSpec
===============================================================================

------------------------------- MODULE MonitorCsv ------------------------------
(***************************************************************************)
(* The capture file of monitor_csv.py, row by row.  Names of variables and *)
(* of columns are sequences of tokens, a column's name is the variable's   *)
(* with a suffix; the cells of a #var row are texts; the cells of a row of *)
(* samples are <<>>, or <<q>> with a number.  Times and values are the     *)
(* fractions of Fractions, times in microseconds.  A value that may be     *)
(* missing (None) is a set of at most one element.                         *)
(*                                                                         *)
(* Of fields treated alike one stands for all: section for unit, kind for  *)
(* category, owner and display_name, slot for the other integers.  Of the  *)
(* metadata only the mode, the clock and the origin of the times are kept. *)
(***************************************************************************)
EXTENDS Fractions, Sequences, SequencesExt, FiniteSetsExt, TLC

CURRENT_VERSION == 4

VarFields    == <<"name", "section", "kind", "direction", "scalar_type", "slot", "hidden",
                  "clock_domain">>
LegacyFields == <<"name", "section", "kind", "direction", "slot", "hidden">>
TypeNames    == <<"unknown", "bool", "u8", "u16", "u32", "i32", "f32">>

OptionalInt(text) == {n \in 0..9 : ToString(n) = text}

\* int(round(q)): a half goes to the even neighbour.
Round(q) ==
    LET below == q[1] \div q[2]
        twice == 2 * (q[1] % q[2])
    IN IF twice < q[2] \/ (twice = q[2] /\ below % 2 = 0) THEN below ELSE below + 1

-----------------------------------------------------------------------------
(* Writing.  An item is [name, desc, samples], a sample [t, session, v], t *)
(* in microseconds but not rounded yet.                                    *)

Text(optional) == IF optional = {} THEN "" ELSE ToString(CHOOSE n \in optional : TRUE)

DirectionText(d)  == IF d = {0} THEN "input" ELSE IF d = {1} THEN "output" ELSE Text(d)
ScalarTypeText(s) ==
    IF s # {} /\ s \subseteq 0..6 THEN TypeNames[1 + CHOOSE n \in s : TRUE] ELSE Text(s)

\* _descriptor_value, field by field.
VarRow(item) ==
    LET d == item.desc
    IN <<d.section, d.kind, DirectionText(d.direction), ScalarTypeText(d.scalar_type),
         Text(d.slot), IF d.hidden THEN "1" ELSE "0", d.clock_domain>>

\* Samples that are not finite are left out, variables without a sample too.
Prepared(items) ==
    SelectSeq([k \in DOMAIN items |->
                 [items[k] EXCEPT !.samples =
                    LET s == SelectSeq(@, LAMBDA x : Finite(x.t) /\ Finite(x.v))
                    IN [i \in DOMAIN s |-> [s[i] EXCEPT !.t = Round(@)]]]],
              LAMBDA item : item.samples # <<>>)

Columns(name) == <<Append(name, "_time_raw_us"), Append(name, "_session"), Append(name, "_value")>>

\* Mutant: a variable that has no more samples gets no cells.
CellsWithoutBlanks(item, r) ==
    IF r \notin DOMAIN item.samples THEN <<>>
    ELSE LET s == item.samples[r] IN <<<<Whole(s.t)>>, <<Whole(s.session)>>, <<s.v>>>>

\* The cells of a variable in row r.
Cells(item, r) ==
    IF r \notin DOMAIN item.samples THEN <<<<>>, <<>>, <<>>>>
    ELSE LET s == item.samples[r] IN <<<<Whole(s.t)>>, <<Whole(s.session)>>, <<s.v>>>>

\* <<file>>, or <<>> for the ValueError of a name that is empty or not unique.
WriteMonitorCsv(items, mode, clock, models) ==
    LET p == Prepared(items)
        rows == Max({0} \cup {Len(p[k].samples) : k \in DOMAIN p})
    IN IF \/ \E k \in DOMAIN items : items[k].name = <<>>
          \/ \E j, k \in DOMAIN items : j # k /\ items[j].name = items[k].name
       THEN <<>>
       ELSE <<[version |-> CURRENT_VERSION, mode |-> mode, clock |-> clock, origin |-> 0,
               fields  |-> VarFields,
               vars    |-> [k \in DOMAIN p |-> [name |-> p[k].name, row |-> VarRow(p[k])]],
               groups  |-> <<>>,
               models  |-> models,
               headers |-> FlattenSeq([k \in DOMAIN p |-> Columns(p[k].name)]),
               rows    |-> [r \in 1..rows |-> FlattenSeq([k \in DOMAIN p |-> Cells(p[k], r)])]]>>

-----------------------------------------------------------------------------
(* Reading the descriptions.                                               *)

NoDescriptor == [section |-> "Ungrouped", kind |-> "", direction |-> {}, scalar_type |-> {},
                 slot |-> {}, hidden |-> {}, clock_domain |-> ""]

DirectionValue(text) ==
    CASE text = "input" -> {0} [] text = "output" -> {1} [] OTHER -> OptionalInt(text)
ScalarTypeValue(text) ==
    IF \E n \in 0..6 : TypeNames[n + 1] = text THEN {n \in 0..6 : TypeNames[n + 1] = text}
    ELSE OptionalInt(text)

\* _parse_v3_descriptor and _parse_legacy_descriptor: fields are looked up by
\* their place among the file's fields, of which older files have fewer.
Descriptor(fields, row) ==
    LET at(field) == {i \in DOMAIN row : i + 1 \in DOMAIN fields /\ fields[i + 1] = field}
        text(field) == IF at(field) = {} THEN "" ELSE row[Max(at(field))]
    IN [section      |-> IF text("section") = "" THEN "Ungrouped" ELSE text("section"),
        kind         |-> text("kind"),
        direction    |-> DirectionValue(text("direction")),
        scalar_type  |-> ScalarTypeValue(text("scalar_type")),
        slot         |-> OptionalInt(text("slot")),
        hidden       |-> IF at("hidden") = {} \/ (fields = LegacyFields /\ text("hidden") = "")
                         THEN {} ELSE {text("hidden") = "1"},
        clock_domain |-> text("clock_domain")]

\* A later #group row replaces what a #var row said.
Descriptors(file) ==
    LET fields == IF file.version >= 3 THEN file.fields ELSE LegacyFields
        vars == [n \in {file.vars[k].name : k \in DOMAIN file.vars} |->
                   LET k == CHOOSE k \in DOMAIN file.vars : file.vars[k].name = n
                   IN Descriptor(fields, file.vars[k].row)]
    IN FoldLeft(LAMBDA ds, g : (g.name :> [NoDescriptor EXCEPT !.section = g.section]) @@ ds,
                vars, file.groups)

-----------------------------------------------------------------------------
(* Reading the samples.                                                    *)

Index(headers, column) == CHOOSE i \in DOMAIN headers : headers[i] = column
Has(headers, column)   == \E i \in DOMAIN headers : headers[i] = column
Ends(header, suffix)   == Len(header) > 1 /\ Last(header) = suffix

Pair(headers, name, time, session, value) ==
    [name |-> name, time |-> Index(headers, Append(name, time)), unit |-> time,
     session |-> IF session = "" THEN 0 ELSE Index(headers, Append(name, session)),
     value |-> Index(headers, Append(name, value))]

\* Whether the columns of a variable are all there.
Complete(headers, name, time, session, value) ==
    \A suffix \in {time, session, value} \ {""} : Has(headers, Append(name, suffix))

\* The columns of the variables: those with a description first, then those
\* found by the name of a column of times.
PairsOf(headers, described, time, session, value) ==
    LET complete(name) == Complete(headers, name, time, session, value)
        pair(name) == Pair(headers, name, time, session, value)
        found == SelectSeq(headers, LAMBDA h : Ends(h, time) /\ complete(Front(h))
                                                 /\ ~Contains(described, Front(h)))
        known == SelectSeq(described, complete)
    IN [k \in DOMAIN known |-> pair(known[k])] \o [k \in DOMAIN found |-> pair(Front(found[k]))]

\* Before version 3 columns are found by their names alone.
LegacyPairs(headers) ==
    LET usable(h, value) == Has(headers, Append(Front(h), value)) /\ h[1] # "x000"
        kept == SelectSeq(headers, LAMBDA h : \/ Ends(h, "_time_ms") /\ usable(h, "_value")
                                              \/ Ends(h, "_x") /\ usable(h, "_y"))
    IN [k \in DOMAIN kept |->
          Pair(headers, Front(kept[k]), Last(kept[k]), "",
               IF Last(kept[k]) = "_x" THEN "_y" ELSE "_value")]

ColumnPairs(headers, version, described) ==
    CASE version >= 4 -> PairsOf(headers, described, "_time_raw_us", "_session", "_value")
      [] version = 3  -> PairsOf(headers, described, "_time_us", "", "_value")
      [] OTHER        -> LegacyPairs(headers)

\* The model of a session, the last one the file has; one read in calibrated
\* mode falls back to the realtime one.
ModelFor(file, domain, session) ==
    LET having(mode) == {k \in DOMAIN file.models :
                           LET m == file.models[k] IN
                           /\ m.domain = domain /\ m.mode = mode
                           /\ (IF m.session = 0 THEN 1 ELSE m.session) = session
                           /\ (IF m.host_clock = "" THEN file.clock ELSE m.host_clock) = file.clock}
        found == IF having(file.mode) = {} /\ file.mode = "calibrated"
                 THEN having("realtime") ELSE having(file.mode)
    IN IF found = {} THEN {} ELSE {file.models[Max(found)]}

\* _clock_model_transform
ModelTransform(m, raw) ==
    IF ~m.complete THEN raw
    ELSE Plus(m.target, Times(Minus(raw, m.source), Plus(Whole(1), m.drift)))

\* The time of a cell on the axis of the plot.
Aligned(file, desc, unit, raw, session) ==
    LET domain == IF desc.clock_domain = "" THEN "monitor" ELSE desc.clock_domain
        model == ModelFor(file, domain, session)
    IN CASE unit = "_time_raw_us" ->
              IF model = {} THEN raw ELSE ModelTransform(CHOOSE m \in model : TRUE, raw)
         [] unit = "_time_us" -> Plus(Whole(file.origin), raw)
         [] OTHER -> Times(Whole(1000), raw)

\* What a row says of a variable: nothing when its cells are blank or missing.
RowSample(file, desc, pair, row) ==
    IF \/ pair.time > Len(row) \/ pair.value > Len(row) THEN <<>>
    ELSE IF row[pair.time] = <<>> \/ row[pair.value] = <<>> THEN <<>>
    ELSE LET cell == IF pair.session \in DOMAIN row THEN row[pair.session] ELSE <<>>
             session == IF cell = <<>> \/ cell = <<Nought>> THEN 1 ELSE cell[1][1]
             isRaw == pair.unit = "_time_raw_us"
             raw == IF isRaw THEN Whole(Round(row[pair.time][1])) ELSE row[pair.time][1]
         IN <<[t |-> Aligned(file, desc, pair.unit, raw, session), v |-> row[pair.value][1],
               raw |-> IF isRaw THEN raw ELSE NaN, session |-> IF isRaw THEN session ELSE 0]>>

\* What all rows say of the variables.
ReadRows(file, pairs, ds) ==
    LET desc(name) == IF name \in DOMAIN ds THEN ds[name] ELSE NoDescriptor
        cells(pair, row) == RowSample(file, desc(pair.name), pair, row)
        samples(name) ==
            FlattenSeq([r \in DOMAIN file.rows |->
                FlattenSeq([k \in DOMAIN pairs |->
                    IF pairs[k].name = name THEN cells(pairs[k], file.rows[r]) ELSE <<>>])])
    IN [name \in {pairs[k].name : k \in DOMAIN pairs} |->
          [desc |-> desc(name), samples |-> samples(name)]]

WithSamples(series) == Restrict(series, {name \in DOMAIN series : series[name].samples # <<>>})

\* <<series by name>>, or <<>> for a ValueError.
ReadMonitorCsv(file) ==
    LET names == [k \in DOMAIN file.vars |-> file.vars[k].name]
        described == names \o SelectSeq([k \in DOMAIN file.groups |-> file.groups[k].name],
                                        LAMBDA n : ~Contains(names, n))
    IN IF \/ file.version > CURRENT_VERSION
          \/ Cardinality(ToSet(names)) # Len(names)
          \/ Cardinality(ToSet(file.headers)) # Len(file.headers)
       THEN <<>>
       ELSE <<WithSamples(ReadRows(file, ColumnPairs(file.headers, file.version, described),
                                   Descriptors(file)))>>

================================================================================

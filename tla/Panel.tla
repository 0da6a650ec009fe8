--------------------------------- MODULE Panel ---------------------------------
(***************************************************************************)
(* The variable panel of the main window: which variables have a curve and *)
(* a control, in which section they stand, and which curves are computed   *)
(* from others (ui/main_window.py, ui/curve_state.py,                      *)
(* ui/reorderable_section_container.py, ui/task_variable_group.py).        *)
(*                                                                         *)
(* A schema of the device or an imported file replaces the variables, the  *)
(* user creates, edits and deletes derived curves and drags the sections.  *)
(* All of it runs in the GUI thread, but a drag has an event loop of its   *)
(* own, in which the timer that brings schemas goes on.                    *)
(*                                                                         *)
(* Colours, transforms, visibility and the focus are attributes of one     *)
(* curve and are left out.                                                 *)
(***************************************************************************)
EXTENDS Integers, FiniteSets, Sequences, SequencesExt

CONSTANTS
    Schemas,            \* what may be installed: sequences of descriptors
    DerivedNames,       \* names the user gives to derived curves
    StaticNames,        \* force sensor and motion capture: always there
    SectionNames,       \* the names of all sections, sorted
    MaxRefs,            \* bound: references of an expression
    MaxDrags,           \* bound: sections dragged
    InstallsWhileDragging,  \* whether the device may be heard during a drag
    None                \* Python's None

Names == ToSet(SectionNames)

\* A descriptor is one variable.  Its task is 0 outside the tasks.  A latency has no
\* control of its own, it is shown in the header of its section.
Descriptors == [ var: STRING, section: Names \ {"Derived"}, task: Nat, order: Nat,
                 latency: BOOLEAN ]
Described(schema) == {schema[i].var : i \in DOMAIN schema}

\* The sections of tasks are named after a task or a function, no other section is.
ASSUME PanelAssumption ==
    /\ SectionNames \in Seq(STRING) /\ "Derived" \in Names
    /\ Schemas \subseteq Seq(Descriptors)
    /\ \A s, t \in Schemas : \A i \in DOMAIN s, j \in DOMAIN t :
        /\ s[i].latency => s[i].task # 0
        /\ s[i].section = t[j].section => (s[i].task = 0 <=> t[j].task = 0)

VARIABLES
    registry,   \* what is registered: the record of EmptyRegistry
    available,  \* available_raw_variables
    specs,      \* curve_specs: derived curve -> the curves its expression names
    health,     \* derived_health
    selected,   \* selected_var_name
    custom,     \* _custom_section_order
    shown,      \* the order of the container the sections are drawn in
    drag,       \* the drag under way: its section and _drag_original_order
    drags       \* sections dragged so far

vars == <<registry, available, specs, health, selected, custom, shown, drag, drags>>

EmptyRegistry ==
    [ curves    |-> StaticNames,            \* curves, signal_variables
      controls  |-> StaticNames,            \* var_controls
      desc      |-> [v \in {} |-> None],    \* dynamic_signal_descriptors, _variables
      sectionOf |-> [v \in {} |-> None],    \* dynamic_signal_sections
      sections  |-> [s \in {} |-> None],    \* dataflow_export_sections
      groups    |-> [t \in {} |-> None],    \* task_variable_groups: task -> its section
      latency   |-> [t \in {} |-> None] ]   \* task_latency_vars

Init ==
    /\ registry = EmptyRegistry /\ available = StaticNames
    /\ specs = [n \in {} |-> {}] /\ health = [n \in {} |-> None]
    /\ selected = None /\ custom = <<>> /\ shown = <<>> /\ drag = None /\ drags = 0

Without(f, x) == [y \in DOMAIN f \ {x} |-> f[y]]
With(f, x, value) == [y \in DOMAIN f \cup {x} |-> IF y = x THEN value ELSE f[y]]
Derived == DOMAIN specs

-----------------------------------------------------------------------------
(* Sections.                                                               *)

RemoveEmpty(r, s) ==
    IF s \notin DOMAIN r.sections \/ s = "Derived" \/ r.sections[s].items # {} THEN r
    ELSE LET task == r.sections[s].task
             rest == [r EXCEPT !.sections = Without(@, s)]
         IN  IF task = 0 THEN rest
             ELSE [rest EXCEPT !.groups = Without(@, task), !.latency = Without(@, task)]

TakeOutLeavesEmpty(r, v) ==
    LET s == r.sectionOf[v]
    IN  IF v \in DOMAIN r.sectionOf /\ s \in DOMAIN r.sections /\ v \in r.sections[s].items
        THEN [r EXCEPT !.sections[s].items = @ \ {v}] ELSE r

TakeOut(r, v) ==
    LET s == r.sectionOf[v]
    IN  IF v \in DOMAIN r.sectionOf /\ s \in DOMAIN r.sections /\ v \in r.sections[s].items
        THEN RemoveEmpty([r EXCEPT !.sections[s].items = @ \ {v}], s)
        ELSE r

\* A section that is there keeps its task, and the groups stay as they are.
Section(r, s, task, order) ==
    IF s \in DOMAIN r.sections THEN [r EXCEPT !.sections[s].order = order]
    ELSE LET new == [items |-> {}, task |-> task, order |-> order]
         IN  [r EXCEPT !.sections = With(@, s, new),
                       !.groups = IF task = 0 THEN @ ELSE With(@, task, s)]

\* Derived curves first, then the plain sections, then the tasks by their numbers.
Before(sections, s, t) ==
    LET class(u)  == IF u = "Derived" THEN 0 ELSE IF sections[u].task = 0 THEN 1 ELSE 2
        number(u) == IF class(u) = 2 THEN sections[u].task ELSE sections[u].order
        name(u)   == CHOOSE i \in DOMAIN SectionNames : SectionNames[i] = u
    IN  \/ class(s) < class(t)
        \/ class(s) = class(t) /\ number(s) < number(t)
        \/ class(s) = class(t) /\ number(s) = number(t) /\ name(s) < name(t)

InDefaultOrder(sections, names) ==
    CHOOSE f \in [1 .. Cardinality(names) -> names] :
        \A i, j \in DOMAIN f : i < j => Before(sections, f[i], f[j])

\* The names of an order that are in a set, in that order.
Only(order, names) ==
    FoldLeft(LAMBDA some, s : IF s \in names THEN Append(some, s) ELSE some, <<>>, order)

Arranged(r, order) ==
    Only(order, DOMAIN r.sections)
        \o InDefaultOrder(r.sections, DOMAIN r.sections \ ToSet(order))

-----------------------------------------------------------------------------
(* Registration of a schema.                                               *)

RemoveDynamic(r, v) ==
    LET out == TakeOut(r, v)
    IN  [out EXCEPT !.curves = @ \ {v}, !.controls = @ \ {v},
                    !.desc = Without(@, v), !.sectionOf = Without(@, v)]

Announce(r, d) ==
    [r EXCEPT !.desc = With(@, d.var, d),
              !.latency = IF d.latency THEN With(@, d.task, d.var) ELSE @,
              !.curves = @ \cup {d.var},
              !.controls = IF d.latency THEN @ \ {d.var} ELSE @ \cup {d.var}]

Place(r, d) ==
    LET moved == IF d.var \in DOMAIN r.sectionOf /\ r.sectionOf[d.var] # d.section
                 THEN TakeOut(r, d.var) ELSE r
        there == Section(moved, d.section, d.task, d.order)
    IN  [there EXCEPT !.sectionOf = With(@, d.var, d.section),
                      !.sections[d.section].items = @ \cup {d.var}]

\* The names of derived curves and of static variables are not registered again.
Registered(r, d) ==
    IF d.var \in Derived \cup StaticNames THEN r ELSE Place(Announce(r, d), d)

Register(r, schema) ==
    LET dynamic == Described(schema) \ (Derived \cup StaticNames)
        clean   == FoldSet(LAMBDA v, q : RemoveDynamic(q, v), r, DOMAIN r.desc \ dynamic)
    IN  FoldLeft(Registered, clean, schema)

-----------------------------------------------------------------------------
(* Derived curves: resolve_derived_health.                                 *)

Sound == [missing |-> {}, conflicts |-> {}, cycle |-> FALSE]

HealthOneDeep(ss, raw) ==
    [n \in DOMAIN ss |->
        [ missing   |-> ss[n] \ (DOMAIN ss \cup raw),
          conflicts |-> {n} \cap raw, cycle |-> n \in ss[n] ]]

HealthOf(ss, raw) ==
    LET resolve[at \in (DOMAIN ss) \X (SUBSET DOMAIN ss)] ==
            LET n == at[1]
                above == at[2]
                below == {resolve[<<m, above \cup {n}>>] : m \in ss[n] \cap DOMAIN ss}
            IN  IF n \in above THEN [Sound EXCEPT !.cycle = TRUE]
                ELSE [ missing   |-> (ss[n] \ (DOMAIN ss \cup raw))
                                       \cup UNION {h.missing : h \in below},
                       conflicts |-> ({n} \cap raw) \cup UNION {h.conflicts : h \in below},
                       cycle     |-> \E h \in below : h.cycle ]
    IN  [n \in DOMAIN ss |-> resolve[<<n, {}>>]]

Valid(h) == h.missing = {} /\ h.conflicts = {} /\ ~h.cycle

\* The references between derived curves, and the same from the other end.
Uses(ss) == [n \in DOMAIN ss |-> ss[n] \cap DOMAIN ss]
UsedBy(ss) == [n \in DOMAIN ss |-> {m \in DOMAIN ss : n \in ss[m]}]

\* The names, what they lead to, what that leads to, and so on: the smallest set that
\* has the names and what each of its members leads to.
Reached(to, names) ==
    {m \in DOMAIN to : \A s \in SUBSET DOMAIN to :
        names \subseteq s /\ (\A k \in s : to[k] \subseteq s) => m \in s}

\* Whether an expression with references refs leads back to the curve n.
WouldCycle(n, refs) ==
    \/ n \in refs
    \/ \E m \in Reached(Uses(specs), refs \cap Derived) : n = m \/ n \in specs[m]

\* _derived_dependents, and the curves themselves.
WithDependents(names) == Reached(UsedBy(specs), names)

-----------------------------------------------------------------------------
(* What happens to the panel.                                              *)

\* The container takes the sections in the order of the relayout.
Relayout == shown' = Arranged(registry', custom')

\* activate_live_dataflow_export_descriptors and _load_imported_series: the health
\* is computed before the registration and again after it, from the same facts.
Install(schema, raw) ==
    /\ registry' = Register(registry, schema)
    /\ available' = raw
    /\ health' = HealthOf(specs, raw)
    /\ selected' = IF selected \in registry'.curves THEN selected ELSE None
    /\ UNCHANGED <<specs, custom>>
    /\ Relayout

InstallLive ==
    /\ drag = None \/ InstallsWhileDragging
    /\ \E schema \in Schemas : Install(schema, Described(schema) \cup StaticNames)
    /\ UNCHANGED <<drag, drags>>

Import ==
    /\ drag = None
    /\ \E schema \in Schemas : Install(schema, Described(schema))
    /\ UNCHANGED <<drag, drags>>

\* The dialog accepts references to curves, at least one, and no cycle.
Acceptable(n, refs) ==
    refs # {} /\ refs \subseteq registry.curves /\ ~WouldCycle(n, refs)

CreateDerived(n) ==
    /\ drag = None /\ n \notin registry.curves
    /\ \E refs \in SUBSET registry.curves :
        /\ Cardinality(refs) <= MaxRefs /\ Acceptable(n, refs)
        /\ specs' = With(specs, n, refs)
    /\ LET there == Section(registry, "Derived", 0, 0)
       IN  registry' = [there EXCEPT !.curves = @ \cup {n}, !.controls = @ \cup {n},
                                     !.sectionOf = With(@, n, "Derived"),
                                     !.sections["Derived"].items = @ \cup {n}]
    /\ health' = HealthOf(specs', available)
    /\ selected' = n
    /\ UNCHANGED <<available, custom, drag, drags>>
    /\ Relayout

\* edit_selected_derived_curve.
UpdateDerived ==
    /\ drag = None /\ selected \in Derived
    /\ \E refs \in SUBSET registry.curves :
        /\ Cardinality(refs) <= MaxRefs /\ Acceptable(selected, refs)
        /\ specs' = [specs EXCEPT ![selected] = refs]
    /\ health' = HealthOf(specs', available)
    /\ UNCHANGED <<registry, available, selected, custom, shown, drag, drags>>

\* delete_selected_derived_curve: what depends on the curve goes with it.
DeleteDerived ==
    /\ drag = None /\ selected \in Derived
    /\ LET names == WithDependents({selected})
           left  == registry.sections["Derived"].items \ names
       IN  /\ specs' = [n \in Derived \ names |-> specs[n]]
           /\ registry' =
                [registry EXCEPT
                    !.curves = @ \ names, !.controls = @ \ names,
                    !.sectionOf = [v \in DOMAIN @ \ names |-> @[v]],
                    !.sections = IF left = {} THEN Without(@, "Derived")
                                 ELSE [@ EXCEPT !["Derived"].items = left]]
    /\ selected' = None
    /\ health' = HealthOf(specs', available)
    /\ UNCHANGED <<available, custom, drag, drags>>
    /\ Relayout

Select ==
    /\ drag = None
    /\ \E v \in registry.curves : selected' = v
    /\ UNCHANGED <<registry, available, specs, health, custom, shown, drag, drags>>

-----------------------------------------------------------------------------
(* Dragging a section: only the container knows the order until the drop.  *)

StartDrag ==
    /\ drag = None /\ drags < MaxDrags
    /\ \E s \in ToSet(shown) : drag' = [section |-> s, before |-> shown]
    /\ drags' = drags + 1
    /\ UNCHANGED <<registry, available, specs, health, selected, custom, shown>>

DragOver ==
    /\ drag # None /\ drag.section \in DOMAIN registry.sections
    /\ LET others == Only(shown, Names \ {drag.section})
       IN  \E i \in 1 .. Len(others) + 1 : shown' = InsertAt(others, i, drag.section)
    /\ UNCHANGED <<registry, available, specs, health, selected, custom, drag, drags>>

\* _set_custom_section_order.
Drop ==
    /\ drag # None /\ drag.section \in DOMAIN registry.sections
    /\ custom' = Only(shown, DOMAIN registry.sections)
    /\ drag' = None
    /\ UNCHANGED <<registry, available, specs, health, selected, drags>>
    /\ Relayout

CancelDrag ==
    /\ drag # None
    /\ shown' = drag.before /\ drag' = None
    /\ UNCHANGED <<registry, available, specs, health, selected, custom, drags>>

\* reset_section_layout.
ResetLayout ==
    /\ drag = None
    /\ custom' = <<>>
    /\ UNCHANGED <<registry, available, specs, health, selected, drag, drags>>
    /\ Relayout

\* resizeEvent.
Resize ==
    /\ drag = None
    /\ UNCHANGED <<registry, available, specs, health, selected, custom, drag, drags>>
    /\ Relayout

Next ==
    \/ InstallLive \/ Import
    \/ \E n \in DerivedNames : CreateDerived(n)
    \/ UpdateDerived \/ DeleteDerived \/ Select
    \/ StartDrag \/ DragOver \/ Drop \/ CancelDrag \/ ResetLayout \/ Resize

Spec == Init /\ [][Next]_vars

(* Properties.                                                             *)

Variables == (UNION {Described(s) : s \in Schemas}) \cup DerivedNames \cup StaticNames
Tasks == UNION {{s[i].task : i \in DOMAIN s} : s \in Schemas}

\* Every variable of the model has its type; the panel's tables speak of the same
\* variables: what has a section has a curve, what has a control too.
TypeOK ==
    /\ registry.curves \subseteq Variables /\ registry.controls \subseteq registry.curves
    /\ DOMAIN registry.desc \subseteq DOMAIN registry.sectionOf
    /\ DOMAIN registry.sectionOf = registry.curves \ StaticNames
    /\ \A s \in DOMAIN registry.sections :
        s \in Names /\ registry.sections[s].items \subseteq Variables
    /\ DOMAIN registry.groups \subseteq Tasks /\ DOMAIN registry.latency \subseteq Tasks
    /\ available \subseteq Variables /\ Derived \subseteq DerivedNames
    /\ \A n \in Derived : specs[n] \subseteq Variables
    /\ selected \in registry.curves \cup {None}
    /\ ToSet(custom) \subseteq Names /\ IsInjective(custom) /\ IsInjective(shown)

\* A variable stands in the section it is said to be in and in no other, whatever
\* schemas moved it, and no section is empty: an empty box would stay in the panel.
SectionsAreExact ==
    /\ \A s \in DOMAIN registry.sections :
        /\ registry.sections[s].items # {}
        /\ registry.sections[s].items =
                {v \in DOMAIN registry.sectionOf : registry.sectionOf[v] = s}
    /\ Range(registry.sectionOf) \subseteq DOMAIN registry.sections

\* The boxes task_variable_groups points to are those of sections that are there:
\* register_dataflow_export_descriptors and clear_data call every one of them, and the
\* call of a deleted widget raises.
GroupsAreAlive ==
    \A t \in DOMAIN registry.groups :
        registry.groups[t] \in DOMAIN registry.sections
            /\ registry.sections[registry.groups[t]].task = t

\* The stored health is what the specifications and the variables there are say, with
\* the references followed to any depth: a curve is valid exactly when everything it
\* is computed from is there and only once, and no curve is computed from itself.
HealthTellsTheTruth ==
    LET uses == Uses(specs)
        under(n) == Reached(uses, {n})
        leaves(n) == (UNION {specs[m] : m \in under(n)}) \ Derived
    IN  \A n \in Derived :
            /\ n \notin Reached(uses, uses[n])
            /\ health[n] = [ missing   |-> leaves(n) \ available,
                             conflicts |-> under(n) \cap available,
                             cycle     |-> FALSE ]

\* A valid derived curve can be drawn: each curve it names is plotted.  A variable may
\* be available and have no curve, while a derived curve has its name and after that.
ValidIsPlottable ==
    \A n \in Derived : Valid(health[n]) => specs[n] \subseteq registry.curves

\* While nothing is dragged the container shows every section once.  This is so only
\* if no schema arrives during a drag: a cancelled drag puts back the order before.
AllSectionsAreShown == drag = None => ToSet(shown) = DOMAIN registry.sections

\* The panel's tables, its sections and what the container shows agree.
SectionsSound == TypeOK /\ SectionsAreExact /\ GroupsAreAlive /\ AllSectionsAreShown

\* What is said of a derived curve is so, and what is valid can be drawn.
HealthSound == HealthTellsTheTruth /\ ValidIsPlottable
================================================================================

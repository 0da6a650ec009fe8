-------------------------------- MODULE CurveExpr -------------------------------
(***************************************************************************)
(* Derived curves: the expressions of ui/curve_expression.py and their     *)
(* evaluation in ui/main_window.py.                                        *)
(*                                                                         *)
(* The text of an expression is a sequence of tokens: the punctuation, the *)
(* digits of Number, and words; white space is left out.  A curve's name   *)
(* is a sequence of tokens too, for a name may hold punctuation.  A node   *)
(* is a tuple, as in the code: <<"num", q>>, <<"ref", name>>,              *)
(* <<"unary", op, e>>, <<"bin", op, l, r>>, <<"call", f, args>>.           *)
(***************************************************************************)
EXTENDS Curves, TLC

Number  == ("0" :> 0) @@ ("1" :> 1) @@ ("2" :> 2) @@ ("4" :> 4)
Stops   == {"(", ")", "+", "-", "*", "/", ","}
IsWord(x) == x \notin Stops \cup {"[", "]", "end"} \cup DOMAIN Number

-----------------------------------------------------------------------------
(* The parser: every rule takes the text and a position and returns the    *)
(* node and the position after it, or Error.                               *)

Error == [node |-> <<>>, pos |-> 0]
Failed(r) == r.pos = 0
Found(node, pos) == [node |-> node, pos |-> pos]

Peek(text, i) == IF i \in DOMAIN text THEN text[i] ELSE "end"

\* Consume a token after a rule.
Then(text, r, x) == IF Failed(r) \/ Peek(text, r.pos) # x THEN Error ELSE Found(r.node, r.pos + 1)

\* _parse_bracket_curve_ref and _parse_curve_ref: the name from position i up
\* to the first token that ends it.
NameUpTo(text, i, Ends(_)) ==
    LET stop == Min({j \in i..Len(text) + 1 : Ends(Peek(text, j))})
    IN IF stop = i THEN Error ELSE Found(<<"ref", SubSeq(text, i, stop - 1)>>, stop)

RECURSIVE ParseExpr(_, _), ParseTerm(_, _), ParseUnary(_, _), ParseArgs(_, _, _),
          MoreTerms(_, _), MoreFactors(_, _)

ParsePrimary(text, i) ==
    LET ch == Peek(text, i) IN
    CASE ch = "(" -> Then(text, ParseExpr(text, i + 1), ")")
      [] ch = "[" -> Then(text, NameUpTo(text, i + 1, LAMBDA x : x \in {"]", "end"}), "]")
      [] ch = "/" -> NameUpTo(text, i + 1, LAMBDA x : x \in Stops \cup {"end"})
      [] ch \in DOMAIN Number -> Found(<<"num", Whole(Number[ch])>>, i + 1)
      [] IsWord(ch) /\ Peek(text, i + 1) = "(" ->
           LET args == IF Peek(text, i + 2) = ")" THEN Found(<<>>, i + 2)
                       ELSE ParseArgs(text, <<>>, i + 2)
               r == Then(text, args, ")")
           IN IF Failed(r) THEN Error ELSE Found(<<"call", ch, r.node>>, r.pos)
      [] OTHER -> Error

ParseArgs(text, args, i) ==
    LET r == ParseExpr(text, i)
        all == Append(args, r.node)
    IN CASE Failed(r) -> Error
         [] ~Failed(r) /\ Peek(text, r.pos) = "," -> ParseArgs(text, all, r.pos + 1)
         [] OTHER -> Found(all, r.pos)

ParseUnary(text, i) ==
    LET op == Peek(text, i) IN
    IF op \in {"+", "-"}
    THEN LET r == ParseUnary(text, i + 1)
         IN IF Failed(r) THEN Error ELSE Found(<<"unary", op, r.node>>, r.pos)
    ELSE ParsePrimary(text, i)

\* Another operand on the right of the node read so far.
Binary(op, l, r) == IF Failed(r) THEN Error ELSE Found(<<"bin", op, l.node, r.node>>, r.pos)

MoreFactors(text, l) ==
    IF Failed(l) \/ Peek(text, l.pos) \notin {"*", "/"} THEN l
    ELSE MoreFactors(text, Binary(text[l.pos], l, ParseUnary(text, l.pos + 1)))

ParseTerm(text, i) == MoreFactors(text, ParseUnary(text, i))

\* Mutant: the operand on the right swallows the rest of the sum.
MoreTermsToTheRight(text, l) ==
    IF Failed(l) \/ Peek(text, l.pos) \notin {"+", "-"} THEN l
    ELSE Binary(text[l.pos], l, ParseExpr(text, l.pos + 1))

MoreTerms(text, l) ==
    IF Failed(l) \/ Peek(text, l.pos) \notin {"+", "-"} THEN l
    ELSE MoreTerms(text, Binary(text[l.pos], l, ParseTerm(text, l.pos + 1)))

ParseExpr(text, i) == MoreTerms(text, ParseTerm(text, i))

Parse(text) ==
    LET r == ParseExpr(text, 1)
    IN IF Failed(r) \/ r.pos # Len(text) + 1 THEN Error.node ELSE r.node

\* _format_curve_ref: what the panel inserts for a curve.
FormatCurveRef(name) ==
    IF Contains(name, "]") THEN <<"/">> \o name ELSE <<"[">> \o name \o <<"]">>

-----------------------------------------------------------------------------
(* Evaluation.  env[name] is what the window knows of a curve: its samples *)
(* or its expression, whether it is valid, and its display transform.      *)

\* A query for the history, or for a range of it.
History == [whole |-> TRUE, lo |-> 0, hi |-> 0]
Between(lo, hi) == [whole |-> FALSE, lo |-> lo, hi |-> hi]

Shifted(range, by) == [range EXCEPT !.lo = @ + by, !.hi = @ + by]

Unspelt(f) == IF f = "soomth" THEN "smooth" ELSE f

\* get_series_between with two samples more on either side.
Stored(s, range) ==
    LET first == Min({i \in 1..Len(s) + 1 : i = Len(s) + 1 \/ (i \in DOMAIN s /\ s[i].t >= range.lo)})
        last  == Max({i \in 0..Len(s) : i = 0 \/ (i \in DOMAIN s /\ s[i].t <= range.hi)})
    IN IF range.whole THEN s ELSE SubSeq(s, Max({1, first - 2}), Min({Len(s), last + 2}))

RECURSIVE Eval(_, _, _, _)

Transformed(s, c) ==
    [i \in DOMAIN s |-> [t |-> s[i].t + c.phase, v |-> Plus(Times(s[i].v, c.scale), c.offset)]]

\* Mutant: the range is looked up in the time of the display.
CurveUnshifted(env, name, stack, range) ==
    IF name \notin DOMAIN env \/ name \in stack THEN <<>>
    ELSE LET c == env[name] IN
         IF c.ast = <<>> THEN Transformed(Stored(c.samples, range), c)
         ELSE LET v == Eval(env, c.ast, stack \cup {name}, range)
              IN IF c.valid /\ IsSeries(v) THEN Transformed(v.s, c) ELSE <<>>

\* _curve_full_transformed_data and _curve_source_data.  A curve that refers to
\* itself has no data.
Curve(env, name, stack, range) ==
    IF name \notin DOMAIN env \/ name \in stack THEN <<>>
    ELSE LET c == env[name]
             source == Shifted(range, -c.phase)
         IN IF c.ast = <<>> THEN Transformed(Stored(c.samples, source), c)
            ELSE LET v == Eval(env, c.ast, stack \cup {name}, source)
                 IN IF c.valid /\ IsSeries(v) THEN Transformed(v.s, c) ELSE <<>>

Negated(value) ==
    IF IsScalar(value) THEN Scalar(Neg(value.v))
    ELSE Series([i \in DOMAIN value.s |-> [value.s[i] EXCEPT !.v = Neg(@)]])

\* The function of a call on its arguments; sg and joint_tau are not modelled.
Call(f, args) ==
    LET n == Len(args)
        scalarsFrom(k) == \A i \in k..n : IsScalar(args[i])
        filter == n > 1 /\ IsSeries(args[1]) /\ scalarsFrom(2)
        width == args[2].v[1] \div args[2].v[2]
    IN CASE f = "d" /\ n = 1 /\ IsSeries(args[1]) -> Series(Differentiate(args[1].s))
         [] f \in {"smooth", "moving_average"} /\ n = 2 /\ filter ->
              Series(MovingAverage(args[1].s, width))
         [] f = "moving_median" /\ n = 2 /\ filter -> Series(MovingMedian(args[1].s, width))
         [] f = "hampel" /\ n = 3 /\ filter -> Series(HampelFilter(args[1].s, width, args[3].v))
         [] f = "sign" /\ n = 1 -> Sign(args[1])
         [] f = "clip" /\ n \in {2, 3} /\ scalarsFrom(2) ->
              Clip(args[1], [i \in 1..n - 1 |-> args[i + 1].v])
         [] OTHER -> Empty

Eval(env, node, stack, range) ==
    CASE node[1] = "num" -> Scalar(node[2])
      [] node[1] = "ref" -> Series(Curve(env, node[2], stack, range))
      [] node[1] = "unary" /\ node[2] = "+" -> Eval(env, node[3], stack, range)
      [] node[1] = "unary" /\ node[2] = "-" -> Negated(Eval(env, node[3], stack, range))
      [] node[1] = "bin" ->
           Combine(node[2], Eval(env, node[3], stack, range), Eval(env, node[4], stack, range))
      [] node[1] = "call" ->
           Call(Unspelt(node[2]), [i \in DOMAIN node[3] |-> Eval(env, node[3][i], stack, range)])

-----------------------------------------------------------------------------
(* What a window of the plot shows.                                        *)

\* _static_scalar_expr_value; NaN for an expression that is no constant.
RECURSIVE StaticScalar(_)
StaticScalar(node) ==
    CASE node[1] = "num" -> node[2]
      [] node[1] = "unary" /\ node[2] = "+" -> StaticScalar(node[3])
      [] node[1] = "unary" /\ node[2] = "-" -> Neg(StaticScalar(node[3]))
      [] node[1] = "bin" -> Apply(node[2], StaticScalar(node[3]), StaticScalar(node[4]))
      [] OTHER -> NaN

Windowed == {"smooth", "moving_average", "moving_median", "hampel", "sg", "joint_tau"}

\* The width of the filter a call applies, if it is a constant.
WidthOf(f, args) ==
    LET q == IF Unspelt(f) \in Windowed /\ Len(args) > 1 THEN StaticScalar(args[2]) ELSE NaN
    IN IF Finite(q) THEN Max({0, q[1] \div q[2]}) ELSE 0

\* How far outside of the window the samples lie that its curve depends on.
RECURSIVE ContextOf(_, _, _)

ContextOf(env, node, stack) ==
    CASE node[1] = "ref" ->
           IF node[2] \in stack \/ node[2] \notin DOMAIN env \/ env[node[2]].ast = <<>> THEN 0
           ELSE ContextOf(env, env[node[2]].ast, stack \cup {node[2]})
      [] node[1] = "unary" -> ContextOf(env, node[3], stack)
      [] node[1] = "bin" -> Max({ContextOf(env, node[3], stack), ContextOf(env, node[4], stack)})
      [] node[1] = "call" ->
           Max({0} \cup {ContextOf(env, node[3][i], stack) : i \in DOMAIN node[3]})
             + WidthOf(node[2], node[3])
      [] OTHER -> 0

\* _clip_curve_to_time_window
Clipped(s, lo, hi) == SelectSeq(s, LAMBDA x : lo <= x.t /\ x.t <= hi)

\* _curve_plot_data, before the samples are thinned out for the screen.
PlotData(env, name, lo, hi) ==
    LET context == ContextOf(env, <<"ref", name>>, {})
    IN Clipped(Curve(env, name, {}, Between(lo - context, hi + context)), lo, hi)

================================================================================

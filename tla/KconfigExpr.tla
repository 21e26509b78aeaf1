------------------------------ MODULE KconfigExpr ------------------------------
(***************************************************************************)
(* The dependency expressions of the configuration tool                    *)
(* (buildroot/support/kconfig/expr.c): how they are evaluated, rewritten,  *)
(* compared and printed.  KconfigRules has what happens at one node.       *)
(***************************************************************************)
EXTENDS KconfigRules, Sequences, SequencesExt, FiniteSets

RECURSIVE CalcValue(_, _)
CalcValue(e, v) == ValueBy(LAMBDA f : CalcValue(f, v), e, v)

-----------------------------------------------------------------------------
(* The operands of an expression at one level of && or ||, and the tree of  *)
(* the same shape over other operands.                                      *)

RECURSIVE Operands(_, _)
Operands(type, e) ==
    IF e[1] = type THEN Operands(type, e[2]) \o Operands(type, e[3]) ELSE <<e>>

RECURSIVE Rebuild(_, _, _)
Rebuild(type, e, ops) ==
    IF e[1] # type THEN Head(ops)
    ELSE LET k == Len(Operands(type, e[2]))
         IN  <<type, Rebuild(type, e[2], SubSeq(ops, 1, k)),
                     Rebuild(type, e[3], SubSeq(ops, k + 1, Len(ops)))>>

\* All index pairs, in the order of a loop over the second within the first.
IndexPairs(m, n) ==
    [k \in 1 .. m * n |-> <<((k - 1) \div n) + 1, ((k - 1) % n) + 1>>]

-----------------------------------------------------------------------------
(* Simplification. *)

RECURSIVE EliminateYN(_)
EliminateYN(e) == EliminateYNBy(EliminateYN, e)

RECURSIVE ExprEq(_, _)

\* The i-th operand of one expression and the j-th of the other: equal ones
\* become neutral.
EqualOut(type, ops, i, j) ==
    IF /\ ~(ops[1][i] = ops[2][j] /\ ops[1][i] \in {Sym("y"), Sym("n")})
       /\ ExprEq(ops[1][i], ops[2][j])
    THEN <<[ops[1] EXCEPT ![i] = Neutral(type)], [ops[2] EXCEPT ![j] = Neutral(type)]>>
    ELSE ops

EqualsOut(type, ops) ==
    FoldLeft(LAMBDA o, ij : EqualOut(type, o, ij[1], ij[2]), ops,
             IndexPairs(Len(ops[1]), Len(ops[2])))

RebuildBoth(type, pair, ops) ==
    <<Rebuild(type, pair[1], ops[1]), Rebuild(type, pair[2], ops[2])>>

\* One pass over the operands of the two, at the level of the type of one.
EliminateEqPass(pair, type) ==
    IF type \in {"and", "or"}
    THEN RebuildBoth(type, pair, EqualsOut(type, <<Operands(type, pair[1]),
                                                   Operands(type, pair[2])>>))
    ELSE pair

\* The second expression's own level, if it is another.
EliminateEqOther(pair) ==
    IF pair[1][1] # pair[2][1] THEN EliminateEqPass(pair, pair[2][1]) ELSE pair

EliminateYNBoth(pair) == <<EliminateYN(pair[1]), EliminateYN(pair[2])>>

\* Removes the operands that e and f have in common.
EliminateEq(e, f) ==
    IF Null \in {e, f} THEN <<e, f>>
    ELSE EliminateYNBoth(EliminateEqOther(EliminateEqPass(<<e, f>>, e[1])))

NothingLeft(pair) == pair[1] = pair[2] /\ pair[1][1] = "sym"

ExprEq(e, f) ==
    /\ e[1] = f[1]
    /\ CASE e[1] \in Comparisons \cup {"sym"} -> e = f
         [] e[1] = "not" -> ExprEq(e[2], f[2])
         [] OTHER -> NothingLeft(EliminateEq(e, f))

RECURSIVE TransBool(_)
TransBool(e) == TransBoolBy(TransBool, e)

-----------------------------------------------------------------------------
(* Joining two operands into one, where that is possible (Null if not).    *)

\* A mutant: a || !a is y for a tristate too.
JoinOrAnyType(e, f) ==
    IF AboutOneSymbol(e, f) /\ Are(e, f, Sym(Subject(e)), <<"not", Sym(Subject(e))>>)
    THEN Sym("y") ELSE Null

JoinOr(e, f) == IF ExprEq(e, f) THEN e ELSE JoinedOr(e, f)
JoinAnd(e, f) == IF ExprEq(e, f) THEN e ELSE JoinedAnd(e, f)

\* The operands at the level of type after the i-th, which has become inner,
\* has met the j-th: a joined pair leaves the joined operand second and a
\* neutral one first.
Meet(type, s, i, j, inner, joined) ==
    IF joined = Null
    THEN [ops |-> [s.ops EXCEPT ![i] = inner.expr], changed |-> s.changed \/ inner.changed]
    ELSE [ops |-> [s.ops EXCEPT ![i] = Neutral(type), ![j] = joined], changed |-> TRUE]

MeetAt(type, s, i, j, inner) ==
    Meet(type, s, i, j, inner, IF type = "or" THEN JoinOr(inner.expr, s.ops[j])
                                              ELSE JoinAnd(inner.expr, s.ops[j]))

\* One pass over all pairs of operands of e at the level of type.
RECURSIVE DupsPass(_, _)
DupsStep(type, s, i, j) ==
    IF i = j THEN s
    ELSE MeetAt(type, s, i, j, IF s.ops[i][1] \in {"and", "or"}
                               THEN DupsPass(s.ops[i][1], s.ops[i])
                               ELSE [expr |-> s.ops[i], changed |-> FALSE])

Rebuilt(type, e, last) == [expr |-> Rebuild(type, e, last.ops), changed |-> last.changed]

DupsOver(type, e, ops) ==
    Rebuilt(type, e,
            FoldLeft(LAMBDA s, ij : DupsStep(type, s, ij[1], ij[2]),
                     [ops |-> ops, changed |-> FALSE], IndexPairs(Len(ops), Len(ops))))

DupsPass(type, e) == DupsOver(type, e, Operands(type, e))

\* Joins operands, pass after pass, until a pass changes nothing.
RECURSIVE EliminateDups(_)
AfterPass(pass) == IF pass.changed THEN EliminateDups(EliminateYN(pass.expr)) ELSE pass.expr
EliminateDups(e) == IF e[1] \in {"and", "or"} THEN AfterPass(DupsPass(e[1], e)) ELSE e

-----------------------------------------------------------------------------
(* Rewriting negations and comparisons of booleans. *)

RECURSIVE Transform(_)
Transform(e) == TransformBy(Transform, e)

-----------------------------------------------------------------------------
(* Questions about an expression. *)

RECURSIVE ContainsSymbol(_, _)
ContainsSymbol(e, s) == ContainsSymbolBy(ContainsSymbol, e, s)

RECURSIVE DependsSymbol(_, _)
DependsSymbol(e, s) == DependsSymbolBy(DependsSymbol, e, s)

\* A mutant: a conjunction is n only if all of it is.
RECURSIVE TransCompareSame(_, _, _)
TransCompareSame(e, type, s) ==
    CASE e[1] \in {"and", "or"} ->
           <<e[1], TransCompareSame(e[2], type, s), TransCompareSame(e[3], type, s)>>
      [] e[1] = "sym" -> <<type, e[2], s>>
      [] OTHER -> e

RECURSIVE TransCompare(_, _, _)
TransCompare(e, type, s) == TransCompareBy(TransCompare, e, type, s)

-----------------------------------------------------------------------------
(* Printing: the sequence of tokens, with a parenthesis where the operator  *)
(* around the expression binds tighter than its own.                        *)

Binding == [none |-> 0, list |-> 1, or |-> 2, and |-> 3, not |-> 4]
\* A mutant: only a negation is followed by a parenthesis.
BindsTighterNot(prev, type) == prev = "not" /\ type \in {"and", "or"}

BindsTighter(prev, type) ==
    /\ prev # type
    /\ prev # "none"
    /\ type \in DOMAIN Binding
    /\ Binding[prev] > Binding[type]

RECURSIVE ExprTokens(_, _)
ExprTokens(e, prev) ==
    LET body ==
            CASE e[1] = "sym" -> <<e[2]>>
              [] e[1] = "not" -> <<"!">> \o ExprTokens(e[2], "not")
              [] IsComp(e) -> <<e[2], e[1], e[3]>>
              [] e[1] = "or" -> ExprTokens(e[2], "or") \o <<"||">> \o ExprTokens(e[3], "or")
              [] e[1] = "and" -> ExprTokens(e[2], "and") \o <<"&&">> \o ExprTokens(e[3], "and")
    IN  IF e = Null THEN <<"y">>
        ELSE IF BindsTighter(prev, e[1]) THEN <<"(">> \o body \o <<")">>
        ELSE body

\* The reverse dependencies that the help text lists under the value t.
RevdepGroup(e, t, v) ==
    SelectSeq(Operands("or", e), LAMBDA f : CalcValue(f, v) = t)

-----------------------------------------------------------------------------
(* Reading an expression back: the grammar of zconf.y, where || binds least *)
(* and both || and && associate to the left.                                *)

Depth(ts, i) == Cardinality({j \in 1 .. i : ts[j] = "("})
                  - Cardinality({j \in 1 .. i : ts[j] = ")"})
OuterTokens(ts, t) == {i \in DOMAIN ts : ts[i] = t /\ Depth(ts, i) = 0}
LastOf(S) == CHOOSE i \in S : \A j \in S : j <= i

RECURSIVE ParseExpr(_)
ParseExpr(ts) ==
    LET split(type, t) ==
            LET i == LastOf(OuterTokens(ts, t))
            IN  <<type, ParseExpr(SubSeq(ts, 1, i - 1)),
                        ParseExpr(SubSeq(ts, i + 1, Len(ts)))>>
    IN  CASE OuterTokens(ts, "||") # {} -> split("or", "||")
          [] OuterTokens(ts, "||") = {} /\ OuterTokens(ts, "&&") # {} -> split("and", "&&")
          [] OTHER -> CASE Head(ts) = "!" -> <<"not", ParseExpr(Tail(ts))>>
                        [] Head(ts) = "(" -> ParseExpr(SubSeq(ts, 2, Len(ts) - 1))
                        [] Len(ts) = 1 -> Sym(Head(ts))
                        [] OTHER -> <<ts[2], ts[1], ts[3]>>

=============================================================================

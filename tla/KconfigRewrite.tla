---------------------------- MODULE KconfigRewrite ----------------------------
(***************************************************************************)
(* A dependency expression on its way through expr.c: what a Kconfig file  *)
(* gave, and what is left of it after the rewriting functions have been    *)
(* applied to it, in whatever order and as often as the front ends and     *)
(* menu_finalize call them.                                                *)
(***************************************************************************)
EXTENDS KconfigExpr

CONSTANTS
    Exprs,      \* the expressions a Kconfig file may give
    Parents,    \* the dependencies an enclosing menu or if may add to them
    Valuations  \* the values that the declared symbols may have together

VARIABLES
    given,      \* the expression as it was read, with its parent's
    expr,       \* the expression as it has been rewritten
    enclosed    \* a parent's dependency has been put in front

vars == <<given, expr, enclosed>>

Init ==
    /\ given \in Exprs
    /\ expr = given
    /\ enclosed = FALSE

\* An enclosing menu's dependency is put in front (menu_finalize).
Enclose ==
    /\ ~enclosed
    /\ enclosed' = TRUE
    /\ \E p \in Parents :
         /\ given' = AllocAnd(p, given)
         /\ expr' = AllocAnd(p, expr)

TransformStep ==
    /\ expr' = Transform(expr)
    /\ UNCHANGED <<given, enclosed>>

EliminateDupsStep ==
    /\ expr' = EliminateDups(expr)
    /\ UNCHANGED <<given, enclosed>>

Next == Enclose \/ TransformStep \/ EliminateDupsStep

Spec == Init /\ [][Next]_vars

-----------------------------------------------------------------------------
(* Invariants *)

\* Whether one value of e is at most, or is, that of f.
AtMost(e, f) == \A v \in Valuations : CalcValue(e, v) <= CalcValue(f, v)
Same(e, f) == \A v \in Valuations : CalcValue(e, v) = CalcValue(f, v)

\* Whatever expr_transform and expr_eliminate_dups do to an expression, in
\* any order, it keeps its value, with every symbol at every value.
ValueKept == expr = given \/ Same(expr, given)

\* expr_transform leaves nothing for itself to do: it is called once where
\* the submenus and the help texts rely on negations standing only in front
\* of symbols.
TransformIsNormal == Transform(Transform(expr)) = Transform(expr)

\* Operands that expr_eq calls equal have one value, and if removing the
\* common operands of two expressions (expr_eliminate_eq) leaves a constant,
\* the one implies the other: menu_finalize puts an entry in a submenu on
\* the strength of this.
CommonOperandsRight ==
    expr[1] \in {"and", "or"} =>
        LET e == expr[2]
            f == expr[3]
            rest == EliminateEq(e, f)
        IN  /\ ExprEq(e, f) => Same(e, f)
            /\ rest[1] = Sym("y") => AtMost(f, e)
            /\ rest[2] = Sym("y") => AtMost(e, f)
            /\ rest[1] = Sym("n") => AtMost(e, f)
            /\ rest[2] = Sym("n") => AtMost(f, e)

\* Where no tristate symbol is m, expr_trans_compare yields an expression
\* that holds exactly if the comparison does.
TransCompareExact ==
    \A type \in {"=", "!="}, s \in {"y", "n"} :
        LET comparison == TransCompare(expr, type, s)
        IN  \A v \in {v \in Valuations : \A t \in DOMAIN v : IsTri(t) => v[t] # Mod} :
                LET value == CalcValue(expr, v)
                    compared == CalcValue(comparison, v)
                IN  /\ compared # Mod
                    /\ value # Mod =>
                         (compared = Yes <=> Holds(type, Sign(value - ConstTri(s))))

\* An expression that does not contain a symbol does not change with it, and
\* one that depends on a symbol is n while the symbol is n.
DependenceRight ==
    \A s \in DOMAIN SymType :
        /\ ~ContainsSymbol(expr, s) =>
             \A v \in Valuations :
                 \A w \in {[v EXCEPT ![s] = u[s]] : u \in Valuations} :
                     CalcValue(expr, v) = CalcValue(expr, w)
        /\ DependsSymbol(expr, s) =>
             \A v \in Valuations : v[s] = No => CalcValue(expr, v) = No

\* What expr_print writes, a Kconfig file reads back as the same condition:
\* no parenthesis is missing.
PrintsTrue ==
    LET read == ParseExpr(ExprTokens(expr, "none"))
    IN  read = expr \/ Same(read, expr)

\* The help text lists the reverse dependencies under y, m and n: the first
\* list that is not empty is headed by the value they have together.
RevdepGroupsRight ==
    \A v \in Valuations :
        \A t \in Tristate :
            CalcValue(expr, v) = t <=>
                /\ RevdepGroup(expr, t, v) # <<>>
                /\ \A u \in Tristate : u > t => RevdepGroup(expr, u, v) = <<>>

\* expr_trans_bool, applied to the transformed condition of an entry that is
\* not a tristate, may change y into m but never makes the entry appear or
\* disappear.
TransBoolKeepsVisible ==
    LET condition == TransBool(Transform(expr))
    IN  \A v \in Valuations : CalcValue(condition, v) = No <=> CalcValue(expr, v) = No

\* Rewriting never changes what a condition means: neither its value, nor that
\* of the two conditions that common operands are taken from, nor whether a
\* symbol is visible; and a second rewriting changes nothing (menu_finalize
\* rewrites the same expression several times).
RewritesRight ==
    ValueKept /\ TransformIsNormal /\ CommonOperandsRight /\ TransBoolKeepsVisible

\* What expr_trans_compare and expr_depends_symbol say of an expression is what
\* its values say.
ComparisonsRight == TransCompareExact /\ DependenceRight

\* What a help text prints of an expression is read back as the same.
TextRight == PrintsTrue /\ RevdepGroupsRight

=============================================================================

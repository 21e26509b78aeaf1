----------------------------- MODULE KconfigRules -----------------------------
(***************************************************************************)
(* The dependency expressions of the configuration tool                    *)
(* (buildroot/support/kconfig/expr.c), one node at a time: what a leaf is  *)
(* worth, and what each function that walks an expression does at a node.  *)
(* The walk itself is a parameter here, and closed in KconfigExpr.         *)
(*                                                                         *)
(* An expression is a tuple whose first component is its operator:         *)
(*   <<"sym", s>>, <<"not", e>>, <<"and", e, f>>, <<"or", e, f>>,          *)
(*   <<op, s, t>> for a comparison of two symbols, and Null for NULL.      *)
(* An expression is a value here, so that copying and freeing are          *)
(* invisible; the in-place rewriting of a tree is the new value it leaves. *)
(***************************************************************************)
EXTENDS Integers

CONSTANTS
    SymType,    \* the type of each symbol that a Kconfig file declares
    Literals,   \* the names of the constant symbols
    Number,     \* what strtoll and strtoull read: [base -> [literal -> number]]
    NaN,        \* the "number" of a literal that is not one
    Rank,       \* the order of the literals under strcmp
    ModulesSym, \* the symbol that enables modules, or "n" if there is none
    HalfWord    \* 2^63 in the program: the bound of a signed number

NumberBase == {"decimal", "hex", "any"}
TriLiterals == {"y", "m", "n"}

ASSUME KconfigExprAssumption ==
    /\ TriLiterals \subseteq Literals
    /\ DOMAIN SymType \cap Literals = {}
    /\ HalfWord \in Nat \ {0}
    /\ \A b \in NumberBase, l \in Literals : Number[b][l] \in Int \cup {NaN}
    /\ \A b \in NumberBase, l \in TriLiterals : Number[b][l] = NaN
    /\ \A l \in Literals : Rank[l] \in Int
    /\ \A l, k \in Literals : l # k => Rank[l] # Rank[k]

-----------------------------------------------------------------------------
(* Symbols and values. *)

No == 0
Mod == 1
Yes == 2
Tristate == No .. Yes

TriName(t) == <<"n", "m", "y">>[t + 1]

TypeOf(s) == IF s \in Literals THEN "unknown" ELSE SymType[s]
IsTri(s) == TypeOf(s) \in {"boolean", "tristate"}

\* A constant symbol's tristate value: y, m and n stand for themselves.
ConstTri(s) == IF s = "y" THEN Yes ELSE IF s = "m" THEN Mod ELSE No

And(a, b) == IF a < b THEN a ELSE b
Or(a, b) == IF a > b THEN a ELSE b
Not(a) == 2 - a

-----------------------------------------------------------------------------
(* Building expressions. *)

Null == <<"none">>
Sym(s) == <<"sym", s>>
Comparisons == {"=", "!=", "<", "<=", ">", ">="}
IsComp(e) == e[1] \in Comparisons

AllocAnd(e, f) == IF e = Null THEN f ELSE IF f = Null THEN e ELSE <<"and", e, f>>
AllocOr(e, f) == IF e = Null THEN f ELSE IF f = Null THEN e ELSE <<"or", e, f>>

IsYes(e) == e \in {Null, Sym("y")}

-----------------------------------------------------------------------------
(* Evaluation. *)

\* The kind and the value of a string that is about to be compared.
Bounded(kind, n, lowest, bound) ==
    IF n # NaN /\ n >= lowest /\ n < bound THEN [kind |-> kind, val |-> n]
    ELSE [kind |-> "string", val |-> 0]

ParseString(str, type) ==
    CASE type \in {"boolean", "tristate"} ->
            [kind |-> "signed",
             val |-> CASE str = "n" -> No
                       [] str = "m" -> Mod
                       [] str = "y" -> Yes
                       [] OTHER -> -1]
      [] type = "hex" ->
            Bounded("unsigned", Number["hex"][str], 1 - 2 * HalfWord, 2 * HalfWord)
      [] OTHER ->
            Bounded("signed", Number[IF type = "int" THEN "decimal" ELSE "any"][str],
                    -HalfWord, HalfWord)

Sign(n) == IF n < 0 THEN -1 ELSE IF n > 0 THEN 1 ELSE 0
AsUnsigned(n) == n % (2 * HalfWord)

\* The sign of "left minus right": as strings unless both are numbers, as
\* unsigned numbers if one of them is a hex symbol.
OrderOf(l, r, strings, ranks) ==
    IF strings \/ "string" \in {l.kind, r.kind} THEN Sign(ranks)
    ELSE IF "unsigned" \in {l.kind, r.kind} THEN Sign(AsUnsigned(l.val) - AsUnsigned(r.val))
    ELSE Sign(l.val - r.val)

Order(str1, type1, str2, type2) ==
    OrderOf(ParseString(str1, type1), ParseString(str2, type2),
            type1 = "string" /\ type2 = "string", Rank[str1] - Rank[str2])

Holds(op, order) ==
    CASE op = "=" -> order = 0
      [] op = "!=" -> order # 0
      [] op = "<" -> order < 0
      [] op = "<=" -> order <= 0
      [] op = ">" -> order > 0
      [] op = ">=" -> order >= 0

\* v gives every declared symbol its value: a tristate or a literal.  As a
\* string, m reads as n while modules are off.
TriIn(v, s) == IF s \in Literals THEN ConstTri(s) ELSE IF IsTri(s) THEN v[s] ELSE No
StrIn(v, s) ==
    CASE s \in Literals -> s
      [] s \notin Literals /\ ~IsTri(s) -> v[s]
      [] OTHER -> IF v[s] = Mod /\ TriIn(v, ModulesSym) = No THEN "n" ELSE TriName(v[s])

\* The value of an expression, given those of its parts.
ValueBy(Value(_), e, v) ==
    CASE e = Null -> Yes
      [] e[1] = "sym" -> TriIn(v, e[2])
      [] e[1] = "and" -> And(Value(e[2]), Value(e[3]))
      [] e[1] = "or" -> Or(Value(e[2]), Value(e[3]))
      [] e[1] = "not" -> Not(Value(e[2]))
      [] IsComp(e) -> IF Holds(e[1], Order(StrIn(v, e[2]), TypeOf(e[2]),
                                           StrIn(v, e[3]), TypeOf(e[3])))
                      THEN Yes ELSE No

-----------------------------------------------------------------------------
(* Simplification. *)

\* The value that leaves an expression of this type unchanged.
Neutral(type) == IF type = "and" THEN Sym("y") ELSE Sym("n")

\* e && n, e && y, e || n and e || y, recursively.
WithoutYN(type, l, r) ==
    LET absorbing == Neutral(IF type = "and" THEN "or" ELSE "and")
    IN  CASE absorbing \in {l, r} -> absorbing
          [] l = Neutral(type) -> r
          [] r = Neutral(type) -> l
          [] OTHER -> <<type, l, r>>

EliminateYNBy(Walk(_), e) ==
    IF e[1] \notin {"and", "or"} THEN e ELSE WithoutYN(e[1], Walk(e[2]), Walk(e[3]))

\* FOO != n becomes FOO.
TransBoolBy(Walk(_), e) ==
    CASE e[1] \in {"and", "or"} -> <<e[1], Walk(e[2]), Walk(e[3])>>
      [] e[1] = "not" -> <<"not", Walk(e[2])>>
      [] e[1] = "!=" /\ TypeOf(e[2]) = "tristate" /\ e[3] = "n" -> Sym(e[2])
      [] OTHER -> e

-----------------------------------------------------------------------------
(* Joining two operands into one, where that is possible (Null if not).    *)

\* The symbol that both operands are about, if there is one.
Joinable(e, f) ==
    /\ {e[1], f[1]} \subseteq {"=", "!=", "sym", "not"}
    /\ e[1] = "not" => e[2][1] \in {"=", "!=", "sym"}
    /\ f[1] = "not" => f[2][1] = "sym"
Subject(e) == IF e[1] = "not" THEN e[2][2] ELSE e[2]
AboutOneSymbol(e, f) ==
    /\ Joinable(e, f)
    /\ Subject(e) = Subject(f)
    /\ IsTri(Subject(e))

\* e and f are, in either order, of the two forms.
Are(e, f, g, h) == \/ e = g /\ f = h
                   \/ e = h /\ f = g

JoinedOr(e, f) ==
    LET s == Subject(e)
        twoOfThree == /\ TypeOf(s) = "tristate"
                      /\ e[1] = "=" /\ f[1] = "="
                      /\ {e[3], f[3]} \subseteq TriLiterals
    IN  CASE ~AboutOneSymbol(e, f) -> Null
          [] AboutOneSymbol(e, f) /\ twoOfThree ->
               <<"!=", s, CHOOSE l \in TriLiterals : l \notin {e[3], f[3]}>>
          [] OTHER -> IF TypeOf(s) = "boolean" /\ Are(e, f, Sym(s), <<"not", Sym(s)>>)
                      THEN Sym("y") ELSE Null

JoinedAnd(e, f) ==
    LET s == Subject(e)
        unequal == /\ e[1] = "!=" /\ f[1] = "!="
                   /\ {e[3], f[3]} \subseteq TriLiterals
        \* (a = b) && (a != c) for constants b and c
        chosen(g, h) == IF g[3] # h[3] THEN g ELSE Sym("n")
        consts == e[3] \in Literals /\ f[3] \in Literals
        ofTristate ==
            CASE e[1] = "=" /\ f[1] = "!=" /\ consts -> chosen(e, f)
              [] e[1] = "!=" /\ f[1] = "=" /\ consts -> chosen(f, e)
              [] unequal -> <<"=", s, CHOOSE l \in TriLiterals : l \notin {e[3], f[3]}>>
              [] OTHER -> Null
        joined == CASE Are(e, f, Sym(s), <<"=", s, "y">>) -> <<"=", s, "y">>
                    [] Are(e, f, Sym(s), <<"!=", s, "n">>) -> Sym(s)
                    [] Are(e, f, Sym(s), <<"!=", s, "m">>) -> <<"=", s, "y">>
                    [] OTHER -> IF TypeOf(s) = "tristate" THEN ofTristate ELSE Null
    IN  IF AboutOneSymbol(e, f) THEN joined ELSE Null

-----------------------------------------------------------------------------
(* Rewriting negations and comparisons of booleans. *)

Negated(op) ==
    CASE op = "=" -> "!="
      [] op = "!=" -> "="
      [] op = "<=" -> ">"
      [] op = ">=" -> "<"
      [] op = "<" -> ">="
      [] op = ">" -> "<="

\* A comparison of a boolean with a tristate constant.
OfBoolean(e) == e[1] \in {"=", "!="} /\ TypeOf(e[2]) = "boolean" /\ e[3] \in TriLiterals
TransformComp(e) ==
    LET holdsIf == (e[1] = "=")
    IN  CASE ~OfBoolean(e) -> e
          [] OfBoolean(e) /\ e[3] = "n" -> IF holdsIf THEN <<"not", Sym(e[2])>> ELSE Sym(e[2])
          [] OfBoolean(e) /\ e[3] = "m" -> IF holdsIf THEN Sym("n") ELSE Sym("y")
          [] OfBoolean(e) /\ e[3] = "y" -> IF holdsIf THEN Sym(e[2]) ELSE <<"not", Sym(e[2])>>

\* The negation of an expression that is already transformed.
TransformNotBy(Walk(_), e) ==
    CASE e[1] = "not" -> Walk(e[2])
      [] IsComp(e) -> <<Negated(e[1]), e[2], e[3]>>
      [] e[1] = "or" -> Walk(<<"and", <<"not", e[2]>>, <<"not", e[3]>>>>)
      [] e[1] = "and" -> Walk(<<"or", <<"not", e[2]>>, <<"not", e[3]>>>>)
      [] e = Sym("y") -> Sym("n")
      [] e = Sym("m") -> Sym("m")
      [] e = Sym("n") -> Sym("y")
      [] OTHER -> <<"not", e>>

TransformBy(Walk(_), e) ==
    CASE e[1] \in {"and", "or"} -> <<e[1], Walk(e[2]), Walk(e[3])>>
      [] e[1] = "not" -> TransformNotBy(Walk, Walk(e[2]))
      [] IsComp(e) -> TransformComp(e)
      [] OTHER -> e

-----------------------------------------------------------------------------
(* Questions about an expression. *)

ContainsSymbolBy(Walk(_, _), e, s) ==
    CASE e[1] \in {"and", "or"} -> Walk(e[2], s) \/ Walk(e[3], s)
      [] e[1] = "sym" -> e[2] = s
      [] IsComp(e) -> s \in {e[2], e[3]}
      [] e[1] = "not" -> Walk(e[2], s)
      [] OTHER -> FALSE

\* e cannot hold unless s does.
DependsSymbolBy(Walk(_, _), e, s) ==
    CASE e[1] = "and" -> Walk(e[2], s) \/ Walk(e[3], s)
      [] e[1] = "sym" -> e[2] = s
      [] e[1] = "=" -> e[2] = s /\ e[3] \in {"y", "m"}
      [] e[1] = "!=" -> e[2] = s /\ e[3] = "n"
      [] OTHER -> FALSE

\* The expression "e = s" (type "=") or "e != s" (type "!="), s being y or n.
TransCompareBy(Walk(_, _, _), e, type, s) ==
    LET negate(f) == IF type = "!=" THEN <<"not", f>> ELSE f
        dual == IF e[1] = "and" THEN "or" ELSE "and"
    IN  CASE e = Null -> negate(Sym(s))
          [] e[1] \in {"and", "or"} ->
               negate(<<IF s = "y" THEN e[1] ELSE dual, Walk(e[2], "=", s), Walk(e[3], "=", s)>>)
          [] e[1] = "not" -> Walk(e[2], Negated(type), s)
          [] IsComp(e) -> IF (type = "=") = (s = "y") THEN e ELSE <<"not", e>>
          [] e[1] = "sym" -> <<type, e[2], s>>

=============================================================================

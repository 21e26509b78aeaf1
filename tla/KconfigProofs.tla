----------------------------- MODULE KconfigProofs -----------------------------
(***************************************************************************)
(* What is proved of the configuration tool: of the functions that rewrite *)
(* an expression, for every expression and all symbols, and of the files   *)
(* of conf, for every Kconfig file, everything that it may read, ask and   *)
(* calculate, and any number of runs.                                      *)
(*                                                                         *)
(* A function that walks an expression is any function that satisfies, at  *)
(* every expression, the equation that KconfigRules gives for one node:    *)
(* the recursive operator of KconfigExpr is one.                           *)
(***************************************************************************)
EXTENDS KconfigRules, KconfigOutput, TLAPS, WellFoundedInduction

-----------------------------------------------------------------------------
(* Induction over expressions.                                             *)

Symbols == Literals \cup DOMAIN SymType
Leaves == {Sym(s) : s \in Symbols}
              \cup {<<op, s, t>> : op \in Comparisons, s \in Symbols, t \in Symbols}

\* E are the expressions, a fixed point like the set of all finite trees, and size is a
\* number that each has.  The walks of expr.c end because it decreases: !(a || b) is
\* larger than !a && !b.
Expressions(E, size) ==
    /\ E = Leaves \cup {<<"not", e>> : e \in E}
             \cup {<<op, e, f>> : op \in {"and", "or"}, e \in E, f \in E}
    /\ size \in [E -> Nat \ {0}]
    /\ \A s \in Symbols : size[Sym(s)] = 1
    /\ \A op \in Comparisons, s \in Symbols, t \in Symbols : size[<<op, s, t>>] = 3
    /\ \A e \in E : size[<<"not", e>>] = 2 * size[e]
    /\ \A op \in {"and", "or"}, e \in E, f \in E : size[<<op, e, f>>] = size[e] + size[f] + 1

\* A set of numbers that is not empty has a least one.
LEMMA LeastNumber == ASSUME NEW T, T \subseteq Nat, T # {} PROVE \E x \in T : \A y \in T : ~(y < x)
<1>1. PICK x \in T : \A y \in T : <<y, x>> \notin OpToRel(<, Nat)
  BY NatLessThanWellFounded, WFMin
<1>2. \A y \in T : y < x => <<y, x>> \in OpToRel(<, Nat)
  BY DEF OpToRel
<1>3. QED
  BY <1>1, <1>2, Zenon

\* What holds of an expression if it holds of the smaller ones holds of all.
LEMMA ExpressionInduction ==
    ASSUME NEW E, NEW size, Expressions(E, size), NEW Good,
           \A e \in E : (\A f \in E : size[f] < size[e] => f \in Good) => e \in Good
    PROVE  \A e \in E : e \in Good
<1> SUFFICES ASSUME NEW e \in E, e \notin Good PROVE FALSE
  OBVIOUS
<1> DEFINE Sizes == {size[f] : f \in {f \in E : f \notin Good}}
<1>1. size \in [E -> Nat \ {0}]
  BY DEF Expressions
<1>2. Sizes \subseteq Nat /\ Sizes # {}
  BY <1>1
<1>3. PICK n \in Sizes : \A m \in Sizes : ~(m < n)
  BY <1>2, LeastNumber
<1>4. PICK f \in E : f \notin Good /\ size[f] = n
  BY <1>3
<1>5. \A g \in E : size[g] < size[f] => g \in Good
  BY <1>3, <1>4
<1>6. QED
  BY <1>4, <1>5

\* What is made of expressions is one.
LEMMA Made ==
    ASSUME NEW E, NEW size, Expressions(E, size)
    PROVE  /\ \A e \in E : size[e] \in Nat \ {0}
           /\ \A s \in Symbols : Sym(s) \in E /\ size[Sym(s)] = 1
           /\ \A op \in Comparisons, s \in Symbols, t \in Symbols :
                  <<op, s, t>> \in E /\ size[<<op, s, t>>] = 3
           /\ \A e \in E : <<"not", e>> \in E /\ size[<<"not", e>>] = 2 * size[e]
           /\ \A op \in {"and", "or"}, e \in E, f \in E :
                  <<op, e, f>> \in E /\ size[<<op, e, f>>] = size[e] + size[f] + 1
<1>1. /\ E = Leaves \cup {<<"not", e>> : e \in E}
             \cup {<<op, e, f>> : op \in {"and", "or"}, e \in E, f \in E}
      /\ size \in [E -> Nat \ {0}]
  BY DEF Expressions
<1>2. \A s \in Symbols : Sym(s) \in E
  BY <1>1 DEF Leaves
<1>3. \A op \in Comparisons, s \in Symbols, t \in Symbols : <<op, s, t>> \in E
  BY <1>1 DEF Leaves
<1>4. (\A e \in E : <<"not", e>> \in E)
      /\ \A op \in {"and", "or"}, e \in E, f \in E : <<op, e, f>> \in E
  BY <1>1
<1>5. QED
  BY <1>1, <1>2, <1>3, <1>4 DEF Expressions

LEMMA Kinds ==
    ASSUME NEW E, NEW size, Expressions(E, size), NEW e \in E
    PROVE  \/ \E s \in Symbols : e = Sym(s)
           \/ \E op \in Comparisons, s \in Symbols, t \in Symbols : e = <<op, s, t>>
           \/ \E f \in E : e = <<"not", f>>
           \/ \E f \in E, g \in E : e = <<"and", f, g>> \/ e = <<"or", f, g>>
BY DEF Expressions, Leaves

\* What holds of the leaves, and of what is made of expressions that it holds of, holds
\* of all.
LEMMA StructuralInduction ==
    ASSUME NEW E, NEW size, Expressions(E, size), NEW Good,
           \A s \in Symbols : Sym(s) \in Good,
           \A op \in Comparisons, s \in Symbols, t \in Symbols : <<op, s, t>> \in Good,
           \A e \in E : e \in Good => <<"not", e>> \in Good,
           \A e \in E, f \in E : e \in Good /\ f \in Good =>
               <<"and", e, f>> \in Good /\ <<"or", e, f>> \in Good
    PROVE  \A e \in E : e \in Good
<1>1. ASSUME NEW e \in E, \A f \in E : size[f] < size[e] => f \in Good PROVE e \in Good
  <2>1. ASSUME NEW f \in E, e = <<"not", f>> PROVE f \in Good
    <3>1. size[e] = 2 * size[f] /\ size[f] \in Nat \ {0}
      BY <2>1, Made
    <3>2. QED
      BY <1>1, <3>1
  <2>2. ASSUME NEW f \in E, NEW g \in E, e = <<"and", f, g>> \/ e = <<"or", f, g>>
        PROVE  f \in Good /\ g \in Good
    <3>1. size[e] = size[f] + size[g] + 1 /\ size[f] \in Nat \ {0} /\ size[g] \in Nat \ {0}
      BY <2>2, Made
    <3>2. QED
      BY <1>1, <3>1
  <2>3. CASE \E s \in Symbols : e = Sym(s)
    BY <2>3
  <2>4. CASE \E op \in Comparisons, s \in Symbols, t \in Symbols : e = <<op, s, t>>
    BY <2>4
  <2>5. CASE \E f \in E : e = <<"not", f>>
    BY <2>1, <2>5
  <2>6. CASE \E f \in E, g \in E : e = <<"and", f, g>> \/ e = <<"or", f, g>>
    BY <2>2, <2>6
  <2>7. QED
    BY <2>3, <2>4, <2>5, <2>6, Kinds
<1>2. QED
  BY <1>1, ExpressionInduction

-----------------------------------------------------------------------------
(* The values of expressions.                                              *)

\* What sym_calc_value may leave in the declared symbols: m is no value of a
\* boolean, nor of anything while modules are off.
IsValuation(v) ==
    \A s \in DOMAIN SymType :
        IF IsTri(s)
        THEN /\ v[s] \in Tristate
             /\ SymType[s] = "boolean" => v[s] # Mod
             /\ v[s] = Mod => TriIn(v, ModulesSym) # No
        ELSE v[s] \in Literals

\* value is what expr_calc_value computes: its equation holds at every expression.
Computes(E, value, v) == \A e \in E : value[e] = ValueBy(LAMBDA f : value[f], e, v)

Compared(v, op, s, t) ==
    IF Holds(op, Order(StrIn(v, s), TypeOf(s), StrIn(v, t), TypeOf(t))) THEN Yes ELSE No

Junction(op, a, b) == IF op = "and" THEN And(a, b) ELSE Or(a, b)

LEMMA LiteralSymbols == "y" \in Symbols /\ "m" \in Symbols /\ "n" \in Symbols
BY KconfigExprAssumption DEF Symbols, TriLiterals

\* One node after the other.
LEMMA ValueAt ==
    ASSUME NEW E, NEW size, Expressions(E, size), NEW v, NEW value, Computes(E, value, v)
    PROVE  /\ \A s \in Symbols : value[Sym(s)] = TriIn(v, s)
           /\ \A op \in Comparisons, s \in Symbols, t \in Symbols :
                  value[<<op, s, t>>] = Compared(v, op, s, t)
           /\ \A e \in E : value[<<"not", e>>] = Not(value[e])
           /\ \A op \in {"and", "or"}, e \in E, f \in E :
                  value[<<op, e, f>>] = Junction(op, value[e], value[f])
<1>1. ASSUME NEW s \in Symbols PROVE value[Sym(s)] = TriIn(v, s)
  <2>1. value[Sym(s)] = ValueBy(LAMBDA f : value[f], Sym(s), v)
    BY Made DEF Computes
  <2>2. QED
    BY <2>1 DEF ValueBy, Sym, Null, IsComp, Comparisons
<1>2. ASSUME NEW op \in Comparisons, NEW s \in Symbols, NEW t \in Symbols
      PROVE  value[<<op, s, t>>] = Compared(v, op, s, t)
  <2>1. value[<<op, s, t>>] = ValueBy(LAMBDA f : value[f], <<op, s, t>>, v)
    BY Made DEF Computes
  <2>2. QED
    BY <2>1 DEF ValueBy, Null, IsComp, Comparisons, Compared
<1>3. ASSUME NEW e \in E PROVE value[<<"not", e>>] = Not(value[e])
  <2>1. value[<<"not", e>>] = ValueBy(LAMBDA f : value[f], <<"not", e>>, v)
    BY Made DEF Computes
  <2>2. QED
    BY <2>1 DEF ValueBy, Null, IsComp, Comparisons
<1>4. ASSUME NEW op \in {"and", "or"}, NEW e \in E, NEW f \in E
      PROVE  value[<<op, e, f>>] = Junction(op, value[e], value[f])
  <2>1. value[<<op, e, f>>] = ValueBy(LAMBDA g : value[g], <<op, e, f>>, v)
    BY Made DEF Computes
  <2>2. QED
    BY <2>1 DEF ValueBy, Null, IsComp, Comparisons, Junction
<1>5. QED
  BY <1>1, <1>2, <1>3, <1>4

LEMMA LiteralValues ==
    ASSUME NEW v
    PROVE  TriIn(v, "y") = Yes /\ TriIn(v, "m") = Mod /\ TriIn(v, "n") = No
BY KconfigExprAssumption DEF TriIn, ConstTri, TriLiterals

LEMMA LeafValues ==
    ASSUME NEW v, IsValuation(v)
    PROVE  /\ \A s \in Symbols : TriIn(v, s) \in Tristate
           /\ \A op, s, t : Compared(v, op, s, t) \in {No, Yes}
BY DEF IsValuation, TriIn, ConstTri, Compared, Symbols, Tristate, No, Mod, Yes

\* Every value is a tristate.
LEMMA ValueIsTristate ==
    ASSUME NEW E, NEW size, Expressions(E, size), NEW v, IsValuation(v),
           NEW value, Computes(E, value, v)
    PROVE  \A e \in E : value[e] \in Tristate
<1> DEFINE Good == {e \in E : value[e] \in Tristate}
<1>1. \A s \in Symbols : Sym(s) \in Good
  BY Made, ValueAt, LeafValues
<1>2. ASSUME NEW op \in Comparisons, NEW s \in Symbols, NEW t \in Symbols
      PROVE  <<op, s, t>> \in Good
  <2>1. value[<<op, s, t>>] = Compared(v, op, s, t) /\ <<op, s, t>> \in E
    BY Made, ValueAt
  <2>2. QED
    BY <2>1, LeafValues DEF Tristate, No, Yes
<1>3. ASSUME NEW e \in E, e \in Good PROVE <<"not", e>> \in Good
  <2>1. value[<<"not", e>>] = Not(value[e]) /\ <<"not", e>> \in E
    BY Made, ValueAt
  <2>2. QED
    BY <1>3, <2>1 DEF Not, Tristate, No, Yes
<1>4. ASSUME NEW e \in E, NEW f \in E, e \in Good, f \in Good
      PROVE  <<"and", e, f>> \in Good /\ <<"or", e, f>> \in Good
  <2>1. /\ value[<<"and", e, f>>] = Junction("and", value[e], value[f]) /\ <<"and", e, f>> \in E
        /\ value[<<"or", e, f>>] = Junction("or", value[e], value[f]) /\ <<"or", e, f>> \in E
    BY Made, ValueAt
  <2>2. QED
    BY <1>4, <2>1 DEF Junction, And, Or
<1> HIDE DEF Good
<1>5. \A e \in E : e \in Good
  BY <1>1, <1>2, <1>3, <1>4, StructuralInduction
<1>6. QED
  BY <1>5 DEF Good

\* De Morgan, and the double negation.
LEMMA NotAndOr ==
    ASSUME NEW a \in Tristate, NEW b \in Tristate
    PROVE  /\ Not(And(a, b)) = Or(Not(a), Not(b))
           /\ Not(Or(a, b)) = And(Not(a), Not(b))
           /\ Not(Not(a)) = a
BY DEF Not, And, Or, Tristate, No, Yes

-----------------------------------------------------------------------------
(* Comparisons.                                                            *)

LEMMA NegatedHolds ==
    ASSUME NEW op \in Comparisons, NEW order \in Int
    PROVE  /\ Negated(op) \in Comparisons
           /\ Holds(Negated(op), order) <=> ~Holds(op, order)
           /\ op \in {"=", "!="} <=> Negated(op) \in {"=", "!="}
<1>1. op \in {"=", "!=", "<", "<=", ">", ">="}
  BY DEF Comparisons
<1>2. /\ order < 0 <=> ~(order >= 0)
      /\ order > 0 <=> ~(order <= 0)
  OBVIOUS
<1>3. CASE op \in {"=", "!="}
  BY <1>3 DEF Comparisons, Negated, Holds
<1>4. CASE op = "<"
  BY <1>4, <1>2 DEF Comparisons, Negated, Holds
<1>5. CASE op = ">="
  BY <1>5, <1>2 DEF Comparisons, Negated, Holds
<1>6. CASE op = "<="
  BY <1>6, <1>2 DEF Comparisons, Negated, Holds
<1>7. CASE op = ">"
  BY <1>7, <1>2 DEF Comparisons, Negated, Holds
<1>8. QED
  BY <1>1, <1>3, <1>4, <1>5, <1>6, <1>7

LEMMA OrderIsInt == \A str1, type1, str2, type2 : Order(str1, type1, str2, type2) \in {-1, 0, 1}
BY DEF Order, OrderOf, Sign

LEMMA NegatedCompared ==
    ASSUME NEW v, NEW op \in Comparisons, NEW s, NEW t
    PROVE  Compared(v, Negated(op), s, t) = Not(Compared(v, op, s, t))
<1> DEFINE order == Order(StrIn(v, s), TypeOf(s), StrIn(v, t), TypeOf(t))
<1>1. order \in Int
  BY OrderIsInt
<1>2. Holds(Negated(op), order) <=> ~Holds(op, order)
  BY <1>1, NegatedHolds
<1>3. QED
  BY <1>2 DEF Compared, Not, No, Yes

\* Comparing a boolean or a tristate with y, m or n is comparing its value.
LEMMA ComparedWithLiteral ==
    ASSUME NEW v, IsValuation(v), NEW s \in Symbols, IsTri(s), NEW l \in TriLiterals
    PROVE  /\ Compared(v, "=", s, l) = IF TriIn(v, s) = ConstTri(l) THEN Yes ELSE No
           /\ Compared(v, "!=", s, l) = IF TriIn(v, s) = ConstTri(l) THEN No ELSE Yes
<1>1. s \notin Literals /\ s \in DOMAIN SymType
  BY KconfigExprAssumption DEF IsTri, TypeOf, Symbols
<1>2. StrIn(v, s) = TriName(TriIn(v, s)) /\ TriIn(v, s) \in Tristate
  BY <1>1 DEF StrIn, TriIn, IsValuation
<1>3. l \in Literals /\ StrIn(v, l) = l /\ TypeOf(l) = "unknown"
  BY KconfigExprAssumption DEF StrIn, TypeOf
<1>4. TriName(TriIn(v, s)) \in TriLiterals /\ (TriName(TriIn(v, s)) = l <=> TriIn(v, s) = ConstTri(l))
  BY <1>2 DEF TriName, ConstTri, TriLiterals, Tristate, No, Mod, Yes
<1>5. ParseString(l, "unknown").kind = "string"
  BY KconfigExprAssumption DEF ParseString, Bounded, NumberBase
<1>6. Order(StrIn(v, s), TypeOf(s), l, "unknown") = Sign(Rank[StrIn(v, s)] - Rank[l])
  BY <1>5 DEF Order, OrderOf
<1>7. Sign(Rank[StrIn(v, s)] - Rank[l]) = 0 <=> StrIn(v, s) = l
  BY <1>2, <1>3, <1>4, KconfigExprAssumption DEF Sign
<1>8. QED
  BY <1>2, <1>3, <1>4, <1>6, <1>7 DEF Compared, Holds

-----------------------------------------------------------------------------
(* expr_transform.                                                         *)

\* T is what expr_transform computes.
Transforms(E, T) == \A e \in E : T[e] = TransformBy(LAMBDA f : T[f], e)
Negation(T, e) == TransformNotBy(LAMBDA f : T[f], e)

\* One node after the other.
LEMMA TransformAt ==
    ASSUME NEW E, NEW size, Expressions(E, size), NEW T, Transforms(E, T)
    PROVE  /\ \A s \in Symbols : T[Sym(s)] = Sym(s)
           /\ \A op \in Comparisons, s \in Symbols, t \in Symbols :
                  T[<<op, s, t>>] = TransformComp(<<op, s, t>>)
           /\ \A e \in E : T[<<"not", e>>] = Negation(T, T[e])
           /\ \A op \in {"and", "or"}, e \in E, f \in E :
                  T[<<op, e, f>>] = <<op, T[e], T[f]>>
<1>1. ASSUME NEW s \in Symbols PROVE T[Sym(s)] = Sym(s)
  <2>1. T[Sym(s)] = TransformBy(LAMBDA f : T[f], Sym(s))
    BY Made DEF Transforms
  <2>2. QED
    BY <2>1 DEF TransformBy, Sym, IsComp, Comparisons
<1>2. ASSUME NEW op \in Comparisons, NEW s \in Symbols, NEW t \in Symbols
      PROVE  T[<<op, s, t>>] = TransformComp(<<op, s, t>>)
  <2>1. T[<<op, s, t>>] = TransformBy(LAMBDA f : T[f], <<op, s, t>>)
    BY Made DEF Transforms
  <2>2. QED
    BY <2>1 DEF TransformBy, IsComp, Comparisons
<1>3. ASSUME NEW e \in E PROVE T[<<"not", e>>] = Negation(T, T[e])
  <2>1. T[<<"not", e>>] = TransformBy(LAMBDA f : T[f], <<"not", e>>)
    BY Made DEF Transforms
  <2>2. QED
    BY <2>1 DEF TransformBy, Negation, TransformNotBy, IsComp, Comparisons
<1>4. ASSUME NEW op \in {"and", "or"}, NEW e \in E, NEW f \in E
      PROVE  T[<<op, e, f>>] = <<op, T[e], T[f]>>
  <2>1. T[<<op, e, f>>] = TransformBy(LAMBDA g : T[g], <<op, e, f>>)
    BY Made DEF Transforms
  <2>2. QED
    BY <2>1 DEF TransformBy, Negation, TransformNotBy, IsComp, Comparisons
<1>5. QED
  BY <1>1, <1>2, <1>3, <1>4

Dual(op) == IF op = "or" THEN "and" ELSE "or"

\* The negation of an expression that is transformed.
LEMMA TransformNotAt ==
    ASSUME NEW E, NEW size, Expressions(E, size), NEW T, Transforms(E, T)
    PROVE  /\ \A s \in Symbols :
                  Negation(T, Sym(s)) =
                      IF s = "y" THEN Sym("n")
                      ELSE IF s = "m" THEN Sym("m")
                      ELSE IF s = "n" THEN Sym("y")
                      ELSE <<"not", Sym(s)>>
           /\ \A op \in Comparisons, s \in Symbols, t \in Symbols :
                  Negation(T, <<op, s, t>>) = <<Negated(op), s, t>>
           /\ \A e \in E : Negation(T, <<"not", e>>) = T[e]
           /\ \A op \in {"and", "or"}, e \in E, f \in E :
                  Negation(T, <<op, e, f>>) = T[<<Dual(op), <<"not", e>>, <<"not", f>>>>]
<1>1. ASSUME NEW s \in Symbols
      PROVE  Negation(T, Sym(s)) =
                 IF s = "y" THEN Sym("n")
                 ELSE IF s = "m" THEN Sym("m")
                 ELSE IF s = "n" THEN Sym("y")
                 ELSE <<"not", Sym(s)>>
  BY DEF Negation, TransformNotBy, Sym, IsComp, Comparisons
<1>2. ASSUME NEW op \in Comparisons, NEW s \in Symbols, NEW t \in Symbols
      PROVE  Negation(T, <<op, s, t>>) = <<Negated(op), s, t>>
  BY DEF Negation, TransformNotBy, Sym, IsComp, Comparisons
<1>3. ASSUME NEW e \in E PROVE Negation(T, <<"not", e>>) = T[e]
  BY DEF Negation, TransformNotBy, Sym, IsComp, Comparisons
<1>4. ASSUME NEW op \in {"and", "or"}, NEW e \in E, NEW f \in E
      PROVE  Negation(T, <<op, e, f>>) = T[<<Dual(op), <<"not", e>>, <<"not", f>>>>]
  BY DEF Negation, TransformNotBy, Dual, Sym, IsComp, Comparisons
<1>5. QED
  BY <1>1, <1>2, <1>3, <1>4

\* The comparisons that are replaced, and by what.
Replaced(op, s, t) ==
    IF (op = "=" /\ t = "y") \/ (op = "!=" /\ t = "n") THEN Sym(s)
    ELSE IF (op = "=" /\ t = "n") \/ (op = "!=" /\ t = "y") THEN <<"not", Sym(s)>>
    ELSE IF op = "=" THEN Sym("n") ELSE Sym("y")

LEMMA TransformCompAt ==
    ASSUME NEW op \in Comparisons, NEW s \in Symbols, NEW t \in Symbols
    PROVE  TransformComp(<<op, s, t>>) =
               IF op \in {"=", "!="} /\ TypeOf(s) = "boolean" /\ t \in TriLiterals
               THEN Replaced(op, s, t) ELSE <<op, s, t>>
BY DEF TransformComp, OfBoolean, Replaced, TriLiterals

\* What replaces a comparison is worth what it is.
LEMMA ReplacedValue ==
    ASSUME NEW E, NEW size, Expressions(E, size), NEW v, IsValuation(v),
           NEW value, Computes(E, value, v),
           NEW op \in {"=", "!="}, NEW s \in Symbols, TypeOf(s) = "boolean", NEW t \in TriLiterals
    PROVE  value[Replaced(op, s, t)] = value[<<op, s, t>>]
<1>1. s \notin Literals /\ s \in DOMAIN SymType /\ SymType[s] = "boolean" /\ IsTri(s)
  BY KconfigExprAssumption DEF IsTri, TypeOf, Symbols
<1>2. TriIn(v, s) \in {No, Yes}
  BY <1>1 DEF TriIn, IsValuation, Tristate, No, Mod, Yes
<1>3. t \in Symbols /\ "y" \in Symbols /\ "n" \in Symbols
  BY KconfigExprAssumption DEF Symbols, TriLiterals
<1>4. /\ value[Sym(s)] = TriIn(v, s)
      /\ value[Sym("y")] = TriIn(v, "y") /\ value[Sym("n")] = TriIn(v, "n")
      /\ value[<<op, s, t>>] = Compared(v, op, s, t)
  BY <1>3, ValueAt DEF Comparisons
<1>5. value[<<"not", Sym(s)>>] = Not(value[Sym(s)])
  BY Made, ValueAt
<1>6. TriIn(v, "y") = Yes /\ TriIn(v, "n") = No
  BY LiteralValues
<1>7. /\ Compared(v, "=", s, t) = IF TriIn(v, s) = ConstTri(t) THEN Yes ELSE No
      /\ Compared(v, "!=", s, t) = IF TriIn(v, s) = ConstTri(t) THEN No ELSE Yes
  BY <1>1, ComparedWithLiteral
<1>8. CASE op = "="
  BY <1>2, <1>4, <1>5, <1>6, <1>7, <1>8 DEF Replaced, ConstTri, TriLiterals, Not, No, Mod, Yes
<1>9. CASE op = "!="
  BY <1>2, <1>4, <1>5, <1>6, <1>7, <1>9 DEF Replaced, ConstTri, TriLiterals, Not, No, Mod, Yes
<1>10. QED
  BY <1>8, <1>9

LEMMA ReplacedIsExpression ==
    ASSUME NEW E, NEW size, Expressions(E, size), NEW op, NEW s \in Symbols, NEW t
    PROVE  /\ Replaced(op, s, t) \in E
           /\ size[Replaced(op, s, t)] <= 2
           /\ Replaced(op, s, t) \in {Sym(s), <<"not", Sym(s)>>, Sym("n"), Sym("y")}
<1>1. "y" \in Symbols /\ "n" \in Symbols
  BY LiteralSymbols
<1>2. /\ Sym(s) \in E /\ size[Sym(s)] = 1
      /\ Sym("y") \in E /\ size[Sym("y")] = 1
      /\ Sym("n") \in E /\ size[Sym("n")] = 1
  BY <1>1, Made
<1>3. <<"not", Sym(s)>> \in E /\ size[<<"not", Sym(s)>>] = 2
  BY <1>2, Made
<1>4. QED
  BY <1>2, <1>3 DEF Replaced

\* What is no larger than n, and is what it is transformed to.
Settled(E, size, T, n) == {e \in E : size[e] <= n /\ T[e] = e}

\* A comparison, transformed: nothing remains to be done with it, its negation included.
LEMMA TransformComparison ==
    ASSUME NEW E, NEW size, Expressions(E, size), NEW T, Transforms(E, T),
           NEW op \in Comparisons, NEW s \in Symbols, NEW t \in Symbols
    PROVE  /\ T[<<op, s, t>>] \in Settled(E, size, T, 3)
           /\ T[<<op, s, t>>] = <<op, s, t>> =>
                  T[<<Negated(op), s, t>>] = <<Negated(op), s, t>>
<1> DEFINE e == <<op, s, t>>
           replaces == op \in {"=", "!="} /\ TypeOf(s) = "boolean" /\ t \in TriLiterals
<1>1. T[e] = IF replaces THEN Replaced(op, s, t) ELSE e
  BY TransformAt, TransformCompAt
<1>2. CASE replaces
  <2>1. T[e] = Replaced(op, s, t)
    BY <1>1, <1>2
  <2>2. s \notin Literals
    BY <1>2 DEF TypeOf
  <2>3. s \notin {"y", "m", "n"}
    BY <2>2, KconfigExprAssumption DEF TriLiterals
  <2>4. /\ T[Sym(s)] = Sym(s) /\ T[Sym("n")] = Sym("n") /\ T[Sym("y")] = Sym("y")
    BY TransformAt, LiteralSymbols
  <2>5. T[<<"not", Sym(s)>>] = Negation(T, Sym(s))
    BY <2>4, Made, TransformAt
  <2>6. Negation(T, Sym(s)) = <<"not", Sym(s)>>
    BY <2>3, TransformNotAt
  <2>7. T[e] \in {Sym(s), <<"not", Sym(s)>>, Sym("n"), Sym("y")}
    BY <2>1, ReplacedIsExpression
  <2>8. T[e] # e
    BY <2>7 DEF Sym
  <2>9. T[T[e]] = T[e]
    BY <2>4, <2>5, <2>6, <2>7
  <2>10. T[e] \in E /\ size[T[e]] <= 3
    <3>1. /\ Replaced(op, s, t) \in E /\ size[Replaced(op, s, t)] <= 2
      BY ReplacedIsExpression
    <3>2. size[Replaced(op, s, t)] \in Nat
      BY <3>1, Made
    <3>3. QED
      BY <2>1, <3>1, <3>2
  <2>11. QED
    BY <2>8, <2>9, <2>10 DEF Settled
<1>3. CASE ~replaces
  <2>1. T[e] = e /\ e \in E /\ size[e] = 3
    BY <1>1, <1>3, Made
  <2>2. Negated(op) \in Comparisons /\ (op \in {"=", "!="} <=> Negated(op) \in {"=", "!="})
    BY NegatedHolds
  <2>3. T[<<Negated(op), s, t>>] = <<Negated(op), s, t>>
    BY <1>3, <2>2, TransformAt, TransformCompAt
  <2>4. QED
    BY <2>1, <2>3 DEF Settled
<1>4. QED
  BY <1>2, <1>3

\* Whatever the expression, expr_transform ends in an expression that is not larger
\* and that it would leave as it is: calling it again, as menu_finalize does, does nothing.
THEOREM TransformSettles ==
    ASSUME NEW E, NEW size, Expressions(E, size), NEW T, Transforms(E, T)
    PROVE  \A e \in E : T[e] \in E /\ size[T[e]] <= size[e] /\ T[T[e]] = T[e]
<1> DEFINE Good == {e \in E : T[e] \in E /\ size[T[e]] <= size[e] /\ T[T[e]] = T[e]}
<1>0. \A f \in E : size[f] \in Nat \ {0}
  BY Made
<1>1. ASSUME NEW e \in E, \A f \in E : size[f] < size[e] => f \in Good PROVE e \in Good
  <2>1. ASSUME NEW s \in Symbols, e = Sym(s) PROVE e \in Good
    BY <1>0, <2>1, TransformAt
  <2>2. ASSUME NEW op \in Comparisons, NEW s \in Symbols, NEW t \in Symbols, e = <<op, s, t>>
        PROVE  e \in Good
    <3>1. size[<<op, s, t>>] = 3
      BY Made
    <3>2. T[<<op, s, t>>] \in Settled(E, size, T, 3)
      BY TransformComparison
    <3>3. QED
      BY <2>2, <3>1, <3>2 DEF Settled
  <2>3. ASSUME NEW a \in E, NEW b \in E, NEW op \in {"and", "or"}, e = <<op, a, b>>
        PROVE  e \in Good
    <3> DEFINE f == T[a]
               g == T[b]
    <3>1. size[e] = size[a] + size[b] + 1
      BY <2>3, Made
    <3>2. size[a] < size[e] /\ size[b] < size[e]
      BY <1>0, <3>1
    <3>3. /\ f \in E /\ g \in E /\ size[f] <= size[a] /\ size[g] <= size[b]
          /\ T[f] = f /\ T[g] = g
      BY <1>1, <3>2
    <3>4. T[<<op, a, b>>] = <<op, f, g>>
      BY TransformAt
    <3>5. T[<<op, f, g>>] = <<op, T[f], T[g]>>
      BY <3>3, TransformAt
    <3>6. <<op, f, g>> \in E /\ size[<<op, f, g>>] = size[f] + size[g] + 1
      BY <3>3, Made
    <3>7. size[<<op, f, g>>] <= size[e]
      BY <1>0, <3>1, <3>3, <3>6
    <3>8. T[<<op, f, g>>] = <<op, f, g>>
      BY <3>3, <3>5
    <3>9. QED
      BY <2>3, <3>4, <3>6, <3>7, <3>8
  <2>4. ASSUME NEW a \in E, e = <<"not", a>> PROVE e \in Good
    <3> DEFINE g == T[a]
    <3>1. size[e] = 2 * size[a]
      BY <2>4, Made
    <3>2. size[a] < size[e]
      BY <1>0, <3>1
    <3>3. g \in E /\ size[g] <= size[a] /\ T[g] = g
      BY <1>1, <3>2
    <3>4. T[<<"not", a>>] = Negation(T, g)
      BY TransformAt
    <3>5. T[e] = Negation(T, g)
      BY <2>4, <3>4
    <3> HIDE DEF g
    <3>6. size[g] < size[e] /\ 2 * size[g] <= size[e]
      BY <1>0, <3>1, <3>2, <3>3
    <3>7. ASSUME NEW s \in Symbols, g = Sym(s) PROVE e \in Good
      <4>1. /\ size[g] = 1 /\ size[Sym("n")] = 1 /\ size[Sym("m")] = 1 /\ size[Sym("y")] = 1
            /\ {Sym("n"), Sym("m"), Sym("y")} \subseteq E
        BY <3>7, Made, LiteralSymbols
      <4>2. /\ T[Sym("n")] = Sym("n") /\ T[Sym("m")] = Sym("m") /\ T[Sym("y")] = Sym("y")
        BY TransformAt, LiteralSymbols
      <4>3. Negation(T, Sym(s)) = IF s = "y" THEN Sym("n")
                                  ELSE IF s = "m" THEN Sym("m")
                                  ELSE IF s = "n" THEN Sym("y")
                                  ELSE <<"not", Sym(s)>>
        BY TransformNotAt
      <4>4. CASE s \in {"y", "m", "n"}
        <5>1. T[e] \in {Sym("n"), Sym("m"), Sym("y")}
          BY <3>5, <3>7, <4>3, <4>4
        <5>2. QED
          BY <1>0, <3>6, <4>1, <4>2, <5>1
      <4>5. CASE s \notin {"y", "m", "n"}
        <5>1. T[e] = <<"not", g>>
          BY <3>5, <3>7, <4>3, <4>5
        <5>2. <<"not", g>> \in E /\ size[<<"not", g>>] = 2 * size[g]
          BY <3>3, Made
        <5>3. T[<<"not", g>>] = Negation(T, T[g])
          BY <3>3, TransformAt
        <5>4. T[<<"not", g>>] = <<"not", g>>
          BY <3>3, <3>5, <5>1, <5>3
        <5>5. QED
          BY <3>6, <5>1, <5>2, <5>4
      <4>6. QED
        BY <4>4, <4>5
    <3>8. ASSUME NEW op \in Comparisons, NEW s \in Symbols, NEW t \in Symbols, g = <<op, s, t>>
          PROVE  e \in Good
      <4>1. Negation(T, <<op, s, t>>) = <<Negated(op), s, t>>
        BY TransformNotAt
      <4>2. Negated(op) \in Comparisons
        BY NegatedHolds
      <4>3. /\ <<Negated(op), s, t>> \in E /\ size[<<Negated(op), s, t>>] = 3
            /\ size[<<op, s, t>>] = 3
        BY <4>2, Made
      <4>4. T[<<op, s, t>>] = <<op, s, t>> => T[<<Negated(op), s, t>>] = <<Negated(op), s, t>>
        BY TransformComparison
      <4>5. QED
        BY <1>0, <3>3, <3>5, <3>6, <3>8, <4>1, <4>3, <4>4
    <3>9. ASSUME NEW h \in E, g = <<"not", h>> PROVE e \in Good
      <4>1. Negation(T, <<"not", h>>) = T[h]
        BY TransformNotAt
      <4>2. size[<<"not", h>>] = 2 * size[h]
        BY Made
      <4>3. size[h] < size[e]
        BY <1>0, <3>6, <3>9, <4>2
      <4>4. T[h] \in E /\ size[T[h]] <= size[h] /\ T[T[h]] = T[h]
        BY <1>1, <4>3
      <4>5. T[e] = T[h]
        BY <3>5, <3>9, <4>1
      <4>6. QED
        BY <1>0, <4>3, <4>4, <4>5
    <3>10. ASSUME NEW h \in E, NEW k \in E, NEW op \in {"and", "or"}, g = <<op, h, k>>
           PROVE  e \in Good
      <4> DEFINE d == <<Dual(op), <<"not", h>>, <<"not", k>>>>
      <4>1. Negation(T, <<op, h, k>>) = T[d]
        BY TransformNotAt
      <4>2. size[<<op, h, k>>] = size[h] + size[k] + 1
        BY Made
      <4>3. /\ <<"not", h>> \in E /\ size[<<"not", h>>] = 2 * size[h]
            /\ <<"not", k>> \in E /\ size[<<"not", k>>] = 2 * size[k]
        BY Made
      <4>4. d \in E /\ size[d] = 2 * size[h] + 2 * size[k] + 1
        BY <4>3, Made DEF Dual
      <4>5. T[e] = T[d]
        BY <3>5, <3>10, <4>1
      <4> HIDE DEF d
      <4>6. size[d] < size[e]
        BY <1>0, <3>6, <3>10, <4>2, <4>4
      <4>7. T[d] \in E /\ size[T[d]] <= size[d] /\ T[T[d]] = T[d]
        BY <1>1, <4>4, <4>6
      <4>8. QED
        BY <1>0, <4>4, <4>5, <4>6, <4>7
    <3>11. QED
      BY <3>3, <3>7, <3>8, <3>9, <3>10, Kinds
  <2>5. QED
    BY <2>1, <2>2, <2>3, <2>4, Kinds
<1> HIDE DEF Good
<1>2. \A e \in E : e \in Good
  BY <1>1, ExpressionInduction
<1>3. QED
  BY <1>2 DEF Good

\* Whatever the expression and the values of the symbols, what expr_transform makes of a
\* condition has the value that the condition has.
THEOREM TransformKeepsValue ==
    ASSUME NEW E, NEW size, Expressions(E, size), NEW T, Transforms(E, T),
           NEW v, IsValuation(v), NEW value, Computes(E, value, v)
    PROVE  \A e \in E : value[T[e]] = value[e]
<1> DEFINE Good == {e \in E : value[T[e]] = value[e]}
<1>0. /\ \A e \in E : size[e] \in Nat \ {0} /\ value[e] \in Tristate
      /\ \A e \in E : T[e] \in E /\ size[T[e]] <= size[e]
  BY Made, ValueIsTristate, TransformSettles
<1>1. ASSUME NEW e \in E, \A f \in E : size[f] < size[e] => f \in Good PROVE e \in Good
  <2>1. ASSUME NEW s \in Symbols, e = Sym(s) PROVE e \in Good
    BY <2>1, TransformAt
  <2>2. ASSUME NEW op \in Comparisons, NEW s \in Symbols, NEW t \in Symbols, e = <<op, s, t>>
        PROVE  e \in Good
    <3>1. T[<<op, s, t>>] = IF op \in {"=", "!="} /\ TypeOf(s) = "boolean" /\ t \in TriLiterals
                            THEN Replaced(op, s, t) ELSE <<op, s, t>>
      BY TransformAt, TransformCompAt
    <3>2. op \in {"=", "!="} /\ TypeOf(s) = "boolean" /\ t \in TriLiterals =>
              value[Replaced(op, s, t)] = value[<<op, s, t>>]
      BY ReplacedValue
    <3>3. QED
      BY <2>2, <3>1, <3>2
  <2>3. ASSUME NEW a \in E, NEW b \in E, NEW op \in {"and", "or"}, e = <<op, a, b>>
        PROVE  e \in Good
    <3>1. size[e] = size[a] + size[b] + 1
      BY <2>3, Made
    <3>2. size[a] < size[e] /\ size[b] < size[e]
      BY <1>0, <3>1
    <3>3. value[T[a]] = value[a] /\ value[T[b]] = value[b] /\ T[a] \in E /\ T[b] \in E
      BY <1>0, <1>1, <3>2
    <3>4. T[<<op, a, b>>] = <<op, T[a], T[b]>>
      BY TransformAt
    <3>5. value[<<op, a, b>>] = Junction(op, value[a], value[b])
      BY ValueAt
    <3>6. value[<<op, T[a], T[b]>>] = Junction(op, value[T[a]], value[T[b]])
      BY <3>3, ValueAt
    <3>7. QED
      BY <2>3, <3>3, <3>4, <3>5, <3>6
  <2>4. ASSUME NEW a \in E, e = <<"not", a>> PROVE e \in Good
    <3> DEFINE g == T[a]
    <3>1. size[e] = 2 * size[a]
      BY <2>4, Made
    <3>2. size[a] < size[e]
      BY <1>0, <3>1
    <3>3. g \in E /\ size[g] <= size[a] /\ value[g] = value[a]
      BY <1>0, <1>1, <3>2
    <3>4. T[<<"not", a>>] = Negation(T, g) /\ value[<<"not", a>>] = Not(value[a])
      BY TransformAt, ValueAt
    <3>5. T[e] = Negation(T, g) /\ value[e] = Not(value[g])
      BY <2>4, <3>3, <3>4
    <3> HIDE DEF g
    <3>6. size[g] < size[e] /\ 2 * size[g] <= size[e]
      BY <1>0, <3>1, <3>2, <3>3
    <3>7. ASSUME NEW s \in Symbols, g = Sym(s) PROVE e \in Good
      <4>1. Negation(T, Sym(s)) = IF s = "y" THEN Sym("n")
                                  ELSE IF s = "m" THEN Sym("m")
                                  ELSE IF s = "n" THEN Sym("y")
                                  ELSE <<"not", Sym(s)>>
        BY TransformNotAt
      <4>2. value[Sym("y")] = Yes /\ value[Sym("m")] = Mod /\ value[Sym("n")] = No
        BY ValueAt, LiteralSymbols, LiteralValues
      <4>3. value[<<"not", g>>] = Not(value[g])
        BY <3>3, ValueAt
      <4>4. QED
        BY <3>5, <3>7, <4>1, <4>2, <4>3 DEF Not, No, Mod, Yes
    <3>8. ASSUME NEW op \in Comparisons, NEW s \in Symbols, NEW t \in Symbols, g = <<op, s, t>>
          PROVE  e \in Good
      <4>1. Negation(T, <<op, s, t>>) = <<Negated(op), s, t>>
        BY TransformNotAt
      <4>2. Negated(op) \in Comparisons
        BY NegatedHolds
      <4>3. /\ value[<<op, s, t>>] = Compared(v, op, s, t)
            /\ value[<<Negated(op), s, t>>] = Compared(v, Negated(op), s, t)
        BY <4>2, ValueAt
      <4>4. Compared(v, Negated(op), s, t) = Not(Compared(v, op, s, t))
        BY NegatedCompared
      <4>5. QED
        BY <3>5, <3>8, <4>1, <4>3, <4>4
    <3>9. ASSUME NEW h \in E, g = <<"not", h>> PROVE e \in Good
      <4>1. Negation(T, <<"not", h>>) = T[h] /\ value[<<"not", h>>] = Not(value[h])
        BY TransformNotAt, ValueAt
      <4>2. size[<<"not", h>>] = 2 * size[h]
        BY Made
      <4>3. size[h] < size[e]
        BY <1>0, <3>6, <3>9, <4>2
      <4>4. value[T[h]] = value[h]
        BY <1>1, <4>3
      <4>5. Not(Not(value[h])) = value[h]
        BY <1>0, NotAndOr
      <4>6. QED
        BY <3>5, <3>9, <4>1, <4>4, <4>5
    <3>10. ASSUME NEW h \in E, NEW k \in E, NEW op \in {"and", "or"}, g = <<op, h, k>>
           PROVE  e \in Good
      <4> DEFINE d == <<Dual(op), <<"not", h>>, <<"not", k>>>>
      <4>1. Negation(T, <<op, h, k>>) = T[d]
        BY TransformNotAt
      <4>2. size[<<op, h, k>>] = size[h] + size[k] + 1
        BY Made
      <4>3. /\ <<"not", h>> \in E /\ size[<<"not", h>>] = 2 * size[h]
            /\ <<"not", k>> \in E /\ size[<<"not", k>>] = 2 * size[k]
        BY Made
      <4>4. d \in E /\ size[d] = 2 * size[h] + 2 * size[k] + 1
        BY <4>3, Made DEF Dual
      <4>5. value[<<op, h, k>>] = Junction(op, value[h], value[k])
        BY ValueAt
      <4>6. value[<<"not", h>>] = Not(value[h]) /\ value[<<"not", k>>] = Not(value[k])
        BY ValueAt
      <4>7. value[d] = Junction(Dual(op), Not(value[h]), Not(value[k]))
        BY <4>3, <4>6, ValueAt DEF Dual
      <4>8. Junction(Dual(op), Not(value[h]), Not(value[k])) = Not(Junction(op, value[h], value[k]))
        BY <1>0, NotAndOr DEF Junction, Dual
      <4>9. T[e] = T[d] /\ value[e] = value[d]
        BY <3>5, <3>10, <4>1, <4>5, <4>7, <4>8
      <4> HIDE DEF d
      <4>10. size[d] < size[e]
        BY <1>0, <3>6, <3>10, <4>2, <4>4
      <4>11. value[T[d]] = value[d]
        BY <1>1, <4>4, <4>10
      <4>12. QED
        BY <4>9, <4>11
    <3>11. QED
      BY <3>3, <3>7, <3>8, <3>9, <3>10, Kinds
  <2>5. QED
    BY <2>1, <2>2, <2>3, <2>4, Kinds
<1> HIDE DEF Good
<1>2. \A e \in E : e \in Good
  BY <1>1, ExpressionInduction
<1>3. QED
  BY <1>2 DEF Good

-----------------------------------------------------------------------------
(* expr_eliminate_yn.                                                      *)

\* U is what expr_eliminate_yn computes.
Eliminates(E, U) == \A e \in E : U[e] = EliminateYNBy(LAMBDA f : U[f], e)

LEMMA EliminateAt ==
    ASSUME NEW E, NEW size, Expressions(E, size), NEW U, Eliminates(E, U)
    PROVE  /\ \A s \in Symbols : U[Sym(s)] = Sym(s)
           /\ \A op \in Comparisons, s \in Symbols, t \in Symbols : U[<<op, s, t>>] = <<op, s, t>>
           /\ \A e \in E : U[<<"not", e>>] = <<"not", e>>
           /\ \A op \in {"and", "or"}, e \in E, f \in E :
                  U[<<op, e, f>>] = WithoutYN(op, U[e], U[f])
<1>1. ASSUME NEW s \in Symbols PROVE U[Sym(s)] = Sym(s)
  <2>1. U[Sym(s)] = EliminateYNBy(LAMBDA f : U[f], Sym(s))
    BY Made DEF Eliminates
  <2>2. QED
    BY <2>1 DEF EliminateYNBy, Sym
<1>2. ASSUME NEW op \in Comparisons, NEW s \in Symbols, NEW t \in Symbols
      PROVE  U[<<op, s, t>>] = <<op, s, t>>
  <2>1. U[<<op, s, t>>] = EliminateYNBy(LAMBDA f : U[f], <<op, s, t>>)
    BY Made DEF Eliminates
  <2>2. QED
    BY <2>1 DEF EliminateYNBy, Comparisons
<1>3. ASSUME NEW e \in E PROVE U[<<"not", e>>] = <<"not", e>>
  <2>1. U[<<"not", e>>] = EliminateYNBy(LAMBDA f : U[f], <<"not", e>>)
    BY Made DEF Eliminates
  <2>2. QED
    BY <2>1 DEF EliminateYNBy
<1>4. ASSUME NEW op \in {"and", "or"}, NEW e \in E, NEW f \in E
      PROVE  U[<<op, e, f>>] = WithoutYN(op, U[e], U[f])
  <2>1. U[<<op, e, f>>] = EliminateYNBy(LAMBDA g : U[g], <<op, e, f>>)
    BY Made DEF Eliminates
  <2>2. QED
    BY <2>1 DEF EliminateYNBy
<1>5. QED
  BY <1>1, <1>2, <1>3, <1>4

LEMMA WithoutYNValue ==
    ASSUME NEW E, NEW size, Expressions(E, size), NEW v, IsValuation(v),
           NEW value, Computes(E, value, v), NEW op \in {"and", "or"}, NEW e \in E, NEW f \in E
    PROVE  /\ WithoutYN(op, e, f) \in {e, f, <<op, e, f>>}
           /\ value[WithoutYN(op, e, f)] = Junction(op, value[e], value[f])
<1>1. value[e] \in Tristate /\ value[f] \in Tristate
  BY ValueIsTristate
<1>2. value[Sym("y")] = Yes /\ value[Sym("n")] = No
  BY ValueAt, LiteralSymbols, LiteralValues
<1>3. value[<<op, e, f>>] = Junction(op, value[e], value[f])
  BY ValueAt
<1>4. CASE op = "and"
  <2>1. WithoutYN(op, e, f) = IF Sym("n") \in {e, f} THEN Sym("n")
                              ELSE IF e = Sym("y") THEN f
                              ELSE IF f = Sym("y") THEN e ELSE <<op, e, f>>
    BY <1>4 DEF WithoutYN, Neutral, Sym
  <2>2. QED
    BY <1>1, <1>2, <1>3, <1>4, <2>1 DEF Junction, And, Tristate, No, Yes
<1>5. CASE op = "or"
  <2>1. WithoutYN(op, e, f) = IF Sym("y") \in {e, f} THEN Sym("y")
                              ELSE IF e = Sym("n") THEN f
                              ELSE IF f = Sym("n") THEN e ELSE <<op, e, f>>
    BY <1>5 DEF WithoutYN, Neutral, Sym
  <2>2. QED
    BY <1>1, <1>2, <1>3, <1>5, <2>1 DEF Junction, Or, Tristate, No, Yes
<1>6. QED
  BY <1>4, <1>5

\* expr_eliminate_yn keeps the value of every expression, and a second call does nothing.
THEOREM EliminateYNKeepsValue ==
    ASSUME NEW E, NEW size, Expressions(E, size), NEW U, Eliminates(E, U),
           NEW v, IsValuation(v), NEW value, Computes(E, value, v)
    PROVE  \A e \in E : U[e] \in E /\ U[U[e]] = U[e] /\ value[U[e]] = value[e]
<1> DEFINE Good == {e \in E : U[e] \in E /\ U[U[e]] = U[e] /\ value[U[e]] = value[e]}
<1>1. \A s \in Symbols : Sym(s) \in Good
  BY Made, EliminateAt
<1>2. ASSUME NEW op \in Comparisons, NEW s \in Symbols, NEW t \in Symbols
      PROVE  <<op, s, t>> \in Good
  <2>1. U[<<op, s, t>>] = <<op, s, t>> /\ <<op, s, t>> \in E
    BY Made, EliminateAt
  <2>2. QED
    BY <2>1
<1>3. ASSUME NEW e \in E PROVE <<"not", e>> \in Good
  <2>1. U[<<"not", e>>] = <<"not", e>> /\ <<"not", e>> \in E
    BY Made, EliminateAt
  <2>2. QED
    BY <2>1
<1>4. ASSUME NEW op \in {"and", "or"}, NEW e \in E, NEW f \in E, e \in Good, f \in Good
      PROVE  <<op, e, f>> \in Good
  <2> DEFINE a == U[e]
             b == U[f]
  <2>1. /\ a \in E /\ b \in E /\ U[a] = a /\ U[b] = b
        /\ value[a] = value[e] /\ value[b] = value[f]
    BY <1>4
  <2>2. U[<<op, e, f>>] = WithoutYN(op, a, b)
    BY EliminateAt
  <2> HIDE DEF a, b
  <2>3. U[<<op, a, b>>] = WithoutYN(op, a, b)
    BY <2>1, EliminateAt
  <2>4. WithoutYN(op, a, b) \in {a, b, <<op, a, b>>}
    BY <2>1, WithoutYNValue
  <2>5. value[WithoutYN(op, a, b)] = Junction(op, value[a], value[b])
    BY <2>1, WithoutYNValue
  <2>6. value[<<op, e, f>>] = Junction(op, value[e], value[f])
    BY ValueAt
  <2>7. <<op, a, b>> \in E /\ <<op, e, f>> \in E
    BY <2>1, Made
  <2>8. QED
    BY <2>1, <2>2, <2>3, <2>4, <2>5, <2>6, <2>7
<1> HIDE DEF Good
<1>5. \A e \in E : e \in Good
  BY <1>1, <1>2, <1>3, <1>4, StructuralInduction
<1>6. QED
  BY <1>5 DEF Good


-----------------------------------------------------------------------------
(* expr_trans_bool.                                                        *)

\* B is what expr_trans_bool computes.
TransBools(E, B) == \A e \in E : B[e] = TransBoolBy(LAMBDA f : B[f], e)

LEMMA TransBoolAt ==
    ASSUME NEW E, NEW size, Expressions(E, size), NEW B, TransBools(E, B)
    PROVE  /\ \A s \in Symbols : B[Sym(s)] = Sym(s)
           /\ \A op \in Comparisons, s \in Symbols, t \in Symbols :
                  B[<<op, s, t>>] = IF op = "!=" /\ TypeOf(s) = "tristate" /\ t = "n"
                                    THEN Sym(s) ELSE <<op, s, t>>
           /\ \A e \in E : B[<<"not", e>>] = <<"not", B[e]>>
           /\ \A op \in {"and", "or"}, e \in E, f \in E : B[<<op, e, f>>] = <<op, B[e], B[f]>>
<1>1. ASSUME NEW s \in Symbols PROVE B[Sym(s)] = Sym(s)
  <2>1. B[Sym(s)] = TransBoolBy(LAMBDA f : B[f], Sym(s))
    BY Made DEF TransBools
  <2>2. QED
    BY <2>1 DEF TransBoolBy, Sym
<1>2. ASSUME NEW op \in Comparisons, NEW s \in Symbols, NEW t \in Symbols
      PROVE  B[<<op, s, t>>] = IF op = "!=" /\ TypeOf(s) = "tristate" /\ t = "n"
                               THEN Sym(s) ELSE <<op, s, t>>
  <2>1. B[<<op, s, t>>] = TransBoolBy(LAMBDA f : B[f], <<op, s, t>>)
    BY Made DEF TransBools
  <2>2. QED
    BY <2>1 DEF TransBoolBy, Comparisons
<1>3. ASSUME NEW e \in E PROVE B[<<"not", e>>] = <<"not", B[e]>>
  <2>1. B[<<"not", e>>] = TransBoolBy(LAMBDA f : B[f], <<"not", e>>)
    BY Made DEF TransBools
  <2>2. QED
    BY <2>1 DEF TransBoolBy
<1>4. ASSUME NEW op \in {"and", "or"}, NEW e \in E, NEW f \in E
      PROVE  B[<<op, e, f>>] = <<op, B[e], B[f]>>
  <2>1. B[<<op, e, f>>] = TransBoolBy(LAMBDA g : B[g], <<op, e, f>>)
    BY Made DEF TransBools
  <2>2. QED
    BY <2>1 DEF TransBoolBy
<1>5. QED
  BY <1>1, <1>2, <1>3, <1>4

\* In an expression that expr_transform has left, negations stand in front of
\* symbols only.
LEMMA NegationsAtSymbols ==
    ASSUME NEW E, NEW size, Expressions(E, size), NEW T, Transforms(E, T),
           NEW e \in E, T[<<"not", e>>] = <<"not", e>>
    PROVE  \E s \in Symbols : e = Sym(s)
<1> DEFINE g == T[e]
<1>0. /\ \A f \in E : size[f] \in Nat \ {0}
      /\ \A f \in E : T[f] \in E /\ size[T[f]] <= size[f]
  BY Made, TransformSettles
<1>1. g \in E /\ size[g] <= size[e]
  BY <1>0
<1>2. T[<<"not", e>>] = Negation(T, g)
  BY TransformAt
<1>3. size[<<"not", e>>] = 2 * size[e]
  BY Made
<1> HIDE DEF g
<1>4. Negation(T, g) = <<"not", e>>
  BY <1>2
<1>5. ASSUME NEW s \in Symbols, g = Sym(s) PROVE \E r \in Symbols : e = Sym(r)
  <2>1. Negation(T, Sym(s)) = IF s = "y" THEN Sym("n")
                              ELSE IF s = "m" THEN Sym("m")
                              ELSE IF s = "n" THEN Sym("y")
                              ELSE <<"not", Sym(s)>>
    BY TransformNotAt
  <2>2. QED
    BY <1>4, <1>5, <2>1 DEF Sym
<1>6. ASSUME NEW op \in Comparisons, NEW s \in Symbols, NEW t \in Symbols, g = <<op, s, t>>
      PROVE  FALSE
  <2>1. Negation(T, <<op, s, t>>) = <<Negated(op), s, t>> /\ Negated(op) \in Comparisons
    BY TransformNotAt, NegatedHolds
  <2>2. QED
    BY <1>4, <1>6, <2>1 DEF Comparisons
<1>7. ASSUME NEW h \in E, g = <<"not", h>> PROVE FALSE
  <2>1. Negation(T, <<"not", h>>) = T[h] /\ size[<<"not", h>>] = 2 * size[h]
    BY Made, TransformNotAt
  <2>2. QED
    BY <1>0, <1>1, <1>3, <1>4, <1>7, <2>1
<1>8. ASSUME NEW op \in {"and", "or"}, NEW h \in E, NEW k \in E, g = <<op, h, k>> PROVE FALSE
  <2> DEFINE d == <<Dual(op), <<"not", h>>, <<"not", k>>>>
  <2>1. Negation(T, <<op, h, k>>) = T[d] /\ size[<<op, h, k>>] = size[h] + size[k] + 1
    BY Made, TransformNotAt
  <2>2. /\ <<"not", h>> \in E /\ size[<<"not", h>>] = 2 * size[h]
        /\ <<"not", k>> \in E /\ size[<<"not", k>>] = 2 * size[k]
    BY Made
  <2>3. d \in E /\ size[d] = 2 * size[h] + 2 * size[k] + 1
    BY <2>2, Made DEF Dual
  <2> HIDE DEF d
  <2>4. QED
    BY <1>0, <1>1, <1>3, <1>4, <1>8, <2>1, <2>3
<1>9. QED
  BY <1>1, <1>5, <1>6, <1>7, <1>8, Kinds

\* On an expression that expr_transform has left, expr_trans_bool may change y into m
\* but does not change whether the condition is n: no entry appears or disappears.
THEOREM TransBoolKeepsVisibility ==
    ASSUME NEW E, NEW size, Expressions(E, size), NEW T, Transforms(E, T),
           NEW B, TransBools(E, B), NEW v, IsValuation(v), NEW value, Computes(E, value, v)
    PROVE  \A e \in E : T[e] = e => B[e] \in E /\ (value[B[e]] = No <=> value[e] = No)
<1> DEFINE Good == {e \in E : T[e] = e => B[e] \in E /\ (value[B[e]] = No <=> value[e] = No)}
<1>0. \A e \in E : value[e] \in Tristate
  BY ValueIsTristate
<1>1. ASSUME NEW s \in Symbols PROVE Sym(s) \in Good
  <2>1. B[Sym(s)] = Sym(s) /\ Sym(s) \in E
    BY Made, TransBoolAt
  <2>2. QED
    BY <2>1
<1>2. ASSUME NEW op \in Comparisons, NEW s \in Symbols, NEW t \in Symbols
      PROVE  <<op, s, t>> \in Good
  <2>1. /\ <<op, s, t>> \in E /\ Sym(s) \in E
        /\ B[<<op, s, t>>] = IF op = "!=" /\ TypeOf(s) = "tristate" /\ t = "n"
                             THEN Sym(s) ELSE <<op, s, t>>
    BY Made, TransBoolAt
  <2>2. CASE op = "!=" /\ TypeOf(s) = "tristate" /\ t = "n"
    <3>1. value[Sym(s)] = TriIn(v, s) /\ value[<<op, s, t>>] = Compared(v, op, s, t)
      BY ValueAt
    <3>2. Compared(v, "!=", s, t) = IF TriIn(v, s) = ConstTri(t) THEN No ELSE Yes
      BY <2>2, ComparedWithLiteral DEF IsTri, TriLiterals
    <3>3. QED
      BY <2>1, <2>2, <3>1, <3>2 DEF ConstTri, No, Yes
  <2>3. CASE ~(op = "!=" /\ TypeOf(s) = "tristate" /\ t = "n")
    BY <2>1, <2>3
  <2>4. QED
    BY <2>2, <2>3
<1>3. ASSUME NEW e \in E, e \in Good PROVE <<"not", e>> \in Good
  <2>1. SUFFICES ASSUME T[<<"not", e>>] = <<"not", e>>
                 PROVE  B[<<"not", e>>] = <<"not", e>>
    BY Made
  <2>2. PICK s \in Symbols : e = Sym(s)
    BY <2>1, NegationsAtSymbols
  <2>3. B[<<"not", e>>] = <<"not", B[e]>> /\ B[Sym(s)] = Sym(s)
    BY TransBoolAt
  <2>4. QED
    BY <2>2, <2>3
<1>4. ASSUME NEW op \in {"and", "or"}, NEW e \in E, NEW f \in E, e \in Good, f \in Good
      PROVE  <<op, e, f>> \in Good
  <2>1. SUFFICES ASSUME T[<<op, e, f>>] = <<op, e, f>>
                 PROVE  /\ B[<<op, e, f>>] \in E
                        /\ value[B[<<op, e, f>>]] = No <=> value[<<op, e, f>>] = No
    BY Made
  <2>2. T[<<op, e, f>>] = <<op, T[e], T[f]>>
    BY TransformAt
  <2>3. T[e] = e /\ T[f] = f
    BY <2>1, <2>2
  <2>4. /\ B[e] \in E /\ (value[B[e]] = No <=> value[e] = No)
        /\ B[f] \in E /\ (value[B[f]] = No <=> value[f] = No)
    BY <1>4, <2>3
  <2>5. B[<<op, e, f>>] = <<op, B[e], B[f]>>
    BY TransBoolAt
  <2>6. /\ value[<<op, e, f>>] = Junction(op, value[e], value[f])
        /\ value[<<op, B[e], B[f]>>] = Junction(op, value[B[e]], value[B[f]])
    BY <2>4, ValueAt
  <2>7. Junction(op, value[B[e]], value[B[f]]) = No <=> Junction(op, value[e], value[f]) = No
    BY <1>0, <2>4 DEF Junction, And, Or, Tristate, No, Yes
  <2>8. <<op, B[e], B[f]>> \in E
    BY <2>4, Made
  <2>9. QED
    BY <2>5, <2>6, <2>7, <2>8
<1> HIDE DEF Good
<1>5. \A e \in E : e \in Good
  BY <1>1, <1>2, <1>3, <1>4, StructuralInduction
<1>6. QED
  BY <1>5 DEF Good

-----------------------------------------------------------------------------
(* expr_contains_symbol and expr_depends_symbol.                           *)

\* C and D are the expressions of which they say so for the symbol s.
Contains(E, C, s) == \A e \in E : e \in C <=> ContainsSymbolBy(LAMBDA f, r : f \in C, e, s)
Depends(E, D, s) == \A e \in E : e \in D <=> DependsSymbolBy(LAMBDA f, r : f \in D, e, s)

LEMMA ContainsAt ==
    ASSUME NEW E, NEW size, Expressions(E, size), NEW s \in Symbols, NEW C, Contains(E, C, s)
    PROVE  /\ \A r \in Symbols : Sym(r) \in C <=> r = s
           /\ \A op \in Comparisons, r \in Symbols, t \in Symbols :
                  <<op, r, t>> \in C <=> s \in {r, t}
           /\ \A e \in E : <<"not", e>> \in C <=> e \in C
           /\ \A op \in {"and", "or"}, e \in E, f \in E :
                  <<op, e, f>> \in C <=> e \in C \/ f \in C
<1>1. ASSUME NEW r \in Symbols PROVE Sym(r) \in C <=> r = s
  <2>1. Sym(r) \in C <=> ContainsSymbolBy(LAMBDA f, q : f \in C, Sym(r), s)
    BY Made DEF Contains
  <2>2. QED
    BY <2>1 DEF ContainsSymbolBy, Sym, IsComp, Comparisons
<1>2. ASSUME NEW op \in Comparisons, NEW r \in Symbols, NEW t \in Symbols
      PROVE  <<op, r, t>> \in C <=> s \in {r, t}
  <2>1. <<op, r, t>> \in C <=> ContainsSymbolBy(LAMBDA f, q : f \in C, <<op, r, t>>, s)
    BY Made DEF Contains
  <2>2. QED
    BY <2>1 DEF ContainsSymbolBy, IsComp, Comparisons
<1>3. ASSUME NEW e \in E PROVE <<"not", e>> \in C <=> e \in C
  <2>1. <<"not", e>> \in C <=> ContainsSymbolBy(LAMBDA f, q : f \in C, <<"not", e>>, s)
    BY Made DEF Contains
  <2>2. QED
    BY <2>1 DEF ContainsSymbolBy, IsComp, Comparisons
<1>4. ASSUME NEW op \in {"and", "or"}, NEW e \in E, NEW f \in E
      PROVE  <<op, e, f>> \in C <=> e \in C \/ f \in C
  <2>1. <<op, e, f>> \in C <=> ContainsSymbolBy(LAMBDA g, q : g \in C, <<op, e, f>>, s)
    BY Made DEF Contains
  <2>2. QED
    BY <2>1 DEF ContainsSymbolBy, IsComp, Comparisons
<1>5. QED
  BY <1>1, <1>2, <1>3, <1>4

LEMMA DependsAt ==
    ASSUME NEW E, NEW size, Expressions(E, size), NEW s \in Symbols, NEW D, Depends(E, D, s)
    PROVE  /\ \A r \in Symbols : Sym(r) \in D <=> r = s
           /\ \A op \in Comparisons, r \in Symbols, t \in Symbols :
                  <<op, r, t>> \in D <=> \/ op = "=" /\ r = s /\ t \in {"y", "m"}
                                         \/ op = "!=" /\ r = s /\ t = "n"
           /\ \A e \in E : <<"not", e>> \notin D
           /\ \A op \in {"and", "or"}, e \in E, f \in E :
                  <<op, e, f>> \in D <=> op = "and" /\ (e \in D \/ f \in D)
<1>1. ASSUME NEW r \in Symbols PROVE Sym(r) \in D <=> r = s
  <2>1. Sym(r) \in D <=> DependsSymbolBy(LAMBDA f, q : f \in D, Sym(r), s)
    BY Made DEF Depends
  <2>2. QED
    BY <2>1 DEF DependsSymbolBy, Sym
<1>2. ASSUME NEW op \in Comparisons, NEW r \in Symbols, NEW t \in Symbols
      PROVE  <<op, r, t>> \in D <=> \/ op = "=" /\ r = s /\ t \in {"y", "m"}
                                    \/ op = "!=" /\ r = s /\ t = "n"
  <2>1. <<op, r, t>> \in D <=> DependsSymbolBy(LAMBDA f, q : f \in D, <<op, r, t>>, s)
    BY Made DEF Depends
  <2>2. QED
    BY <2>1 DEF DependsSymbolBy, Comparisons
<1>3. ASSUME NEW e \in E PROVE <<"not", e>> \notin D
  <2>1. <<"not", e>> \in D <=> DependsSymbolBy(LAMBDA f, q : f \in D, <<"not", e>>, s)
    BY Made DEF Depends
  <2>2. QED
    BY <2>1 DEF DependsSymbolBy
<1>4. ASSUME NEW op \in {"and", "or"}, NEW e \in E, NEW f \in E
      PROVE  <<op, e, f>> \in D <=> op = "and" /\ (e \in D \/ f \in D)
  <2>1. <<op, e, f>> \in D <=> DependsSymbolBy(LAMBDA g, q : g \in D, <<op, e, f>>, s)
    BY Made DEF Depends
  <2>2. QED
    BY <2>1 DEF DependsSymbolBy
<1>5. QED
  BY <1>1, <1>2, <1>3, <1>4

\* Where two valuations agree, so do the strings that are compared: whether m reads as
\* n is the same in both, because there is no m while modules are off.
LEMMA SameStrings ==
    ASSUME NEW v, IsValuation(v), NEW w, IsValuation(w), NEW t \in Symbols, v[t] = w[t]
    PROVE  TriIn(v, t) = TriIn(w, t) /\ StrIn(v, t) = StrIn(w, t)
<1>1. TriIn(v, t) = TriIn(w, t)
  BY DEF TriIn
<1>2. CASE t \in Literals
  BY <1>1, <1>2 DEF StrIn
<1>4. CASE t \notin Literals /\ ~IsTri(t)
  BY <1>1, <1>4 DEF StrIn
<1>3. CASE t \notin Literals /\ IsTri(t)
  <2>1. t \in DOMAIN SymType
    BY <1>3 DEF Symbols
  <2>2. ~(v[t] = Mod /\ TriIn(v, ModulesSym) = No) /\ ~(w[t] = Mod /\ TriIn(w, ModulesSym) = No)
    BY <1>3, <2>1 DEF IsValuation
  <2>3. StrIn(v, t) = TriName(v[t]) /\ StrIn(w, t) = TriName(w[t])
    BY <1>3, <2>2 DEF StrIn
  <2>4. QED
    BY <1>1, <2>3
<1>5. QED
  BY <1>2, <1>3, <1>4

\* What expr_contains_symbol says does not contain a symbol has one value in any two
\* configurations that differ in that symbol only.
THEOREM ContainsSymbolRight ==
    ASSUME NEW E, NEW size, Expressions(E, size), NEW s \in Symbols, NEW C, Contains(E, C, s),
           NEW v, IsValuation(v), NEW value, Computes(E, value, v),
           NEW w, IsValuation(w), NEW other, Computes(E, other, w),
           \A t \in Symbols \ {s} : v[t] = w[t]
    PROVE  \A e \in E : e \notin C => value[e] = other[e]
<1> DEFINE Good == {e \in E : e \notin C => value[e] = other[e]}
<1>0. \A t \in Symbols \ {s} : TriIn(v, t) = TriIn(w, t) /\ StrIn(v, t) = StrIn(w, t)
  BY SameStrings
<1>1. ASSUME NEW t \in Symbols PROVE Sym(t) \in Good
  <2>1. Sym(t) \in E /\ (Sym(t) \in C <=> t = s)
    BY Made, ContainsAt
  <2>2. value[Sym(t)] = TriIn(v, t) /\ other[Sym(t)] = TriIn(w, t)
    BY ValueAt
  <2>3. QED
    BY <1>0, <2>1, <2>2
<1>2. ASSUME NEW op \in Comparisons, NEW r \in Symbols, NEW t \in Symbols
      PROVE  <<op, r, t>> \in Good
  <2>1. <<op, r, t>> \in E /\ (<<op, r, t>> \in C <=> s \in {r, t})
    BY Made, ContainsAt
  <2>2. value[<<op, r, t>>] = Compared(v, op, r, t) /\ other[<<op, r, t>>] = Compared(w, op, r, t)
    BY ValueAt
  <2>3. s \notin {r, t} => Compared(v, op, r, t) = Compared(w, op, r, t)
    BY <1>0 DEF Compared
  <2>4. QED
    BY <2>1, <2>2, <2>3
<1>3. ASSUME NEW e \in E, e \in Good PROVE <<"not", e>> \in Good
  <2>1. <<"not", e>> \in E /\ (<<"not", e>> \in C <=> e \in C)
    BY Made, ContainsAt
  <2>2. value[<<"not", e>>] = Not(value[e]) /\ other[<<"not", e>>] = Not(other[e])
    BY ValueAt
  <2>3. QED
    BY <1>3, <2>1, <2>2
<1>4. ASSUME NEW op \in {"and", "or"}, NEW e \in E, NEW f \in E, e \in Good, f \in Good
      PROVE  <<op, e, f>> \in Good
  <2>1. <<op, e, f>> \in E /\ (<<op, e, f>> \in C <=> e \in C \/ f \in C)
    BY Made, ContainsAt
  <2>2. /\ value[<<op, e, f>>] = Junction(op, value[e], value[f])
        /\ other[<<op, e, f>>] = Junction(op, other[e], other[f])
    BY ValueAt
  <2>3. QED
    BY <1>4, <2>1, <2>2
<1> HIDE DEF Good
<1>5. \A e \in E : e \in Good
  BY <1>1, <1>2, <1>3, <1>4, StructuralInduction
<1>6. QED
  BY <1>5 DEF Good

\* What expr_depends_symbol says depends on a boolean or tristate is n while that is n.
THEOREM DependsSymbolRight ==
    ASSUME NEW E, NEW size, Expressions(E, size), NEW s \in DOMAIN SymType, IsTri(s),
           NEW D, Depends(E, D, s),
           NEW v, IsValuation(v), NEW value, Computes(E, value, v), v[s] = No
    PROVE  \A e \in E : e \in D => value[e] = No
<1> DEFINE Good == {e \in E : e \in D => value[e] = No}
<1>0. /\ s \in Symbols /\ TriIn(v, s) = No
      /\ \A e \in E : value[e] \in Tristate
  BY ValueIsTristate, KconfigExprAssumption DEF Symbols, TriIn
<1>1. ASSUME NEW t \in Symbols PROVE Sym(t) \in Good
  <2>1. Sym(t) \in E /\ (Sym(t) \in D <=> t = s) /\ value[Sym(t)] = TriIn(v, t)
    BY <1>0, Made, DependsAt, ValueAt
  <2>2. QED
    BY <1>0, <2>1
<1>2. ASSUME NEW op \in Comparisons, NEW r \in Symbols, NEW t \in Symbols
      PROVE  <<op, r, t>> \in Good
  <2>1. /\ <<op, r, t>> \in E /\ value[<<op, r, t>>] = Compared(v, op, r, t)
        /\ <<op, r, t>> \in D <=> \/ op = "=" /\ r = s /\ t \in {"y", "m"}
                                  \/ op = "!=" /\ r = s /\ t = "n"
    BY <1>0, Made, DependsAt, ValueAt
  <2>2. t \in TriLiterals =>
            /\ Compared(v, "=", s, t) = IF TriIn(v, s) = ConstTri(t) THEN Yes ELSE No
            /\ Compared(v, "!=", s, t) = IF TriIn(v, s) = ConstTri(t) THEN No ELSE Yes
    BY <1>0, ComparedWithLiteral
  <2>3. QED
    BY <1>0, <2>1, <2>2 DEF TriLiterals, ConstTri, No, Mod, Yes
<1>3. ASSUME NEW e \in E PROVE <<"not", e>> \in Good
  BY <1>0, Made, DependsAt
<1>4. ASSUME NEW op \in {"and", "or"}, NEW e \in E, NEW f \in E, e \in Good, f \in Good
      PROVE  <<op, e, f>> \in Good
  <2>1. /\ <<op, e, f>> \in E /\ value[<<op, e, f>>] = Junction(op, value[e], value[f])
        /\ <<op, e, f>> \in D <=> op = "and" /\ (e \in D \/ f \in D)
    BY <1>0, Made, DependsAt, ValueAt
  <2>2. QED
    BY <1>0, <1>4, <2>1 DEF Junction, And, Tristate, No, Yes
<1> HIDE DEF Good
<1>5. \A e \in E : e \in Good
  BY <1>1, <1>2, <1>3, <1>4, StructuralInduction
<1>6. QED
  BY <1>5 DEF Good

-----------------------------------------------------------------------------
(* expr_trans_compare.                                                     *)

\* R[type][s] are the expressions that it makes of e = s and of e != s.
TransCompares(E, R) ==
    \A e \in E, type \in {"=", "!="}, s \in {"y", "n"} :
        R[type][s][e] = TransCompareBy(LAMBDA f, t, r : R[t][r][f], e, type, s)

Equation(type, s, e) == IF (type = "=" <=> s = "y") THEN e ELSE <<"not", e>>
Negate(type, f) == IF type = "!=" THEN <<"not", f>> ELSE f

LEMMA TransCompareAt ==
    ASSUME NEW E, NEW size, Expressions(E, size), NEW R, TransCompares(E, R),
           NEW type \in {"=", "!="}, NEW s \in {"y", "n"}
    PROVE  /\ \A t \in Symbols : R[type][s][Sym(t)] = <<type, t, s>>
           /\ \A op \in Comparisons, r \in Symbols, t \in Symbols :
                  R[type][s][<<op, r, t>>] = Equation(type, s, <<op, r, t>>)
           /\ \A e \in E : R[type][s][<<"not", e>>] = R[Negated(type)][s][e]
           /\ \A op \in {"and", "or"}, e \in E, f \in E :
                  R[type][s][<<op, e, f>>] =
                      Negate(type, <<IF s = "y" THEN op ELSE Dual(op), R["="][s][e], R["="][s][f]>>)
<1>1. ASSUME NEW t \in Symbols PROVE R[type][s][Sym(t)] = <<type, t, s>>
  <2>1. R[type][s][Sym(t)] = TransCompareBy(LAMBDA f, u, r : R[u][r][f], Sym(t), type, s)
    BY Made DEF TransCompares
  <2>2. QED
    BY <2>1 DEF TransCompareBy, Sym, Null, IsComp, Comparisons
<1>2. ASSUME NEW op \in Comparisons, NEW r \in Symbols, NEW t \in Symbols
      PROVE  R[type][s][<<op, r, t>>] = Equation(type, s, <<op, r, t>>)
  <2>1. R[type][s][<<op, r, t>>] = TransCompareBy(LAMBDA f, u, q : R[u][q][f], <<op, r, t>>, type, s)
    BY Made DEF TransCompares
  <2>2. QED
    BY <2>1 DEF TransCompareBy, Null, IsComp, Comparisons, Equation
<1>3. ASSUME NEW e \in E PROVE R[type][s][<<"not", e>>] = R[Negated(type)][s][e]
  <2>1. R[type][s][<<"not", e>>] = TransCompareBy(LAMBDA f, u, q : R[u][q][f], <<"not", e>>, type, s)
    BY Made DEF TransCompares
  <2>2. QED
    BY <2>1 DEF TransCompareBy, Null, IsComp, Comparisons
<1>4. ASSUME NEW op \in {"and", "or"}, NEW e \in E, NEW f \in E
      PROVE  R[type][s][<<op, e, f>>] =
                 Negate(type, <<IF s = "y" THEN op ELSE Dual(op), R["="][s][e], R["="][s][f]>>)
  <2>1. R[type][s][<<op, e, f>>] = TransCompareBy(LAMBDA g, u, q : R[u][q][g], <<op, e, f>>, type, s)
    BY Made DEF TransCompares
  <2>2. QED
    BY <2>1 DEF TransCompareBy, Null, IsComp, Comparisons, Negate, Dual
<1>5. QED
  BY <1>1, <1>2, <1>3, <1>4

\* Comparing one of y, m and n with another.
LEMMA ComparedLiterals ==
    ASSUME NEW v, NEW k \in TriLiterals, NEW l \in TriLiterals
    PROVE  /\ Compared(v, "=", k, l) = IF k = l THEN Yes ELSE No
           /\ Compared(v, "!=", k, l) = IF k = l THEN No ELSE Yes
<1>1. /\ k \in Literals /\ StrIn(v, k) = k /\ TypeOf(k) = "unknown"
      /\ l \in Literals /\ StrIn(v, l) = l /\ TypeOf(l) = "unknown"
  BY KconfigExprAssumption DEF StrIn, TypeOf
<1>2. ParseString(l, "unknown").kind = "string"
  BY KconfigExprAssumption DEF ParseString, Bounded, NumberBase
<1>3. Order(k, "unknown", l, "unknown") = Sign(Rank[k] - Rank[l])
  BY <1>2 DEF Order, OrderOf
<1>4. Sign(Rank[k] - Rank[l]) = 0 <=> k = l
  BY <1>1, KconfigExprAssumption DEF Sign
<1>5. QED
  BY <1>1, <1>3, <1>4 DEF Compared, Holds

\* A set of expressions that has the parts of what it has, and in which only booleans,
\* tristates, y, m and n stand alone: a string alone is n but may compare equal to y.
OverTristates(E, Of) ==
    /\ Of \subseteq E
    /\ \A s \in Symbols : Sym(s) \in Of => IsTri(s) \/ s \in TriLiterals
    /\ \A e \in E : <<"not", e>> \in Of => e \in Of
    /\ \A op \in {"and", "or"}, e \in E, f \in E : <<op, e, f>> \in Of => e \in Of /\ f \in Of

\* Whether a value compares with y or n as the type says.
Compares(type, value, s) == Holds(type, Sign(value - ConstTri(s)))

LEMMA ComparesAt ==
    ASSUME NEW x \in Tristate, NEW s \in {"y", "n"}
    PROVE  /\ Compares("=", x, s) <=> x = ConstTri(s)
           /\ Compares("!=", x, s) <=> x # ConstTri(s)
<1>1. ConstTri(s) \in Int /\ x \in Int
  BY DEF ConstTri, Tristate, No, Mod, Yes
<1>2. Sign(x - ConstTri(s)) = 0 <=> x = ConstTri(s)
  BY <1>1 DEF Sign
<1>3. QED
  BY <1>2 DEF Compares, Holds

\* Where no tristate is m, what expr_trans_compare makes of a comparison of a condition
\* with y or n is y or n, and holds exactly if the comparison does.
THEOREM TransCompareRight ==
    ASSUME NEW E, NEW size, Expressions(E, size), NEW R, TransCompares(E, R),
           NEW v, IsValuation(v), NEW value, Computes(E, value, v),
           \A s \in DOMAIN SymType : IsTri(s) => v[s] # Mod,
           NEW Of, OverTristates(E, Of)
    PROVE  \A e \in Of : \A type \in {"=", "!="}, s \in {"y", "n"} :
               /\ R[type][s][e] \in E
               /\ value[R[type][s][e]] \in {No, Yes}
               /\ value[e] # Mod => (value[R[type][s][e]] = Yes <=> Compares(type, value[e], s))
<1> DEFINE Right(e, type, s) ==
               /\ R[type][s][e] \in E
               /\ value[R[type][s][e]] \in {No, Yes}
               /\ value[e] # Mod => (value[R[type][s][e]] = Yes <=> Compares(type, value[e], s))
           Good == {e \in E : e \in Of => \A type \in {"=", "!="}, s \in {"y", "n"} : Right(e, type, s)}
<1>0. \A e \in E : value[e] \in Tristate
  BY ValueIsTristate
<1>1. ASSUME NEW t \in Symbols PROVE Sym(t) \in Good
  <2>1. SUFFICES ASSUME Sym(t) \in Of, NEW type \in {"=", "!="}, NEW s \in {"y", "n"}
                 PROVE  Right(Sym(t), type, s)
    BY Made
  <2>2. /\ R[type][s][Sym(t)] = <<type, t, s>> /\ <<type, t, s>> \in E
        /\ value[<<type, t, s>>] = Compared(v, type, t, s) /\ value[Sym(t)] = TriIn(v, t)
        /\ TriIn(v, t) \in Tristate
    <3>1. type \in Comparisons /\ s \in Symbols
      BY LiteralSymbols DEF Comparisons
    <3>2. R[type][s][Sym(t)] = <<type, t, s>>
      BY TransCompareAt
    <3>3. <<type, t, s>> \in E
      BY <3>1, Made
    <3>4. value[<<type, t, s>>] = Compared(v, type, t, s) /\ value[Sym(t)] = TriIn(v, t)
      BY <3>1, ValueAt
    <3>5. QED
      BY <3>2, <3>3, <3>4, LeafValues
  <2>3. CASE IsTri(t)
    <3>1. /\ Compared(v, "=", t, s) = IF TriIn(v, t) = ConstTri(s) THEN Yes ELSE No
          /\ Compared(v, "!=", t, s) = IF TriIn(v, t) = ConstTri(s) THEN No ELSE Yes
      BY <2>3, ComparedWithLiteral DEF TriLiterals
    <3>2. QED
      BY <2>2, <3>1, ComparesAt DEF No, Yes
  <2>4. CASE t \in TriLiterals
    <3>1. /\ Compared(v, "=", t, s) = IF t = s THEN Yes ELSE No
          /\ Compared(v, "!=", t, s) = IF t = s THEN No ELSE Yes
      BY <2>4, ComparedLiterals DEF TriLiterals
    <3>2. TriIn(v, t) # Mod => (t = s <=> TriIn(v, t) = ConstTri(s))
      BY <2>4, LiteralValues DEF TriLiterals, ConstTri, No, Mod, Yes
    <3>3. QED
      BY <2>2, <3>1, <3>2, ComparesAt DEF No, Yes
  <2>5. QED
    BY <2>1, <2>3, <2>4 DEF OverTristates
<1>2. ASSUME NEW op \in Comparisons, NEW r \in Symbols, NEW t \in Symbols
      PROVE  <<op, r, t>> \in Good
  <2> DEFINE e == <<op, r, t>>
  <2>1. SUFFICES ASSUME NEW type \in {"=", "!="}, NEW s \in {"y", "n"} PROVE Right(e, type, s)
    BY Made
  <2>2. /\ e \in E /\ <<"not", e>> \in E
        /\ value[e] \in {No, Yes} /\ value[<<"not", e>>] = Not(value[e])
    BY Made, ValueAt, LeafValues
  <2>3. R[type][s][e] = Equation(type, s, e)
    BY TransCompareAt
  <2> HIDE DEF e
  <2>4. /\ Compares("=", value[e], s) <=> value[e] = ConstTri(s)
        /\ Compares("!=", value[e], s) <=> value[e] # ConstTri(s)
    BY <1>0, <2>2, ComparesAt
  <2>5. QED
    BY <2>2, <2>3, <2>4 DEF Equation, Not, ConstTri, No, Mod, Yes
<1>3. ASSUME NEW e \in E, e \in Good PROVE <<"not", e>> \in Good
  <2>1. SUFFICES ASSUME <<"not", e>> \in Of, NEW type \in {"=", "!="}, NEW s \in {"y", "n"}
                 PROVE  Right(<<"not", e>>, type, s)
    BY Made
  <2>2. Negated(type) \in {"=", "!="} /\ Negated(type) # type
    BY DEF Negated
  <2>3. R[type][s][<<"not", e>>] = R[Negated(type)][s][e]
    BY TransCompareAt
  <2>4. Right(e, Negated(type), s)
    BY <1>3, <2>1, <2>2 DEF OverTristates
  <2>5. value[<<"not", e>>] = Not(value[e]) /\ value[<<"not", e>>] \in Tristate
    BY <1>0, Made, ValueAt
  <2>6. /\ Compares("=", value[e], s) <=> value[e] = ConstTri(s)
        /\ Compares("!=", value[e], s) <=> value[e] # ConstTri(s)
        /\ Compares("=", value[<<"not", e>>], s) <=> value[<<"not", e>>] = ConstTri(s)
        /\ Compares("!=", value[<<"not", e>>], s) <=> value[<<"not", e>>] # ConstTri(s)
    BY <1>0, <2>5, ComparesAt
  <2>7. value[<<"not", e>>] # Mod =>
            /\ value[e] # Mod
            /\ Compares(Negated(type), value[e], s) <=> Compares(type, value[<<"not", e>>], s)
    BY <1>0, <2>2, <2>5, <2>6 DEF Not, ConstTri, Tristate, No, Mod, Yes
  <2>8. QED
    BY <2>3, <2>4, <2>7
<1>4. ASSUME NEW op \in {"and", "or"}, NEW e \in E, NEW f \in E, e \in Good, f \in Good
      PROVE  <<op, e, f>> \in Good
  <2>1. SUFFICES ASSUME <<op, e, f>> \in Of, NEW type \in {"=", "!="}, NEW s \in {"y", "n"}
                 PROVE  Right(<<op, e, f>>, type, s)
    BY Made
  <2> DEFINE a == R["="][s][e]
             b == R["="][s][f]
             kind == IF s = "y" THEN op ELSE Dual(op)
             both == <<kind, a, b>>
  <2>2. Right(e, "=", s) /\ Right(f, "=", s)
    BY <1>4, <2>1 DEF OverTristates
  <2>3. R[type][s][<<op, e, f>>] = Negate(type, both)
    BY TransCompareAt
  <2>4. /\ a \in E /\ value[a] \in {No, Yes}
        /\ b \in E /\ value[b] \in {No, Yes}
        /\ value[e] # Mod => (value[a] = Yes <=> value[e] = ConstTri(s))
        /\ value[f] # Mod => (value[b] = Yes <=> value[f] = ConstTri(s))
    BY <1>0, <2>2, ComparesAt
  <2>5. kind \in {"and", "or"} /\ (kind = op <=> s = "y")
    BY DEF Dual
  <2>6. value[<<op, e, f>>] = Junction(op, value[e], value[f]) /\ value[<<op, e, f>>] \in Tristate
    BY <1>0, Made, ValueAt
  <2> HIDE DEF a, b, kind
  <2>7. /\ both \in E /\ value[both] = Junction(kind, value[a], value[b])
        /\ <<"not", both>> \in E /\ value[<<"not", both>>] = Not(value[both])
    <3>1. both \in E /\ value[both] = Junction(kind, value[a], value[b])
      BY <2>4, <2>5, Made, ValueAt
    <3> HIDE DEF both
    <3>2. QED
      BY <3>1, Made, ValueAt
  <2>8. value[both] \in {No, Yes}
    BY <2>4, <2>7 DEF Junction, And, Or
  <2>9. value[<<op, e, f>>] # Mod => (value[both] = Yes <=> value[<<op, e, f>>] = ConstTri(s))
    <3>1. CASE s = "y"
      BY <1>0, <2>4, <2>5, <2>6, <2>7, <3>1 DEF Junction, And, Or, ConstTri, Tristate, No, Mod, Yes
    <3>2. CASE s = "n"
      BY <1>0, <2>4, <2>5, <2>6, <2>7, <3>2 DEF Junction, And, Or, ConstTri, Tristate, No, Mod, Yes
    <3>3. QED
      BY <3>1, <3>2
  <2>10. /\ Compares("=", value[<<op, e, f>>], s) <=> value[<<op, e, f>>] = ConstTri(s)
         /\ Compares("!=", value[<<op, e, f>>], s) <=> value[<<op, e, f>>] # ConstTri(s)
    BY <2>6, ComparesAt
  <2> HIDE DEF both
  <2>11. CASE type = "="
    BY <2>3, <2>7, <2>8, <2>9, <2>10, <2>11 DEF Negate
  <2>12. CASE type = "!="
    BY <2>3, <2>7, <2>8, <2>9, <2>10, <2>12 DEF Negate, Not, No, Yes
  <2>13. QED
    BY <2>11, <2>12
<1> HIDE DEF Good
<1>5. \A e \in E : e \in Good
  BY <1>1, <1>2, <1>3, <1>4, StructuralInduction
<1>6. QED
  BY <1>5 DEF Good, OverTristates

-----------------------------------------------------------------------------
(* expr_join_or and expr_join_and.                                         *)

\* An expression by its operator.
LEMMA ByOperator ==
    ASSUME NEW E, NEW size, Expressions(E, size), NEW e \in E
    PROVE  /\ e[1] = "sym" => \E s \in Symbols : e = Sym(s)
           /\ e[1] \in Comparisons => \E s \in Symbols, t \in Symbols : e = <<e[1], s, t>>
           /\ e[1] = "not" => \E f \in E : e = <<"not", f>>
           /\ e[1] \in {"and", "or", "not", "sym"} \cup Comparisons
<1>1. CASE \E s \in Symbols : e = Sym(s)
  BY <1>1 DEF Sym, Comparisons
<1>2. CASE \E op \in Comparisons, s \in Symbols, t \in Symbols : e = <<op, s, t>>
  BY <1>2 DEF Comparisons
<1>3. CASE \E f \in E : e = <<"not", f>>
  BY <1>3 DEF Comparisons
<1>4. CASE \E f \in E, g \in E : e = <<"and", f, g>> \/ e = <<"or", f, g>>
  BY <1>4 DEF Comparisons
<1>5. QED
  BY <1>1, <1>2, <1>3, <1>4, Kinds

\* What two operands are about.
LEMMA SubjectIsTri ==
    ASSUME NEW E, NEW size, Expressions(E, size), NEW e \in E, NEW f \in E, AboutOneSymbol(e, f)
    PROVE  /\ Subject(e) \in Symbols /\ Subject(f) = Subject(e) /\ IsTri(Subject(e))
           /\ e[1] \in {"=", "!="} => \E l \in Symbols : e = <<e[1], Subject(e), l>>
           /\ f[1] \in {"=", "!="} => \E l \in Symbols : f = <<f[1], Subject(e), l>>
<1>1. /\ Joinable(e, f) /\ Subject(f) = Subject(e) /\ IsTri(Subject(e))
  BY DEF AboutOneSymbol
<1>2. ASSUME NEW g \in E, g[1] \in {"sym", "=", "!="} PROVE g[2] \in Symbols
  <2>1. CASE g[1] = "sym"
    BY <2>1, ByOperator DEF Sym
  <2>2. CASE g[1] \in {"=", "!="}
    <3>1. PICK s \in Symbols, t \in Symbols : g = <<g[1], s, t>>
      BY <2>2, ByOperator DEF Comparisons
    <3>2. QED
      BY <3>1
  <2>3. QED
    BY <1>2, <2>1, <2>2
<1>3. Subject(e) \in Symbols
  <2>1. CASE e[1] = "not"
    <3>1. PICK g \in E : e = <<"not", g>>
      BY <2>1, ByOperator
    <3>2. g[1] \in {"sym", "=", "!="} /\ Subject(e) = g[2]
      BY <1>1, <3>1 DEF Joinable, Subject
    <3>3. QED
      BY <1>2, <3>2
  <2>2. CASE e[1] # "not"
    BY <1>1, <1>2, <2>2 DEF Joinable, Subject
  <2>3. QED
    BY <2>1, <2>2
<1>4. ASSUME NEW g \in E, g[1] \in {"=", "!="} PROVE \E l \in Symbols : g = <<g[1], Subject(g), l>>
  <2>1. PICK s \in Symbols, t \in Symbols : g = <<g[1], s, t>>
    BY <1>4, ByOperator DEF Comparisons
  <2>2. Subject(g) = s
    BY <1>4, <2>1 DEF Subject
  <2>3. QED
    BY <2>1, <2>2
<1>5. QED
  BY <1>1, <1>3, <1>4

\* Comparing a boolean or a tristate with a constant that is not one of the numbers of
\* y, m and n.
LEMMA ComparedWithConstant ==
    ASSUME NEW v, IsValuation(v), NEW s \in Symbols, IsTri(s),
           NEW l \in Literals, Number["any"][l] \notin Tristate
    PROVE  /\ Compared(v, "=", s, l) = IF TriName(TriIn(v, s)) = l THEN Yes ELSE No
           /\ Compared(v, "!=", s, l) = IF TriName(TriIn(v, s)) = l THEN No ELSE Yes
<1> DEFINE x == TriIn(v, s)
           n == Number["any"][l]
<1>1. s \notin Literals /\ s \in DOMAIN SymType
  BY KconfigExprAssumption DEF IsTri, TypeOf, Symbols
<1>2. StrIn(v, s) = TriName(x) /\ x \in Tristate
  BY <1>1 DEF StrIn, TriIn, IsValuation
<1>3. StrIn(v, l) = l /\ TypeOf(l) = "unknown" /\ n \in Int \cup {NaN}
  BY KconfigExprAssumption DEF StrIn, TypeOf, NumberBase
<1>4. TriName(x) \in TriLiterals
  BY <1>2 DEF TriName, TriLiterals, Tristate, No, Mod, Yes
<1>5. TriName(x) \in Literals
  BY <1>4, KconfigExprAssumption
<1>6. ParseString(TriName(x), TypeOf(s)) = [kind |-> "signed", val |-> x]
  BY <1>2 DEF ParseString, IsTri, TriName, Tristate, No, Mod, Yes
<1>7. CASE ParseString(l, "unknown").kind = "string"
  <2>1. Order(StrIn(v, s), TypeOf(s), l, "unknown") = Sign(Rank[TriName(x)] - Rank[l])
    BY <1>2, <1>7 DEF Order, OrderOf
  <2>2. Sign(Rank[TriName(x)] - Rank[l]) = 0 <=> TriName(x) = l
    BY <1>5, KconfigExprAssumption DEF Sign
  <2>3. QED
    BY <1>3, <2>1, <2>2 DEF Compared, Holds
<1>8. CASE ParseString(l, "unknown").kind # "string"
  <2>1. n # NaN /\ ParseString(l, "unknown") = [kind |-> "signed", val |-> n]
    BY <1>8 DEF ParseString, Bounded
  <2>2. Order(StrIn(v, s), TypeOf(s), l, "unknown") = Sign(x - n)
    BY <1>2, <1>6, <2>1 DEF Order, OrderOf
  <2>3. n \in Int /\ x \in Int /\ x # n
    BY <1>2, <1>3, <2>1 DEF Tristate, No, Yes
  <2>4. Sign(x - n) # 0
    BY <2>3 DEF Sign
  <2>5. TriName(x) # l
    BY <1>4, <2>1, KconfigExprAssumption DEF NumberBase
  <2>6. QED
    BY <1>3, <2>2, <2>4, <2>5 DEF Compared, Holds
<1>9. QED
  BY <1>7, <1>8

\* Whenever expr_join_or joins two operands that expr_eq does not call equal, the one it
\* returns has the value that the two have together.
THEOREM JoinOrKeepsValue ==
    ASSUME NEW E, NEW size, Expressions(E, size), NEW v, IsValuation(v),
           NEW value, Computes(E, value, v),
           NEW e \in E, NEW f \in E, e # f, JoinedOr(e, f) # Null
    PROVE  JoinedOr(e, f) \in E /\ value[JoinedOr(e, f)] = Or(value[e], value[f])
<1> DEFINE s == Subject(e)
           two == /\ TypeOf(s) = "tristate"
                  /\ e[1] = "=" /\ f[1] = "="
                  /\ {e[3], f[3]} \subseteq TriLiterals
<1>1. AboutOneSymbol(e, f)
  BY DEF JoinedOr
<1>2. /\ s \in Symbols /\ IsTri(s)
      /\ e[1] \in {"=", "!="} => \E l \in Symbols : e = <<e[1], s, l>>
      /\ f[1] \in {"=", "!="} => \E l \in Symbols : f = <<f[1], s, l>>
  BY <1>1, SubjectIsTri
<1>3. s \notin Literals /\ s \in DOMAIN SymType
  BY <1>2, KconfigExprAssumption DEF IsTri, TypeOf, Symbols
<1>4. TriIn(v, s) \in Tristate /\ (TypeOf(s) = "boolean" => TriIn(v, s) # Mod)
  BY <1>2, <1>3 DEF TriIn, IsValuation, TypeOf
<1>5. CASE two
  <2> DEFINE third == CHOOSE l \in TriLiterals : l \notin {e[3], f[3]}
  <2>1. /\ e = <<"=", s, e[3]>> /\ f = <<"=", s, f[3]>>
        /\ e[3] \in TriLiterals /\ f[3] \in TriLiterals
    BY <1>2, <1>5
  <2>2. JoinedOr(e, f) = <<"!=", s, third>>
    BY <1>1, <1>5 DEF JoinedOr
  <2>3. third \in TriLiterals /\ third \notin {e[3], f[3]}
    BY <2>1 DEF TriLiterals
  <2> HIDE DEF third
  <2>4. PICK k \in TriLiterals, l \in TriLiterals : e = <<"=", s, k>> /\ f = <<"=", s, l>> /\ e[3] = k /\ f[3] = l
    BY <2>1
  <2>5. {k, l, third} \subseteq Symbols
    BY <2>3, <2>4, LiteralSymbols DEF TriLiterals
  <2>6. /\ <<"!=", s, third>> \in E
        /\ value[<<"!=", s, third>>] = Compared(v, "!=", s, third)
        /\ value[<<"=", s, k>>] = Compared(v, "=", s, k)
        /\ value[<<"=", s, l>>] = Compared(v, "=", s, l)
    BY <1>2, <2>5, Made, ValueAt DEF Comparisons
  <2>7. /\ Compared(v, "!=", s, third) = IF TriIn(v, s) = ConstTri(third) THEN No ELSE Yes
        /\ Compared(v, "=", s, k) = IF TriIn(v, s) = ConstTri(k) THEN Yes ELSE No
        /\ Compared(v, "=", s, l) = IF TriIn(v, s) = ConstTri(l) THEN Yes ELSE No
    BY <1>2, <2>3, ComparedWithLiteral
  <2>8. k # l /\ third # k /\ third # l
    BY <2>3, <2>4
  <2>9. TriIn(v, s) # ConstTri(third) <=> TriIn(v, s) = ConstTri(k) \/ TriIn(v, s) = ConstTri(l)
    BY <1>4, <2>3, <2>8 DEF TriLiterals, ConstTri, Tristate, No, Mod, Yes
  <2>10. QED
    BY <2>2, <2>4, <2>6, <2>7, <2>9 DEF Or, No, Yes
<1>6. CASE ~two
  <2>1. /\ TypeOf(s) = "boolean" /\ Are(e, f, Sym(s), <<"not", Sym(s)>>)
        /\ JoinedOr(e, f) = Sym("y")
    BY <1>1, <1>6 DEF JoinedOr
  <2>2. /\ Sym("y") \in E /\ value[Sym("y")] = Yes /\ Sym(s) \in E /\ value[Sym(s)] = TriIn(v, s)
    BY <1>2, Made, ValueAt, LiteralSymbols, LiteralValues
  <2>3. value[<<"not", Sym(s)>>] = Not(value[Sym(s)])
    BY <2>2, ValueAt
  <2>4. QED
    BY <1>4, <2>1, <2>2, <2>3 DEF Are, Or, Not, Tristate, No, Mod, Yes
<1>7. QED
  BY <1>5, <1>6

\* No constant that the two operands compare with is the number of y, m or n.
NoNumerals(e, f) ==
    \A l \in Literals :
        (\E op \in {"=", "!="}, s \in Symbols : <<op, s, l>> \in {e, f}) =>
            Number["any"][l] \notin Tristate

\* (a = b) && (a != c) is n if b and c are one constant, and a = b if not.
LEMMA ChosenRight ==
    ASSUME NEW E, NEW size, Expressions(E, size), NEW v, IsValuation(v),
           NEW value, Computes(E, value, v),
           NEW s \in Symbols, IsTri(s), NEW b \in Literals, NEW c \in Literals,
           Number["any"][b] \notin Tristate, Number["any"][c] \notin Tristate
    PROVE  /\ b # c => value[<<"=", s, b>>] = And(value[<<"=", s, b>>], value[<<"!=", s, c>>])
           /\ b = c => value[Sym("n")] = And(value[<<"=", s, b>>], value[<<"!=", s, c>>])
<1>1. b \in Symbols /\ c \in Symbols
  BY DEF Symbols
<1>2. /\ value[<<"=", s, b>>] = Compared(v, "=", s, b)
      /\ value[<<"!=", s, c>>] = Compared(v, "!=", s, c)
      /\ value[Sym("n")] = No
  BY <1>1, ValueAt, LiteralSymbols, LiteralValues DEF Comparisons
<1>3. /\ Compared(v, "=", s, b) = IF TriName(TriIn(v, s)) = b THEN Yes ELSE No
      /\ Compared(v, "!=", s, c) = IF TriName(TriIn(v, s)) = c THEN No ELSE Yes
  BY ComparedWithConstant
<1>4. QED
  BY <1>2, <1>3 DEF And, No, Yes

\* Whenever expr_join_and joins two operands that expr_eq does not call equal, the one it
\* returns has the value that the two have together, unless they compare a tristate with
\* a constant that reads as 0, 1 or 2: (T = 0) && (T != n) becomes T = 0, which holds
\* where T is n.
THEOREM JoinAndKeepsValue ==
    ASSUME NEW E, NEW size, Expressions(E, size), NEW v, IsValuation(v),
           NEW value, Computes(E, value, v),
           NEW e \in E, NEW f \in E, e # f, NoNumerals(e, f), JoinedAnd(e, f) # Null
    PROVE  JoinedAnd(e, f) \in E /\ value[JoinedAnd(e, f)] = And(value[e], value[f])
<1> DEFINE s == Subject(e)
           x == TriIn(v, s)
           consts == e[3] \in Literals /\ f[3] \in Literals
           first == Are(e, f, Sym(s), <<"=", s, "y">>)
           second == Are(e, f, Sym(s), <<"!=", s, "n">>)
           third == Are(e, f, Sym(s), <<"!=", s, "m">>)
           rest == ~first /\ ~second /\ ~third /\ TypeOf(s) = "tristate"
           eqFirst == e[1] = "=" /\ f[1] = "!=" /\ consts
           eqSecond == e[1] = "!=" /\ f[1] = "=" /\ consts
           unequal == /\ e[1] = "!=" /\ f[1] = "!="
                      /\ {e[3], f[3]} \subseteq TriLiterals
<1>1. AboutOneSymbol(e, f)
  BY DEF JoinedAnd
<1>2. /\ s \in Symbols /\ IsTri(s)
      /\ e[1] \in {"=", "!="} => \E l \in Symbols : e = <<e[1], s, l>>
      /\ f[1] \in {"=", "!="} => \E l \in Symbols : f = <<f[1], s, l>>
  BY <1>1, SubjectIsTri
<1>3. x \in Tristate
  BY <1>2, LeafValues
<1>4. ASSUME NEW l \in TriLiterals
      PROVE  /\ <<"=", s, l>> \in E
             /\ value[<<"=", s, l>>] = IF x = ConstTri(l) THEN Yes ELSE No
             /\ value[<<"!=", s, l>>] = IF x = ConstTri(l) THEN No ELSE Yes
  <2>1. l \in Symbols
    BY LiteralSymbols DEF TriLiterals
  <2>2. /\ <<"=", s, l>> \in E
        /\ value[<<"=", s, l>>] = Compared(v, "=", s, l)
        /\ value[<<"!=", s, l>>] = Compared(v, "!=", s, l)
    BY <1>2, <2>1, Made, ValueAt DEF Comparisons
  <2>3. QED
    BY <1>2, <2>2, ComparedWithLiteral
<1>5. Sym(s) \in E /\ value[Sym(s)] = x /\ Sym("n") \in E
  BY <1>2, Made, ValueAt, LiteralSymbols
<1>6. CASE first
  <2>1. JoinedAnd(e, f) = <<"=", s, "y">>
    BY <1>1, <1>6 DEF JoinedAnd, Are, Sym
  <2>2. QED
    BY <1>3, <1>4, <1>5, <1>6, <2>1 DEF Are, And, TriLiterals, ConstTri, Tristate, No, Mod, Yes
<1>7. CASE second
  <2>1. JoinedAnd(e, f) = Sym(s)
    BY <1>1, <1>7 DEF JoinedAnd, Are, Sym
  <2>2. QED
    BY <1>3, <1>4, <1>5, <1>7, <2>1 DEF Are, And, TriLiterals, ConstTri, Tristate, No, Mod, Yes
<1>8. CASE third
  <2>1. JoinedAnd(e, f) = <<"=", s, "y">>
    BY <1>1, <1>8 DEF JoinedAnd, Are, Sym
  <2>2. QED
    BY <1>3, <1>4, <1>5, <1>8, <2>1 DEF Are, And, TriLiterals, ConstTri, Tristate, No, Mod, Yes
<1>9. CASE rest /\ eqFirst
  <2>1. PICK b \in Literals, c \in Literals : e = <<"=", s, b>> /\ f = <<"!=", s, c>>
    BY <1>2, <1>9
  <2>2. JoinedAnd(e, f) = IF b # c THEN <<"=", s, b>> ELSE Sym("n")
    BY <1>1, <1>9, <2>1 DEF JoinedAnd
  <2>3. Number["any"][b] \notin Tristate /\ Number["any"][c] \notin Tristate
    BY <1>2, <2>1 DEF NoNumerals
  <2>4. /\ b # c => value[<<"=", s, b>>] = And(value[<<"=", s, b>>], value[<<"!=", s, c>>])
        /\ b = c => value[Sym("n")] = And(value[<<"=", s, b>>], value[<<"!=", s, c>>])
    BY <1>2, <2>3, ChosenRight
  <2>5. QED
    BY <1>5, <2>1, <2>2, <2>4
<1>10. CASE rest /\ eqSecond
  <2>1. PICK b \in Literals, c \in Literals : f = <<"=", s, b>> /\ e = <<"!=", s, c>>
    BY <1>2, <1>10
  <2>2. JoinedAnd(e, f) = IF b # c THEN <<"=", s, b>> ELSE Sym("n")
    BY <1>1, <1>10, <2>1 DEF JoinedAnd
  <2>3. Number["any"][b] \notin Tristate /\ Number["any"][c] \notin Tristate
    BY <1>2, <2>1 DEF NoNumerals
  <2>4. /\ b # c => value[<<"=", s, b>>] = And(value[<<"=", s, b>>], value[<<"!=", s, c>>])
        /\ b = c => value[Sym("n")] = And(value[<<"=", s, b>>], value[<<"!=", s, c>>])
    BY <1>2, <2>3, ChosenRight
  <2>5. And(value[e], value[f]) = And(value[f], value[e])
    BY ValueIsTristate DEF And, Tristate, No, Yes
  <2>6. QED
    BY <1>5, <2>1, <2>2, <2>4, <2>5
<1>11. CASE rest /\ unequal
  <2> DEFINE left == CHOOSE l \in TriLiterals : l \notin {e[3], f[3]}
  <2>1. PICK k \in TriLiterals, l \in TriLiterals :
            e = <<"!=", s, k>> /\ f = <<"!=", s, l>> /\ e[3] = k /\ f[3] = l
    BY <1>2, <1>11
  <2>2. JoinedAnd(e, f) = <<"=", s, left>>
    BY <1>1, <1>11 DEF JoinedAnd
  <2>3. left \in TriLiterals /\ left \notin {e[3], f[3]}
    BY <2>1 DEF TriLiterals
  <2> HIDE DEF left
  <2>4. k # l /\ left # k /\ left # l
    BY <2>1, <2>3
  <2>5. x = ConstTri(left) <=> x # ConstTri(k) /\ x # ConstTri(l)
    BY <1>3, <2>3, <2>4 DEF TriLiterals, ConstTri, Tristate, No, Mod, Yes
  <2>6. /\ <<"=", s, left>> \in E
        /\ value[<<"=", s, left>>] = IF x = ConstTri(left) THEN Yes ELSE No
        /\ value[<<"!=", s, k>>] = IF x = ConstTri(k) THEN No ELSE Yes
        /\ value[<<"!=", s, l>>] = IF x = ConstTri(l) THEN No ELSE Yes
    BY <1>4, <2>3
  <2> HIDE DEF s, x
  <2>7. QED
    BY <2>1, <2>2, <2>5, <2>6 DEF And, No, Yes
<1>12. first \/ second \/ third \/ (rest /\ (eqFirst \/ eqSecond \/ unequal))
  BY <1>1 DEF JoinedAnd
<1>13. QED
  BY <1>6, <1>7, <1>8, <1>9, <1>10, <1>11, <1>12

-----------------------------------------------------------------------------
(* The files of conf: what is generated.                                   *)

Generating == {"touch", "header", "tristate", "auto"}

\* A generated file that lists, of these lines, all or what the disk has left.
Sound(file, lines) ==
    ~file.late => file.lines \subseteq lines /\ (file.whole => file.lines = lines)

\* The part of the run: what it is about to generate is what .config says, and
\* so is what it has written and renamed so far.
ListedRight ==
    IsWhole(config) =>
        LET right == Lists(kconfig, config)
        IN  /\ phase = "touch" /\ ~listed.late => listed.lines = right
            /\ phase \in {"header", "tristate", "auto"} =>
                  /\ Sound(making.header, right) /\ Sound(making.auto, right)
                  /\ Sound(making.tristate, Tristates(right))
            /\ phase \in {"tristate", "auto"} => Sound(gen.header, right)
            /\ phase = "auto" => Sound(gen.tristate, Tristates(right))

\* The files are a record of their own, however far the renames have come.
GenShape == gen = [header |-> gen.header, tristate |-> gen.tristate, auto |-> gen.auto]

GenSound ==
    ~newer /\ IsWhole(config) =>
        LET right == Lists(kconfig, config)
        IN  /\ Sound(gen.header, right) /\ Sound(gen.auto, right)
            /\ Sound(gen.tristate, Tristates(right))

AutoConfInv == GenShape /\ ListedRight /\ GenSound

LEMMA AutoConfInit == OutputInit => AutoConfInv
BY DEF OutputInit, AutoConfInv, GenShape, ListedRight, GenSound, Generated, Products, Part, List,
       Sound

LEMMA AutoConfNext == AutoConfInv /\ [OutputNext]_ovars => AutoConfInv'
<1> SUFFICES ASSUME AutoConfInv, [OutputNext]_ovars PROVE AutoConfInv'
  OBVIOUS
<1> USE DEF AutoConfInv, GenShape, ListedRight, GenSound, IsWhole, Goes, settings, products, work
<1>1. CASE Asks \/ Finish
  BY <1>1 DEF Asks, Finish, files
<1>2. CASE PutTmp(tmp') \/ PutDefconfig(defconfig')
  BY <1>2 DEF PutTmp, PutDefconfig
<1>3. CASE Backup
  BY <1>3 DEF Backup
<1>4. CASE Rename
  BY <1>4 DEF Rename
<1>5. CASE /\ SplitConfig(listed')
           /\ IsWhole(config) /\ ~listed'.late => listed' = List(Lists(kconfig, config), FALSE)
  BY <1>5 DEF SplitConfig, List
<1>6. CASE \E s \in pending : TouchFile(s)
  BY <1>6 DEF TouchFile
<1>7. CASE WriteParts(making'.header.lines, making'.tristate.lines, making'.auto.lines)
  <2> DEFINE h == making'.header.lines
             t == making'.tristate.lines
             a == making'.auto.lines
  <2>1. /\ making' = Products(h, t, a, listed)
        /\ h \subseteq listed.lines /\ a \subseteq listed.lines
        /\ t \subseteq Tristates(listed.lines)
        /\ phase = "touch" /\ phase' = "header"
        /\ UNCHANGED <<kconfig, config, gen, newer>>
    BY <1>7 DEF WriteParts
  <2> HIDE DEF h, t, a
  <2>2. /\ Sound(making'.header, listed.lines) /\ Sound(making'.auto, listed.lines)
        /\ Sound(making'.tristate, Tristates(listed.lines))
        /\ making'.header.late = listed.late /\ making'.auto.late = listed.late
        /\ making'.tristate.late = listed.late
    BY <2>1 DEF Products, Part, Sound
  <2>3. QED
    BY <2>1, <2>2 DEF Sound
<1>8. CASE RenameHeader
  BY <1>8 DEF RenameHeader
<1>9. CASE RenameTristate
  BY <1>9 DEF RenameTristate
<1>10. CASE RenameAuto
  BY <1>10 DEF RenameAuto
<1>11. CASE Kill
  BY <1>11 DEF Kill
<1>12. CASE Compile
  BY <1>12 DEF Compile
<1>13. CASE UNCHANGED ovars
  BY <1>13 DEF ovars, files
<1>14. QED
  BY <1>1, <1>2, <1>3, <1>4, <1>5, <1>6, <1>7, <1>8, <1>9, <1>10, <1>11, <1>12, <1>13 DEF OutputNext

LEMMA GenSoundEach == GenShape /\ GenSound => AutoConfLast
<1> SUFFICES ASSUME GenShape, GenSound, ~newer, IsWhole(config), NEW f \in DOMAIN gen,
                    ~gen[f].late
             PROVE  LET right == Generated(Lists(kconfig, config))
                    IN  /\ gen[f].lines \subseteq right[f].lines
                        /\ gen[f].whole => gen[f].lines = right[f].lines
  BY DEF AutoConfLast
<1>1. f \in {"header", "tristate", "auto"}
  BY DEF GenShape
<1>2. QED
  BY <1>1 DEF GenSound, Sound, Generated, Products, Part

-----------------------------------------------------------------------------
(* The files of conf: what is compiled again.                              *)

\* Every symbol whose lines the run is about to change has been touched, or
\* is still to be, and a full disk only takes lines away.
TouchedFirst ==
    phase \in Generating =>
        /\ Changed(listed.lines, gen.auto.lines) \subseteq touched \cup pending
        /\ phase # "touch" => pending = {} /\ making.auto.lines \subseteq listed.lines

StaleInv == GenShape /\ TouchedFirst /\ NothingStale

LEMMA StaleInit == OutputInit => StaleInv
BY DEF OutputInit, StaleInv, GenShape, TouchedFirst, Generating, NothingStale, Changed,
       Generated, Products

\* A build compiles everything anew whose file has been touched.
LEMMA CompileDoes ==
    ASSUME NothingStale, Compile PROVE Changed(compiled', gen.auto.lines) \subseteq cutoff
<1>1. \A l \in (compiled \ gen.auto.lines) \cup (gen.auto.lines \ compiled) :
          l.sym \in touched \cup cutoff
  BY DEF NothingStale, Changed
<1>2. compiled' = {l \in compiled : l.sym \notin touched}
                      \cup {l \in gen.auto.lines : l.sym \in touched}
  BY DEF Compile
<1>3. QED
  BY <1>1, <1>2 DEF Changed

LEMMA StaleNext == StaleInv /\ [OutputNext]_ovars => StaleInv'
<1> SUFFICES ASSUME StaleInv, [OutputNext]_ovars PROVE StaleInv'
  OBVIOUS
<1> USE DEF StaleInv, GenShape, TouchedFirst, Generating, NothingStale, Goes, settings, products,
            work
<1>1. CASE Asks \/ Finish
  BY <1>1 DEF Asks, Finish, files
<1>2. CASE PutTmp(tmp') \/ PutDefconfig(defconfig')
  BY <1>2 DEF PutTmp, PutDefconfig
<1>3. CASE Backup
  BY <1>3 DEF Backup
<1>4. CASE Rename
  BY <1>4 DEF Rename
<1>5. CASE SplitConfig(listed')
  BY <1>5 DEF SplitConfig
<1>6. CASE \E s \in pending : TouchFile(s)
  BY <1>6 DEF TouchFile
<1>7. CASE WriteParts(making'.header.lines, making'.tristate.lines, making'.auto.lines)
  BY <1>7 DEF WriteParts
<1>8. CASE RenameHeader
  BY <1>8 DEF RenameHeader
<1>9. CASE RenameTristate
  BY <1>9 DEF RenameTristate
<1>10. CASE RenameAuto
  <2>1. /\ gen' = [gen EXCEPT !.auto = making.auto]
        /\ cutoff' = cutoff \cup {l.sym : l \in listed.lines \ making.auto.lines}
        /\ phase = "auto" /\ phase' = "end" /\ UNCHANGED <<touched, compiled>>
    BY <1>10 DEF RenameAuto
  <2>2. gen'.auto = making.auto
    BY <2>1
  <2>3. /\ Changed(listed.lines, gen.auto.lines) \subseteq touched
        /\ making.auto.lines \subseteq listed.lines
    BY <2>1
  <2>4. ASSUME NEW l \in (compiled \ making.auto.lines) \cup (making.auto.lines \ compiled)
        PROVE  l.sym \in touched \cup cutoff'
    <3>1. CASE l \in (compiled \ gen.auto.lines) \cup (gen.auto.lines \ compiled)
      BY <2>1, <3>1 DEF Changed
    <3>2. CASE l \in (listed.lines \ gen.auto.lines) \cup (gen.auto.lines \ listed.lines)
      BY <2>3, <3>2 DEF Changed
    <3>3. CASE l \in listed.lines \ making.auto.lines
      BY <2>1, <3>3
    <3>4. QED
      BY <2>3, <2>4, <3>1, <3>2, <3>3
  <2>5. Changed(compiled, making.auto.lines) \subseteq touched \cup cutoff'
    BY <2>4 DEF Changed
  <2>6. QED
    BY <2>1, <2>2, <2>5
<1>11. CASE Kill
  BY <1>11 DEF Kill
<1>12. CASE Compile
  BY <1>12, CompileDoes DEF Compile
<1>13. CASE UNCHANGED ovars
  BY <1>13 DEF ovars, files
<1>14. QED
  BY <1>1, <1>2, <1>3, <1>4, <1>5, <1>6, <1>7, <1>8, <1>9, <1>10, <1>11, <1>12, <1>13 DEF OutputNext

\* Whatever the symbols are, wherever the runs of conf are killed and wherever the
\* disk is full, auto.conf is newer than .config only if it, the header and the
\* tristates list what .config says, or the part of it that the disk has left (the
\* order of the renames in conf_write_autoconf; lists of a run with an answer too
\* late for .config excepted), and whatever was compiled with another value is
\* compiled again unless its line was cut off (conf_split_config touches before
\* auto.conf is replaced).
THEOREM OutputAutoConfSound == OutputSpec => []AutoConfSound
<1>1. OutputSpec => []AutoConfInv
  BY AutoConfInit, AutoConfNext, PTL DEF OutputSpec
<1>2. OutputSpec => []StaleInv
  BY StaleInit, StaleNext, PTL DEF OutputSpec
<1>3. AutoConfInv /\ StaleInv => AutoConfSound
  BY GenSoundEach DEF AutoConfInv, StaleInv, AutoConfSound
<1>4. QED
  BY <1>1, <1>2, <1>3, PTL

-----------------------------------------------------------------------------
(* The files of conf: the configuration.                                   *)

\* The disk is never full, or there is one fault.
Forgiving == MaxFaults \in Nat /\ (~MayFill \/ MaxFaults <= 1)

\* As long as nothing has been cut off, every file is whole.
Intact ==
    /\ \A file \in {config, old, tmp} : file # Absent => file.whole
    /\ had => IsWhole(config) \/ IsWhole(old)

\* What has been cut off, by the one fault that there is, takes the place of a
\* file that becomes .config.old, or of none.
CutOff ==
    /\ faults >= MaxFaults
    /\ ConfigSurvives
    /\ had /\ ~IsWhole(tmp) =>
          /\ phase = "backup" => IsWhole(config) \/ (config = Absent /\ IsWhole(old))
          /\ phase = "replace" => IsWhole(old)

SurvivalInv ==
    /\ faults \in Nat
    /\ tmp # Absent <=> phase \in {"backup", "replace"}
    /\ Intact \/ CutOff

LEMMA SurvivalInit == OutputInit => SurvivalInv
<1> SUFFICES ASSUME OutputInit PROVE SurvivalInv
  OBVIOUS
<1>1. /\ config # Absent => config.whole
      /\ old = Absent /\ tmp = Absent /\ phase = "idle" /\ faults = 0
      /\ had <=> config # Absent
  BY DEF OutputInit
<1>2. QED
  BY <1>1 DEF SurvivalInv, Intact, IsWhole

LEMMA SurvivalNext == Forgiving /\ SurvivalInv /\ [OutputNext]_ovars => SurvivalInv'
<1> SUFFICES ASSUME Forgiving, SurvivalInv, [OutputNext]_ovars PROVE SurvivalInv'
  OBVIOUS
<1> USE DEF Forgiving, SurvivalInv, Intact, CutOff, ConfigSurvives, IsWhole, Fault, Written,
            Goes, settings
<1>1. CASE Asks \/ Finish
  BY <1>1 DEF Asks, Finish, files
<1>2. CASE PutTmp(tmp')
  BY <1>2 DEF PutTmp
<1>3. CASE PutDefconfig(defconfig')
  BY <1>3 DEF PutDefconfig
<1>4. CASE Backup
  BY <1>4 DEF Backup
<1>5. CASE Rename
  BY <1>5 DEF Rename
<1>6. CASE SplitConfig(listed') \/ \E s \in pending : TouchFile(s)
  BY <1>6 DEF SplitConfig, TouchFile
<1>7. CASE RenameHeader \/ RenameTristate \/ RenameAuto
  <2>1. /\ phase \notin {"backup", "replace"} /\ phase' \notin {"backup", "replace"}
        /\ UNCHANGED <<config, old, tmp, had, faults>>
    BY <1>7 DEF RenameHeader, RenameTristate, RenameAuto
  <2>2. QED
    BY <2>1
<1>8. CASE Kill
  BY <1>8 DEF Kill
<1>9. CASE Compile
  BY <1>9 DEF Compile
<1>10. CASE UNCHANGED ovars
  BY <1>10 DEF ovars, files
<1>11. CASE WriteParts(making'.header.lines, making'.tristate.lines, making'.auto.lines)
  <2>1. /\ phase = "touch" /\ phase' = "header"
        /\ UNCHANGED <<config, old, tmp, had>>
        /\ UNCHANGED faults \/ Fault
    BY <1>11 DEF WriteParts
  <2>2. QED
    BY <2>1
<1>12. QED
  BY <1>1, <1>2, <1>3, <1>4, <1>5, <1>6, <1>7, <1>8, <1>9, <1>10, <1>11 DEF OutputNext

\* However often conf is killed, if the disk is never full, or after one kill or
\* one full disk, a whole configuration is left in .config or .config.old, or
\* in the file that conf_write is about to rename.
THEOREM OutputConfigSurvives == ASSUME Forgiving PROVE OutputSpec => []ConfigSurvives
<1>1. SurvivalInv => ConfigSurvives
  BY DEF SurvivalInv, Intact, CutOff, ConfigSurvives, IsWhole
<1>2. QED
  BY <1>1, SurvivalInit, SurvivalNext, PTL DEF OutputSpec

=============================================================================

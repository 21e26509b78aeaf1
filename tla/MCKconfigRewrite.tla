--------------------------- MODULE MCKconfigRewrite ---------------------------
(***************************************************************************)
(* Instances of KconfigRewrite: a boolean, a tristate, an int and a hex    *)
(* symbol; every leaf and negated leaf, every pair of them under && and    *)
(* ||, and triples and quadruples of fewer leaves.  Numbers have 8 bits,   *)
(* so that 200 is out of the signed range.                                 *)
(***************************************************************************)
EXTENDS KconfigRewrite, TLC

MCSymType == [A |-> "boolean", T |-> "tristate", N |-> "int", H |-> "hex",
              MODULES |-> "boolean"]
MCLiterals == {"y", "m", "n", "-1", "8", "010", "0x9", "200"}
MCNaN == -1000
MCHalfWord == 128

MCNumber ==
    LET none == [l \in MCLiterals |-> MCNaN]
    IN  [decimal |-> ("-1" :> -1) @@ ("8" :> 8) @@ ("010" :> 10) @@ ("200" :> 200) @@ none,
         hex |-> ("-1" :> -1) @@ ("8" :> 8) @@ ("010" :> 16) @@ ("0x9" :> 9)
                 @@ ("200" :> 512) @@ none,
         any |-> ("-1" :> -1) @@ ("8" :> 8) @@ ("010" :> 8) @@ ("0x9" :> 9)
                 @@ ("200" :> 200) @@ none]
MCRank == ("-1" :> 1) @@ ("010" :> 2) @@ ("0x9" :> 3) @@ ("200" :> 4)
          @@ ("8" :> 5) @@ ("m" :> 6) @@ ("n" :> 7) @@ ("y" :> 8)

MCNumberPairs == {<<"-1", "0x9">>, <<"200", "8">>}
MCValuations == {[A |-> a, T |-> t, N |-> p[1], H |-> p[2], MODULES |-> 2] :
                     a \in {0, 2}, t \in 0 .. 2, p \in MCNumberPairs}

Consts == {Sym(l) : l \in TriLiterals}
TriComps(s) == {<<op, s, l>> : op \in {"=", "!="}, l \in TriLiterals}
NumComps == {<<"<", "N", "010">>, <<">=", "N", "8">>, <<"<=", "H", "N">>,
             <<">", "N", "H">>, <<"=", "H", "N">>}
Negate(S) == {<<"not", e>> : e \in S}
Join(S, U) == {<<op, e, f>> : op \in {"and", "or"}, e \in S, f \in U}

Leaves == Consts \cup {Sym("A"), Sym("T")} \cup TriComps("A") \cup TriComps("T")
             \cup NumComps \cup {<<"=", "T", "A">>}
Few == {Sym("A"), Sym("T"), <<"=", "T", "m">>, <<"!=", "T", "m">>,
        <<"not", Sym("T")>>}
Fewer == {Sym("A"), <<"not", Sym("A")>>, Sym("T"), <<"=", "T", "y">>}
Least == {<<"not", Sym("A")>>, <<"=", "T", "y">>}
Triples == Join(Join(Few, Few), Few) \cup Join(Few, Join(Few, Few))

MCExprs == LET single == Leaves \cup Negate(Leaves)
           IN  single \cup Join(single, Leaves)
                 \cup Negate(Negate(Leaves)) \cup Triples
                 \cup Negate(Join(Join(Fewer, Few), Fewer))
                 \cup Join(Join(Fewer, Fewer), Join(Least, Fewer))
MCParents == {<<"or", Sym("A"), <<"!=", "T", "y">>>>}

=============================================================================

------------------------------- MODULE MCKconfig -------------------------------
(***************************************************************************)
(* Small Kconfig files with the things that make values depend on each     *)
(* other: modules, selects and implies; a choice whose members come and    *)
(* go; numbers with moving ranges; menus, ifs and submenus within each     *)
(* other.                                                                  *)
(***************************************************************************)
EXTENDS KconfigFiles, TLC

\* The constants are written with a LET: the statistics of TLC copy a
\* definition that is a plain expression to every place that uses it.
MCSymType ==
    LET types == [A |-> "boolean", B |-> "boolean", C |-> "boolean",
                  T |-> "tristate", U |-> "tristate", MODULES |-> "boolean",
                  CH |-> "boolean", CT |-> "tristate", M1 |-> "boolean", M2 |-> "boolean",
                  N |-> "int", H |-> "hex", S |-> "string"]
    IN  types

MCAllSymbols == <<"H", "M2", "A", "U", "S", "C", "CH", "CT", "T", "N", "MODULES", "B", "M1">>

MCLiterals ==
    LET numbers == {"2", "7", "12", "0x2", "0x4", "0x7", "0x9", "0xc", "0x12"}
    IN  numbers \cup {"y", "m", "n", "", "c"}
MCRank ==
    LET order == <<"", "0x12", "0x2", "0x4", "0x7", "0x9", "0xc", "12", "2", "7", "c", "m",
                   "n", "y">>
    IN  [l \in MCLiterals |-> CHOOSE i \in DOMAIN order : order[i] = l]
MCNaN == -1000
MCNumber ==
    LET none == [l \in MCLiterals |-> MCNaN]
        decimal == ("2" :> 2) @@ ("7" :> 7) @@ ("12" :> 12) @@ none
        prefixed == ("0x2" :> 2) @@ ("0x4" :> 4) @@ ("0x7" :> 7) @@ ("0x9" :> 9)
                    @@ ("0xc" :> 12) @@ ("0x12" :> 18)
    IN  [decimal |-> decimal,
         hex |-> prefixed @@ ("2" :> 2) @@ ("7" :> 7) @@ ("12" :> 18) @@ ("c" :> 12) @@ none,
         any |-> prefixed @@ decimal]
MCText ==
    LET decimal == (2 :> "2") @@ (7 :> "7") @@ (12 :> "12")
        prefixed == (2 :> "0x2") @@ (4 :> "0x4") @@ (7 :> "0x7") @@ (9 :> "0x9")
                    @@ (12 :> "0xc") @@ (18 :> "0x12")
    IN  [int |-> decimal, hex |-> prefixed]
MCPlain ==
    LET prefixed == {"0x2", "0x4", "0x7", "0x9", "0xc", "0x12"}
    IN  [int |-> [l \in {"2", "7", "12"} |-> l],
         hex |-> [l \in prefixed |-> l] @@ ("2" :> "0x2") @@ ("7" :> "0x7")
                 @@ ("c" :> "0xc") @@ ("12" :> "0x12")]
MCChars ==
    LET special == ("" :> <<>>) @@ ("c" :> <<"quote", "c", "backslash">>)
    IN  special @@ [l \in MCLiterals |-> <<l>>]

-----------------------------------------------------------------------------

Entry(s, prompt, dep, props) ==
    [sym |-> s, choice |-> FALSE, optional |-> FALSE, prompt |-> prompt, opens |-> FALSE,
     dep |-> dep, visible |-> Null, props |-> props, list |-> <<>>]
Shown0 == <<Null>>
Config(s, dep, props) == Entry(s, Shown0, dep, props)
Hidden(s, props) == Entry(s, <<>>, Null, props)
Menu(dep, visible, list) ==
    [Entry(None, Shown0, dep, <<>>) EXCEPT !.opens = TRUE, !.visible = visible, !.list = list]
IfBlock(dep, list) == [Entry(None, <<>>, dep, <<>>) EXCEPT !.list = list]
ChoiceBlock(c, props, list) ==
    [Entry(c, Shown0, Null, props) EXCEPT !.choice = TRUE, !.list = list]
Prop(type, arg, cond) == [type |-> type, arg |-> arg, cond |-> cond]

A == Sym("A")
B == Sym("B")

Modular ==
    <<Config("MODULES", Null, <<>>),
      Config("T", Null, <<Prop("select", "U", A)>>),
      Config("U", <<"or", Sym("T"), A>>, <<Prop("default", Sym("m"), Null)>>),
      Config("A", Null, <<Prop("imply", "B", Sym("T"))>>),
      Config("B", <<"!=", "U", "n">>, <<>>)>>

Choosing ==
    <<Config("A", Null, <<>>),
      ChoiceBlock("CH", <<Prop("default", Sym("M2"), Null)>>,
                  <<Config("M1", Null, <<Prop("select", "B", Null)>>),
                    Config("C", Sym("M1"), <<>>),
                    Config("M2", A, <<>>)>>),
      Hidden("B", <<Prop("default", Sym("M2"), A)>>)>>

ChoosingModules ==
    <<Config("MODULES", Null, <<>>),
      Config("A", Null, <<>>),
      ChoiceBlock("CT", <<>>, <<Config("T", Null, <<Prop("select", "A", Null)>>),
                                Config("U", Null, <<>>)>>)>>

Numbers ==
    <<Config("A", Null, <<>>),
      Config("N", Null, <<Prop("range", <<"2", "7">>, A), Prop("range", <<"7", "12">>, Null),
                          Prop("default", Sym("7"), Null)>>),
      Config("H", <<">", "N", "2">>, <<Prop("range", <<"0x4", "N">>, A),
                                      Prop("default", Sym("0x9"), Null)>>),
      Config("S", <<"=", "H", "0x9">>, <<Prop("default", Sym("c"), A)>>)>>

Nested ==
    <<Config("A", Null, <<>>),
      Config("B", A, <<>>),
      IfBlock(<<"or", A, <<"not", B>>>>,
              <<Menu(Null, <<"not", B>>, <<Config("C", Null, <<>>),
                                        Config("T", <<"or", Sym("m"), A>>, <<>>)>>)>>),
      [Config("U", Null, <<>>) EXCEPT !.opens = TRUE],
      Config("M1", <<"and", Sym("U"), A>>, <<>>)>>

Of(s, t) == [sym |-> s, text |-> t]

=============================================================================

------------------------------ MODULE KconfigDeps ------------------------------
(***************************************************************************)
(* The search for recursive dependencies at the end of conf_parse          *)
(* (sym_check_deps and its helpers, buildroot/support/kconfig/symbol.c).   *)
(*                                                                         *)
(* x holds what the search keeps: checked and checking, the symbols with   *)
(* SYMBOL_CHECKED and SYMBOL_CHECK; reported, the symbols a recursion has  *)
(* been printed for; found, what the last call returned.                   *)
(***************************************************************************)
EXTENDS KconfigSymbol

\* The symbols of an expression, from left to right.
RECURSIVE SymbolsOf(_)
SymbolsOf(e) ==
    CASE e = Null -> <<>>
      [] e[1] = "sym" -> <<e[2]>>
      [] e[1] = "not" -> SymbolsOf(e[2])
      [] e[1] \in {"and", "or"} -> SymbolsOf(e[2]) \o SymbolsOf(e[3])
      [] IsComp(e) -> <<e[2], e[3]>>

\* What sym_check_sym_deps looks into: the selects of a symbol, the
\* conditions of its prompts, defaults, ranges and implies, and its defaults.
DependsOn(d, s) ==
    LET conds(props) == FlattenSeq([i \in DOMAIN props |-> SymbolsOf(props[i].cond)])
        default(p) == SymbolsOf(p.cond) \o (IF IsChoice(d, s) THEN <<>> ELSE SymbolsOf(p.arg))
    IN  SymbolsOf(d.rev[s])
          \o FlattenSeq([i \in DOMAIN d.prompts[s] |-> SymbolsOf(d.prompts[s][i])])
          \o FlattenSeq([i \in DOMAIN d.defaults[s] |-> default(d.defaults[s][i])])
          \o conds(d.ranges[s]) \o conds(d.implies[s])

RECURSIVE CheckDeps(_, _, _)

\* Stops at the first recursion.
CheckEach(d, syms, x) ==
    FoldLeft(LAMBDA y, s : IF y.found # None THEN y ELSE CheckDeps(d, s, y),
             [x EXCEPT !.found = None], syms)

\* A choice and its members are checked as one.
CheckChoice(d, c, x) ==
    LET members == d.values[c]
        group == ToSet(members)
        own == CheckEach(d, DependsOn(d, c),
                         [x EXCEPT !.checked = @ \cup group \cup {c},
                                   !.checking = @ \cup group \cup {c}])
        begun == [own EXCEPT !.checking = @ \ {c}]
        check(y, s) == IF y.found # None THEN y ELSE CheckEach(d, DependsOn(d, s), y)
        all == FoldLeft(check, begun, members)
    IN  [all EXCEPT !.checking = @ \ group,
                    !.found = IF @ \in group THEN c ELSE @]

\* sym_check_deps: a recursion that starts and ends here is no longer
\* anybody's, once it has been printed.
CheckDeps(d, s, x) ==
    LET c == ChoiceOf(d, s)
        alone == CheckEach(d, DependsOn(d, s), [x EXCEPT !.checked = @ \cup {s},
                                                         !.checking = @ \cup {s}])
        done == IF c # None THEN CheckDeps(d, c, x)
                ELSE IF IsChoice(d, s) THEN CheckChoice(d, s, x)
                ELSE [alone EXCEPT !.checking = @ \ {s}]
    IN  IF s \in Literals THEN [x EXCEPT !.found = None]
        ELSE IF s \in x.checking THEN [x EXCEPT !.reported = @ \cup {s}, !.found = s]
        ELSE IF s \in x.checked THEN [x EXCEPT !.found = None]
        ELSE [done EXCEPT !.found = IF @ = s THEN None ELSE @]

\* The end of conf_parse: errors are counted where something is returned.
Checked(d) ==
    LET check(y, s) == LET z == CheckDeps(d, s, y.x)
                       IN  [x |-> z, errors |-> y.errors + (IF z.found # None THEN 1 ELSE 0)]
        start == [checked |-> {}, checking |-> {}, reported |-> {}, found |-> None]
        all == OverSymbols(d, check, [x |-> start, errors |-> 0])
    IN  [reported |-> all.x.reported, errors |-> all.errors]

\* conf_parse: the declarations, and what the search has found in them.
ConfParse(list) == LET p == Finalize(list) IN [decls |-> p, check |-> Checked(p)]

=============================================================================

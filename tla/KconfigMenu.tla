------------------------------ MODULE KconfigMenu ------------------------------
(***************************************************************************)
(* The menu tree of the configuration tool and what menu_finalize makes of *)
(* it (buildroot/support/kconfig/menu.c): the conditions of menus and ifs  *)
(* go down into the entries, selects and implies become reverse            *)
(* dependencies of their targets, entries that depend on the symbol before *)
(* them move into a submenu, and the entries of a choice become its values.*)
(*                                                                         *)
(* A menu entry is a record:                                               *)
(*   sym      its symbol, or None                                          *)
(*   choice   the entry starts a choice; optional is the option of one     *)
(*   prompt   <<>>, or <<condition>> for an entry with a prompt            *)
(*   opens    its prompt opens a screen of its own (P_MENU)                *)
(*   dep      what "depends on" and "if" gave                              *)
(*   visible  what "visible if" gave                                       *)
(*   props    its properties: [type, arg, cond], type one of "default",    *)
(*            "select", "imply" and "range"                                *)
(*   list     the entries below it                                         *)
(***************************************************************************)
EXTENDS KconfigExpr

CONSTANTS
    None,         \* no symbol
    AllSymbols    \* for_all_symbols: the order of the hash table

Declared == DOMAIN SymType

\* Rewrites m to m && MODULES.
RECURSIVE RewriteM(_)
RewriteM(e) ==
    CASE e[1] = "not" -> <<"not", RewriteM(e[2])>>
      [] e[1] \in {"and", "or"} -> <<e[1], RewriteM(e[2]), RewriteM(e[3])>>
      [] e = Sym("m") -> <<"and", e, Sym(ModulesSym)>>
      [] OTHER -> e

\* The conditions of menus that are only visible if something holds are
\* added to the prompts of the symbols below as those are read, the nearest
\* first.
RECURSIVE AddVisibility(_, _)
AddVisibility(list, above) ==
    LET add(e, v) == AllocAnd(e, v)
        below(n) == IF n.visible = Null THEN above ELSE <<n.visible>> \o above
    IN  [i \in DOMAIN list |->
            [list[i] EXCEPT
                !.prompt = IF @ # <<>> /\ list[i].sym # None
                           THEN <<FoldLeft(add, @[1], above)>> ELSE @,
                !.list = AddVisibility(@, below(list[i]))]]

-----------------------------------------------------------------------------
(* menu_finalize.  relations collects what entries add to other symbols:   *)
(* the reverse dependencies, the implied ones, the direct ones, and the    *)
(* values of the choices.                                                  *)

NoRelations ==
    [rev |-> [s \in Declared |-> Null], imp |-> [s \in Declared |-> Null],
     dir |-> [s \in Declared |-> Null], values |-> [s \in Declared |-> <<>>]]

\* What the entries below an entry inherit from it.
ParentDep(n) ==
    IF n.choice THEN Sym(n.sym) ELSE IF n.prompt # <<>> THEN n.prompt[1] ELSE n.dep

Simplified(above, e) == EliminateDups(AllocAnd(above, Transform(RewriteM(e))))

\* Mutant: prompts do not inherit the condition.
PropagateDep(n, parentdep) ==
    [n EXCEPT !.dep = Simplified(parentdep, @),
              !.prompt = [i \in DOMAIN @ |-> RewriteM(@[i])]]

\* An entry with its parent's condition in its own and in its properties'.
Propagate(n, parentdep) ==
    LET base == Simplified(parentdep, n.dep)
        cond(e) == IF n.sym # None /\ TypeOf(n.sym) # "tristate"
                   THEN TransBool(Simplified(base, e)) ELSE Simplified(base, e)
    IN  [n EXCEPT !.dep = base,
                  !.prompt = [i \in DOMAIN @ |-> cond(@[i])],
                  !.props = [i \in DOMAIN @ |-> [@[i] EXCEPT !.cond = cond(@)]]]

\* The reverse dependencies that an entry's selects and implies add.
AddReverse(relations, n) ==
    LET term(p) == AllocAnd(Sym(n.sym), p.cond)
        add(r, p) ==
            CASE p.type = "select" -> [r EXCEPT !.rev[p.arg] = AllocOr(@, term(p))]
              [] p.type = "imply" -> [r EXCEPT !.imp[p.arg] = AllocOr(@, term(p))]
              [] OTHER -> r
    IN  FoldLeft(add, relations, n.props)

\* The condition under which an entry is seen at all, spelt out as "!= n".
Appears(e) == EliminateDups(Transform(TransCompare(e, "!=", "n")))

\* An entry belongs in the submenu of the symbol before it if it depends on
\* it, or contains it and implies that symbol's own condition.
InSubmenu(s, base, n) ==
    LET dep == IF n.prompt # <<>> THEN n.prompt[1] ELSE n.dep
    IN  /\ ContainsSymbol(dep, s)
        /\ \/ DependsSymbol(dep, s)
           \/ IsYes(EliminateEq(Appears(dep), base)[2])

\* Entries without a prompt do not keep a submenu: it follows them instead.
RECURSIVE Flattened(_)
Flattened(list) ==
    IF list = <<>> THEN <<>>
    ELSE LET n == Head(list)
         IN  IF n.list # <<>> /\ n.prompt = <<>>
             THEN <<[n EXCEPT !.list = <<>>]>> \o Flattened(n.list \o Tail(list))
             ELSE <<n>> \o Flattened(Tail(list))

\* SYMBOL_CHOICEVAL.
IsValue(relations, s) == \E c \in Declared : s \in ToSet(relations.values[c])

\* Values of a tristate choice that are no tristates themselves need the choice
\* to be y.
ChoiceEntry(c, n) ==
    LET atY(e) == AllocAnd(<<"=", c, "y">>, e)
    IN  IF TypeOf(c) = "tristate" /\ TypeOf(n.sym) # "tristate"
        THEN [n EXCEPT !.dep = atY(@),
                       !.prompt = [i \in DOMAIN @ |-> atY(@[i])],
                       !.props = [i \in DOMAIN @ |-> [@[i] EXCEPT !.cond = atY(@)]]]
        ELSE n

\* The next entry of a choice becomes a value of it, unless its symbol is one
\* already, of this choice or of another.
AddValue(c, x, n) ==
    IF n.sym = None \/ IsValue(x.relations, n.sym) THEN [x EXCEPT !.list = Append(@, n)]
    ELSE [list |-> Append(x.list, ChoiceEntry(c, n)),
          relations |-> [x.relations EXCEPT !.values[c] = Append(@, n.sym)]]

\* A choice that is not optional cannot be n while it is visible.
AddChoiceMode(relations, n) ==
    IF n.choice /\ ~n.optional /\ n.prompt # <<>>
    THEN [relations EXCEPT !.rev[n.sym] = AllocOr(@, AllocAnd(n.prompt[1], Sym("m")))]
    ELSE relations

RECURSIVE FinalizeNode(_, _, _)

\* Finalizes the entries of a list one after the other; one may take
\* entries that follow it into its submenu.
RECURSIVE FinalizeList(_, _)
FinalizeList(list, relations) ==
    IF list = <<>> THEN [list |-> <<>>, relations |-> relations]
    ELSE LET first == FinalizeNode(Head(list), Tail(list), relations)
             others == FinalizeList(first.rest, first.relations)
         IN  [list |-> <<first.node>> \o others.list, relations |-> others.relations]

\* Moves the entries after a symbol into its submenu, as long as they belong.
RECURSIVE TakeSubmenu(_, _, _)
TakeSubmenu(s, base, result) ==
    IF result.rest = <<>> \/ ~InSubmenu(s, base, Head(result.rest)) THEN result
    ELSE LET next == FinalizeNode(Head(result.rest), Tail(result.rest), result.relations)
         IN  TakeSubmenu(s, base, [list |-> Append(result.list, next.node),
                                   rest |-> next.rest, relations |-> next.relations])

\* menu_finalize of an entry that is followed by the entries of rest.
FinalizeNode(parent, rest, relations) ==
    LET inherited == [i \in DOMAIN parent.list |->
                         Propagate(parent.list[i], ParentDep(parent))]
        below == FinalizeList(inherited, FoldLeft(AddReverse, relations, inherited))
        base == Appears(IF parent.prompt = <<>> THEN Null ELSE parent.prompt[1])
        after == TakeSubmenu(parent.sym, base,
                             [list |-> <<>>, rest |-> rest, relations |-> relations])
        direct == [after.relations EXCEPT !.dir[parent.sym] = AllocOr(@, parent.dep)]
        step == CASE parent.list # <<>> ->
                       [list |-> below.list, rest |-> rest, relations |-> below.relations]
                  [] parent.list = <<>> /\ parent.sym # None ->
                       [after EXCEPT !.relations = direct]
                  [] OTHER -> [list |-> <<>>, rest |-> rest, relations |-> relations]
        flat == Flattened(step.list)
        chosen == IF parent.choice
                  THEN FoldLeft(LAMBDA x, n : AddValue(parent.sym, x, n),
                                [list |-> <<>>, relations |-> step.relations], flat)
                  ELSE [list |-> flat, relations |-> step.relations]
    IN  [node |-> [parent EXCEPT !.list = chosen.list], rest |-> step.rest,
         relations |-> AddChoiceMode(chosen.relations, parent)]

-----------------------------------------------------------------------------
(* What the rest of the program uses of a finalized tree. *)

\* All entries of a list, each before the ones below it.
RECURSIVE Entries(_)
Entries(list) ==
    IF list = <<>> THEN <<>>
    ELSE <<Head(list)>> \o Entries(Head(list).list) \o Entries(Tail(list))

RootMenu(list) ==
    [sym |-> None, choice |-> FALSE, optional |-> FALSE, prompt |-> <<Null>>,
     opens |-> TRUE, dep |-> Null, visible |-> Null, props |-> <<>>, list |-> list]

\* The entries around an entry, the nearest first.
RECURSIVE Around(_, _)
Around(n, m) ==
    IF n \in ToSet(m.list) THEN <<m>>
    ELSE LET below == SelectSeq(m.list, LAMBDA k : Around(n, k) # <<>>)
         IN  IF below = <<>> THEN <<>> ELSE Append(Around(n, below[1]), m)

\* menu_get_parent_menu: the nearest one with a screen of its own, be it n itself.
ParentMenu(n, root) ==
    IF n.opens THEN n ELSE SelectSeq(Around(n, root), LAMBDA m : m.opens)[1]

\* The declarations that conf_parse leaves of the entries of the main menu.
Finalize(list) ==
    LET final == FinalizeNode(RootMenu(AddVisibility(list, <<>>)), <<>>, NoRelations)
        entries == Entries(final.node.list)
        own(s) == SelectSeq(entries, LAMBDA n : n.sym = s)
        prompts(s) == FlattenSeq([i \in DOMAIN own(s) |-> own(s)[i].prompt])
        props(s) == FlattenSeq([i \in DOMAIN own(s) |-> own(s)[i].props])
        ofType(s, t) == SelectSeq(props(s), LAMBDA p : p.type = t)
        deps(s) == [i \in DOMAIN own(s) |-> own(s)[i].dep]
        declared == {ModulesSym} \cup {n.sym : n \in ToSet(entries)}
    IN  [menu |-> final.node,
         entries |-> entries,
         symbols |-> SelectSeq(AllSymbols, LAMBDA s : s \in declared),
         prompts |-> [s \in Declared |-> prompts(s)],
         defaults |-> [s \in Declared |-> ofType(s, "default")],
         ranges |-> [s \in Declared |-> ofType(s, "range")],
         implies |-> [s \in Declared |-> ofType(s, "imply")],
         deps |-> [s \in Declared |-> deps(s)],
         rev |-> final.relations.rev,
         imp |-> final.relations.imp,
         dir |-> final.relations.dir,
         values |-> final.relations.values,
         choices |-> {n.sym : n \in {m \in ToSet(entries) : m.choice}},
         optional |-> {n.sym : n \in {m \in ToSet(entries) : m.choice /\ m.optional}}]

=============================================================================

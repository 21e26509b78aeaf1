----------------------------- MODULE KconfigSymbol -----------------------------
(***************************************************************************)
(* How the configuration tool gives its symbols values                     *)
(* (buildroot/support/kconfig/symbol.c): values are computed when somebody *)
(* looks, remembered until sym_clear_all_valid, and computed from the      *)
(* values of other symbols, whose computation they start.                  *)
(*                                                                         *)
(* d is what conf_parse leaves (KconfigMenu!Finalize).  st is what the     *)
(* fields of struct symbol hold:                                           *)
(*   valid, write, user, needset   the symbols with SYMBOL_VALID,          *)
(*       SYMBOL_WRITE, SYMBOL_DEF_USER, SYMBOL_NEED_SET_CHOICE_VALUES      *)
(*   tri, val    curr.tri and curr.val; the val of a choice is a member    *)
(*   utri, uval  def[S_DEF_USER]                                           *)
(*   vis, dir, rev, imp   visible and the values of the dependencies       *)
(*   mods        modules_val                                               *)
(*   changed     the change counter is not zero                            *)
(* Most operators return the st they leave.                                *)
(***************************************************************************)
EXTENDS KconfigMenu

CONSTANTS
    Calc(_, _, _),  \* sym_calc_value as its callers see it: an instance gives it
            \* CalcSymbol, which ends its own recursion
    Auto,   \* the symbols with SYMBOL_AUTO, which are never saved
    Text,   \* how a number is printed: [type -> [number -> literal]]
    Plain   \* the strings a number may be given as, by type, and for hex what
            \* they become with the prefix 0x

Empty == ""

ASSUME KconfigSymbolAssumption ==
    /\ ToSet(AllSymbols) = Declared /\ IsInjective(AllSymbols)
    /\ Auto \subseteq Declared
    /\ Empty \in Literals
    /\ \A n \in DOMAIN Text["int"] : Number["decimal"][Text["int"][n]] = n
    /\ \A n \in DOMAIN Text["hex"] : Number["hex"][Text["hex"][n]] = n

-----------------------------------------------------------------------------
(* Symbols and their values. *)

InitSymbols ==
    [valid |-> {}, write |-> {}, user |-> {}, needset |-> {},
     tri |-> [s \in Declared |-> No], val |-> [s \in Declared |-> Empty],
     utri |-> [s \in Declared |-> No], uval |-> [s \in Declared |-> None],
     vis |-> [s \in Declared |-> No], dir |-> [s \in Declared |-> No],
     rev |-> [s \in Declared |-> No], imp |-> [s \in Declared |-> No],
     mods |-> No, changed |-> FALSE]

IsChoice(d, s) == s \in d.choices
ChoiceOf(d, s) ==
    IF \E c \in d.choices : s \in ToSet(d.values[c])
    THEN CHOOSE c \in d.choices : s \in ToSet(d.values[c]) ELSE None
IsChoiceValue(d, s) == ChoiceOf(d, s) # None

TriValue(s, st) == IF s \in Literals THEN ConstTri(s) ELSE st.tri[s]
CurrVal(s, st) == IF s \in Literals THEN s ELSE st.val[s]
Value(s, st) == IF IsTri(s) THEN st.tri[s] ELSE st.val[s]

\* A walk over all symbols from x on.
OverSymbols(d, step(_, _), x) == FoldLeft(step, x, d.symbols)

\* sym_get_type: a tristate is a boolean while modules are off, and as a
\* visible member of a choice that is y.
GetType(d, s, st) ==
    IF /\ TypeOf(s) = "tristate"
       /\ (IsChoiceValue(d, s) /\ st.vis[s] = Yes) \/ st.mods = No
    THEN "boolean" ELSE TypeOf(s)

ActsBool(d, s, st) == GetType(d, s, st) = "boolean"

NumBase(type, otherwise) ==
    CASE type = "int" -> "decimal" [] type = "hex" -> "hex" [] OTHER -> otherwise

\* strtoll, which stops where the number does.
ReadNumber(base, l) == IF Number[base][l] = NaN THEN 0 ELSE Number[base][l]

-----------------------------------------------------------------------------
(* sym_calc_value and what it calls. *)

\* The symbols of an expression are calculated from left to right; comparing
\* an m calculates MODULES as well.
RECURSIVE CalcIn(_, _, _)
CalcIn(d, e, st) ==
    LET both(x) == Calc(d, e[3], Calc(d, e[2], x))
        printed(s, x) == IF IsTri(s) /\ TriValue(s, x) = Mod
                         THEN Calc(d, ModulesSym, x) ELSE x
    IN  CASE e = Null -> st
          [] e[1] = "sym" -> Calc(d, e[2], st)
          [] e[1] = "not" -> CalcIn(d, e[2], st)
          [] e[1] \in {"and", "or"} -> CalcIn(d, e[3], CalcIn(d, e[2], st))
          [] IsComp(e) -> printed(e[3], printed(e[2], both(st)))

\* The value of an expression whose symbols are calculated.
ValueIn(e, st) == CalcValue(e, [s \in Declared |-> Value(s, st)])

\* The first of some properties whose condition is not n, or None.
RECURSIVE FirstProp(_, _, _)
FirstPropIf(d, props, cond, st) ==
    IF cond # No THEN [st |-> st, prop |-> Head(props), tri |-> cond]
    ELSE FirstProp(d, Tail(props), st)
FirstPropIn(d, props, st) == FirstPropIf(d, props, ValueIn(Head(props).cond, st), st)
FirstProp(d, props, st) ==
    IF props = <<>> THEN [st |-> st, prop |-> None, tri |-> No]
    ELSE FirstPropIn(d, props, CalcIn(d, Head(props).cond, st))

DefaultProp(d, s, st) == FirstProp(d, d.defaults[s], st)
RangeProp(d, s, st) == FirstProp(d, d.ranges[s], st)

\* A dependency's value: m is y for what behaves as a boolean.
AsType(d, s, t, st) == IF t = Mod /\ ActsBool(d, s, st) THEN Yes ELSE t
DepValue(d, s, e, st) == AsType(d, s, ValueIn(e, st), st)

\* A prompt's condition; a tristate member that is only m is hidden while the
\* choice is y.
PromptValue(d, s, t, st) ==
    IF /\ IsChoiceValue(d, s)
       /\ TypeOf(s) = "tristate"
       /\ t = Mod
       /\ st.tri[ChoiceOf(d, s)] = Yes
    THEN No ELSE t

SetVisible(s, t, st) ==
    [st EXCEPT !.vis[s] = IF t = Mod /\ (TypeOf(s) # "tristate" \/ st.mods = No)
                          THEN Yes ELSE t]

PromptsSeen(d, s, st) ==
    SetVisible(s, FoldLeft(LAMBDA t, e : Or(t, PromptValue(d, s, ValueIn(e, st), st)),
                           No, d.prompts[s]),
               st)

CalcPrompts(d, s, st) ==
    PromptsSeen(d, s, FoldLeft(LAMBDA x, e : CalcIn(d, e, x), st, d.prompts[s]))

CalcDir(d, s, st) ==
    LET a == CalcIn(d, d.dir[s], st)
    IN  [a EXCEPT !.dir[s] = DepValue(d, s, d.dir[s], a)]

CalcRev(d, s, st) ==
    LET a == CalcIn(d, d.rev[s], st)
    IN  [a EXCEPT !.rev[s] = IF d.rev[s] = Null THEN No ELSE DepValue(d, s, d.rev[s], a)]

CalcImp(d, s, st) ==
    LET a == CalcIn(d, d.imp[s], st)
    IN  IF d.imp[s] = Null \/ st.dir[s] = No THEN [st EXCEPT !.imp[s] = No]
        ELSE [a EXCEPT !.imp[s] = DepValue(d, s, d.imp[s], a)]

\* sym_calc_visibility.
CalcVisibility(d, s, st) ==
    IF IsChoiceValue(d, s) THEN CalcPrompts(d, s, st)
    ELSE CalcImp(d, s, CalcRev(d, s, CalcDir(d, s, CalcPrompts(d, s, st))))

\* sym_choice_default: the first default that is visible, or else the first
\* member that is.
RECURSIVE FirstVisibleDefault(_, _, _)
FirstVisibleDefault(d, props, st) ==
    IF props = <<>> THEN [st |-> st, sym |-> None]
    ELSE LET p == Head(props)
             after == CalcIn(d, p.cond, st)
         IN  IF ValueIn(p.cond, after) # No /\ after.vis[p.arg[2]] # No
             THEN [st |-> after, sym |-> p.arg[2]]
             ELSE FirstVisibleDefault(d, Tail(props), after)

OrFirstVisible(d, c, preferred) ==
    IF preferred.sym # None THEN preferred
    ELSE [preferred EXCEPT
            !.sym = Head(SelectSeq(d.values[c], LAMBDA s : preferred.st.vis[s] # No)
                            \o <<None>>)]

ChoiceDefault(d, c, st) ==
    OrFirstVisible(d, c, FirstVisibleDefault(d, d.defaults[c], st))

\* Mutant: does not ask whether the user's choice is still visible.
CalcChoiceBlind(d, c, st) ==
    IF st.uval[c] # None THEN [st EXCEPT !.val[c] = st.uval[c]]
    ELSE [st EXCEPT !.val[c] = ChoiceDefault(d, c, st).sym]

\* sym_calc_choice: the user's choice if it is visible.  A choice stays
\* answered only if all its visible members are.
CalcChoice(d, c, st) ==
    LET a == FoldLeft(LAMBDA x, s : CalcVisibility(d, s, x), st, d.values[c])
        visible == {s \in ToSet(d.values[c]) : a.vis[s] # No}
        b == IF visible \subseteq a.user THEN a ELSE [a EXCEPT !.user = @ \ {c}]
        default == ChoiceDefault(d, c, b)
    IN  IF b.uval[c] \in visible THEN [b EXCEPT !.val[c] = b.uval[c]]
        ELSE IF default.sym = None
        THEN [default.st EXCEPT !.val[c] = None, !.tri[c] = No]
        ELSE [default.st EXCEPT !.val[c] = default.sym]

\* The tristate value before the reverse dependencies: the user's, or the
\* default or what is implied.
CalcTriSource(d, s, st) ==
    LET default == IF IsChoice(d, s) THEN [st |-> st, prop |-> None, tri |-> No]
                   ELSE DefaultProp(d, s, st)
        after == IF default.prop = None THEN default.st
                 ELSE CalcIn(d, default.prop.arg, default.st)
        given == IF default.prop = None THEN No
                 ELSE And(ValueIn(default.prop.arg, after), default.tri)
        implied == IF IsChoice(d, s) THEN No ELSE st.imp[s]
        written == st.rev[s] # No \/ given # No \/ implied # No
    IN  IF st.vis[s] # No /\ s \in st.user
        THEN [st |-> st, tri |-> And(st.utri[s], st.vis[s])]
        ELSE [st |-> [after EXCEPT !.write = IF written THEN @ \cup {s} ELSE @],
              tri |-> Or(given, implied)]

CalcTri(d, s, st) ==
    LET member == IsChoiceValue(d, s) /\ st.vis[s] = Yes
        source == CalcTriSource(d, s, st)
        after == IF member THEN st ELSE source.st
        t == IF member THEN (IF st.val[ChoiceOf(d, s)] = s THEN Yes ELSE No)
             ELSE Or(source.tri, after.rev[s])
    IN  [after EXCEPT !.tri[s] =
            IF t = Mod /\ (ActsBool(d, s, after) \/ after.imp[s] = Yes) THEN Yes ELSE t]

CalcString(d, s, st) ==
    LET default == DefaultProp(d, s, st)
        source == default.prop.arg[2]
        after == Calc(d, source, [default.st EXCEPT !.write = @ \cup {s}])
    IN  IF st.vis[s] # No /\ s \in st.user THEN [st EXCEPT !.val[s] = st.uval[s]]
        ELSE IF default.prop = None THEN default.st
        ELSE [after EXCEPT !.val[s] = CurrVal(source, after)]

\* sym_get_range_val: a bound is read in its own symbol's base.
RangeVal(b, base, st) == ReadNumber(NumBase(TypeOf(b), base), CurrVal(b, st))

\* sym_validate_range: a number out of its range becomes the nearest bound.
ValidateRange(d, s, st) ==
    LET base == NumBase(TypeOf(s), "any")
        found == RangeProp(d, s, st)
        lo == found.prop.arg[1]
        hi == found.prop.arg[2]
        n == ReadNumber(base, found.st.val[s])
        low == Calc(d, lo, found.st)
        high == Calc(d, hi, low)
        set(x, b) == [x EXCEPT !.val[s] = Text[TypeOf(s)][RangeVal(b, base, x)]]
    IN  IF TypeOf(s) \notin {"int", "hex"} THEN st
        ELSE IF found.prop = None THEN found.st
        ELSE IF n < RangeVal(lo, base, low) THEN set(low, lo)
        ELSE IF n > RangeVal(hi, base, high) THEN set(high, hi)
        ELSE high

\* set_all_choice_values: the members without an answer get the answer n.
SetAllChoiceValues(d, c, st) ==
    [st EXCEPT !.utri = [s \in Declared |->
                            IF s \in ToSet(d.values[c]) \ st.user THEN No ELSE @[s]],
               !.user = @ \cup {c},
               !.valid = @ \ {c},
               !.needset = @ \ {c}]

\* sym_calc_value.
CalcSymbol(d, s, st) ==
    LET ready == IF IsChoiceValue(d, s) /\ s \in st.needset
                 THEN Calc(d, ChoiceOf(d, s), [st EXCEPT !.needset = @ \ {s}])
                 ELSE st
        begun == CalcVisibility(d, s, [ready EXCEPT !.valid = @ \cup {s},
                                                    !.write = @ \ {s}])
        \* The value if it is needed for itself.
        blank == [begun EXCEPT !.write = IF begun.vis[s] # No THEN @ \cup {s} ELSE @,
                               !.tri[s] = No,
                               !.val[s] = IF IsTri(s) THEN None ELSE Empty]
        own == IF IsTri(s) THEN CalcTri(d, s, blank) ELSE CalcString(d, s, blank)
        chosen == IF IsChoice(d, s) /\ own.tri[s] = Yes THEN CalcChoice(d, s, own) ELSE own
        ranged == ValidateRange(d, s, chosen)
        modules == IF s = ModulesSym THEN [ranged EXCEPT !.mods = ranged.tri[s]] ELSE ranged
        members == IF IsChoice(d, s) /\ s \in modules.write
                   THEN {t \in ToSet(d.values[s]) : modules.vis[t] # No} ELSE {}
        written == [modules EXCEPT !.write = (@ \cup members) \ ({s} \cap Auto)]
    IN  IF s \in Literals \/ s \in st.valid THEN st
        ELSE IF s \in written.needset THEN SetAllChoiceValues(d, s, written) ELSE written

\* Mutants: values that are not calculated anew; a change that is not counted.
ClearNothing(d, st) == [st EXCEPT !.changed = TRUE]
ClearQuietly(d, st) == Calc(d, ModulesSym, [st EXCEPT !.valid = {}])

\* sym_clear_all_valid.
ClearAllValid(d, st) ==
    Calc(d, ModulesSym, [st EXCEPT !.valid = {}, !.changed = TRUE])

-----------------------------------------------------------------------------
(* The setters.  They answer whether the value was accepted; a refused one *)
(* changes nothing but what asking for the range has calculated.            *)

\* Mutant: forgets what selects ask for.
TriWithinVisible(d, s, t, st) == t <= st.vis[s]

TriWithinRange(d, s, t, st) ==
    LET type == GetType(d, s, st)
    IN  /\ st.vis[s] # No
        /\ type \in {"boolean", "tristate"}
        /\ t = Mod => type = "tristate" /\ st.imp[s] # Yes
        /\ st.vis[s] > st.rev[s]
        /\ IF IsChoiceValue(d, s) /\ st.vis[s] = Yes THEN t = Yes
           ELSE t \in st.rev[s] .. st.vis[s]

\* Mutant: a value that is confirmed does not count as an answer.
SetTriNew(d, s, t, st) ==
    LET c == ChoiceOf(d, s)
        visible == {m \in ToSet(d.values[c]) : st.vis[m] # No}
        own == [st EXCEPT !.user = @ \cup {s}, !.utri[s] = t]
        set == IF c # None /\ t = Yes
               THEN [own EXCEPT !.uval[c] = s, !.user = @ \cup {c} \cup visible]
               ELSE own
    IN  IF st.tri[s] = t THEN [st |-> st, ok |-> TRUE]
        ELSE IF TriWithinRange(d, s, t, st) THEN [st |-> ClearAllValid(d, set), ok |-> TRUE]
        ELSE [st |-> st, ok |-> FALSE]

\* A member set to y becomes its choice's value, and answers it for all the
\* visible members.
SetTri(d, s, t, st) ==
    LET c == ChoiceOf(d, s)
        visible == {m \in ToSet(d.values[c]) : st.vis[m] # No}
        own == [st EXCEPT !.user = @ \cup {s}, !.utri[s] = t]
        set == IF c # None /\ t = Yes
               THEN [own EXCEPT !.uval[c] = s, !.user = @ \cup {c} \cup visible]
               ELSE own
    IN  IF st.tri[s] = t THEN [st |-> set, ok |-> TRUE]
        ELSE IF TriWithinRange(d, s, t, st) THEN [st |-> ClearAllValid(d, set), ok |-> TRUE]
        ELSE [st |-> st, ok |-> FALSE]

\* sym_toggle_tristate_value: the next value that is accepted.
ToggledTo(d, s, st) ==
    LET turn(i) == (st.tri[s] + i) % 3
        accepted(i) == SetTri(d, s, turn(i), st).ok
    IN  turn(CHOOSE i \in 1 .. 3 : accepted(i) /\ \A j \in 1 .. i - 1 : ~accepted(j))

\* sym_string_valid, for the types that are no tristates.
StringValid(s, l) ==
    CASE TypeOf(s) = "string" -> TRUE
      [] TypeOf(s) = "int" -> l \in DOMAIN Plain["int"]
      [] TypeOf(s) = "hex" -> l \in DOMAIN Plain["hex"]

\* sym_string_within_range.
AtMostHigh(s, l, b, st) ==
    LET base == NumBase(TypeOf(s), "any")
    IN  [st |-> st, ok |-> ReadNumber(base, l) <= RangeVal(b, base, st)]

WithinBounds(d, s, l, bounds, st) ==
    LET base == NumBase(TypeOf(s), "any")
    IN  IF ReadNumber(base, l) < RangeVal(bounds[1], base, st) THEN [st |-> st, ok |-> FALSE]
        ELSE AtMostHigh(s, l, bounds[2], Calc(d, bounds[2], st))

WithinRange(d, s, l, found) ==
    IF found.prop = None THEN [st |-> found.st, ok |-> TRUE]
    ELSE WithinBounds(d, s, l, found.prop.arg, Calc(d, found.prop.arg[1], found.st))

StringWithinRange(d, s, l, st) ==
    IF TypeOf(s) = "string" \/ ~StringValid(s, l)
    THEN [st |-> st, ok |-> StringValid(s, l)]
    ELSE WithinRange(d, s, l, RangeProp(d, s, st))

\* sym_set_string_value of what is no tristate: a hex number gets its prefix,
\* and a string that is the user's value already changes nothing.
StringTaken(d, s, l, kept, st) ==
    IF kept = l /\ l = st.uval[s] THEN st
    ELSE ClearAllValid(d, [st EXCEPT !.uval[s] = kept])

SetWithin(d, s, l, within) ==
    IF within.ok
    THEN [st |-> StringTaken(d, s, l, IF TypeOf(s) = "hex" THEN Plain["hex"][l] ELSE l,
                             [within.st EXCEPT !.user = @ \cup {s}]),
          ok |-> TRUE]
    ELSE within

SetString(d, s, l, st) == SetWithin(d, s, l, StringWithinRange(d, s, l, st))

\* sym_get_string_default, as savedefconfig compares it with the value.
TriDefault(d, s, t, st) ==
    IF t = Mod /\ (\/ ~IsChoiceValue(d, s) /\ TriValue(ModulesSym, st) = No
                  \/ TypeOf(s) = "boolean")
    THEN Yes ELSE t

DefaultOf(d, s, found, st) ==
    LET given == IF found.prop = None THEN No
                 ELSE And(ValueIn(found.prop.arg, st), found.tri)
        text == IF found.prop = None THEN Empty ELSE CurrVal(found.prop.arg[2], st)
    IN  [st |-> st, val |-> IF IsTri(s)
                            THEN Or(TriDefault(d, s, Or(given, st.rev[s]), st), st.imp[s])
                            ELSE text]

DefaultFound(d, s, found) ==
    DefaultOf(d, s, found, IF found.prop = None THEN found.st
                           ELSE CalcIn(d, found.prop.arg, found.st))

StringDefault(d, s, st) ==
    DefaultFound(d, s, DefaultProp(d, s, Calc(d, ModulesSym, CalcVisibility(d, s, st))))

-----------------------------------------------------------------------------
(* menu_is_visible (menu.c). *)

\* A finalized entry, on its own (by the visibility of its symbol, whose one
\* prompt it has) or because something below it is visible,
\* which counts as an answer.
RECURSIVE MenuIsVisible(_, _, _)
VisibleBelow(n, below) ==
    IF below.ok THEN [below EXCEPT !.st.user = @ \cup {n.sym}] ELSE below

VisibleOnItsOwn(d, n, st) ==
    IF (IF n.sym # None THEN st.vis[n.sym] ELSE ValueIn(n.prompt[1], st)) # No
    THEN [st |-> st, ok |-> TRUE]
    ELSE IF n.sym = None \/ st.tri[n.sym] = No THEN [st |-> st, ok |-> FALSE]
    ELSE VisibleBelow(n, FoldLeft(LAMBDA x, m : IF x.ok THEN x ELSE MenuIsVisible(d, m, x.st),
                                  [st |-> st, ok |-> FALSE], n.list))

VisibleIf(d, n, st) ==
    IF ValueIn(n.visible, st) = No THEN [st |-> st, ok |-> FALSE]
    ELSE VisibleOnItsOwn(d, n, IF n.sym # None THEN Calc(d, n.sym, st)
                               ELSE CalcIn(d, n.prompt[1], st))

MenuIsVisible(d, n, st) ==
    IF n.prompt = <<>> THEN [st |-> st, ok |-> FALSE]
    ELSE VisibleIf(d, n, CalcIn(d, n.visible, st))

=============================================================================

------------------------------ MODULE KconfigFiles ------------------------------
(***************************************************************************)
(* How configurations are written to files and read back                   *)
(* (buildroot/support/kconfig/confdata.c), as operators on the symbols.    *)
(*                                                                         *)
(* A file is the sequence of its lines, a line [sym, text].  The text of a *)
(* tristate is y, m or n (n is the line "# SYM is not set"), of a number   *)
(* its literal, of a string the characters between and with its quotes.    *)
(* Comments are left out, and so are lines that no version of the tool     *)
(* writes.                                                                 *)
(***************************************************************************)
EXTENDS KconfigSymbol

CONSTANTS
    Chars,     \* the characters of the literals that strings may have
    AllNoY     \* the symbols with SYMBOL_ALLNOCONFIG_Y

Quote == "quote"
Backslash == "backslash"

ASSUME KconfigFilesAssumption ==
    /\ AllNoY \subseteq Declared
    /\ \A l, k \in DOMAIN Chars : Chars[l] = Chars[k] => l = k

-----------------------------------------------------------------------------
(* Strings in files. *)

\* sym_escape_string_value.
Escaped(chars) ==
    LET escape(c) == IF c \in {Quote, Backslash} THEN <<Backslash, c>> ELSE <<c>>
    IN  <<Quote>> \o FlattenSeq([i \in DOMAIN chars |-> escape(chars[i])]) \o <<Quote>>

\* What conf_set_sym_val reads up to the quote that ends the string: the
\* backslashes go, and what follows one is taken as it is.
RECURSIVE Unescaped(_)
Unescaped(chars) ==
    CASE chars = <<>> -> [closed |-> FALSE, chars |-> <<>>]
      [] chars # <<>> /\ Head(chars) = Quote -> [closed |-> TRUE, chars |-> <<>>]
      [] Len(chars) > 1 /\ Head(chars) = Backslash ->
            LET rest == Unescaped(SubSeq(chars, 3, Len(chars)))
            IN  [rest EXCEPT !.chars = <<chars[2]>> \o @]
      [] OTHER -> LET rest == Unescaped(Tail(chars))
                  IN  [rest EXCEPT !.chars = <<Head(chars)>> \o @]

\* The literal a quoted text stands for, or None.
Unquoted(text) ==
    LET read == Unescaped(Tail(text))
    IN  IF read.closed THEN CHOOSE l \in DOMAIN Chars : Chars[l] = read.chars ELSE None

\* sym_get_string_value and kconfig_print_symbol.
StringValue(s, st) == StrIn([t \in Declared |-> Value(t, st)], s)
Line(s, st) ==
    [sym |-> s, text |-> IF TypeOf(s) = "string" THEN Escaped(Chars[st.val[s]])
                         ELSE StringValue(s, st)]

-----------------------------------------------------------------------------
(* Writing. *)

\* conf_write's walk over the menu, which clears SYMBOL_WRITE as it goes so
\* that a symbol with several entries is written once.
WriteSymbol(s, x, a) ==
    IF s \notin a.write THEN [x EXCEPT !.st = a]
    ELSE [st |-> [a EXCEPT !.write = @ \ {s}], lines |-> Append(x.lines, Line(s, a))]

WriteEntry(d, x, n) ==
    CASE n.sym = None -> [x EXCEPT !.st = MenuIsVisible(d, n, x.st).st]
      [] n.sym # None /\ IsChoice(d, n.sym) -> x
      [] OTHER -> WriteSymbol(n.sym, x, Calc(d, n.sym, x.st))

WriteConfig(d, st) ==
    FoldLeft(LAMBDA x, n : WriteEntry(d, x, n),
             [st |-> IF st.changed THEN st ELSE ClearAllValid(d, st), lines |-> <<>>],
             d.entries)

\* Mutant: whatever member is y.
IsMember(d, s, st) ==
    ChoiceOf(d, s) # None /\ ChoiceOf(d, s) \notin d.optional /\ st.tri[s] = Yes

\* The member that a defconfig need not name: the default of a choice of
\* booleans that is not optional, if it is y.
IsPlainDefault(d, s, st) ==
    LET c == ChoiceOf(d, s)
    IN  /\ c # None
        /\ c \notin d.optional
        /\ s = ChoiceDefault(d, c, st).sym
        /\ TypeOf(s) = "boolean"
        /\ st.tri[s] = Yes

\* conf_write_defconfig: what differs from the defaults and can be changed.
SaveUnlessDefault(d, s, x, default) ==
    IF \/ StringValue(s, default.st)
             = IF IsTri(s) THEN TriName(default.val) ELSE default.val
       \/ IsPlainDefault(d, s, default.st)
    THEN [x EXCEPT !.st = default.st]
    ELSE [st |-> default.st, lines |-> Append(x.lines, Line(s, default.st))]

SaveChangable(d, s, x, a) ==
    IF a.vis[s] <= a.rev[s] THEN [x EXCEPT !.st = a]
    ELSE SaveUnlessDefault(d, s, x, StringDefault(d, s, a))

SaveSymbol(d, s, x, a) ==
    IF s \notin a.write THEN [x EXCEPT !.st = a]
    ELSE SaveChangable(d, s, x, [a EXCEPT !.write = @ \ {s}])

SaveEntry(d, x, n) ==
    CASE n.sym = None -> [x EXCEPT !.st = MenuIsVisible(d, n, x.st).st]
      [] n.sym # None /\ IsChoice(d, n.sym) -> x
      [] OTHER -> SaveSymbol(d, n.sym, x, Calc(d, n.sym, x.st))

WriteDefconfig(d, st) ==
    FoldLeft(LAMBDA x, n : SaveEntry(d, x, n),
             [st |-> ClearAllValid(d, st), lines |-> <<>>], d.entries)

-----------------------------------------------------------------------------
(* Reading. *)

\* conf_set_sym_val of a user value.  warned is conf_warnings.
Refused(x) == [x EXCEPT !.warned = TRUE, !.taken = FALSE]

SetTriVal(s, text, x) ==
    IF text \in {"y", "n"} \/ (text = "m" /\ TypeOf(s) = "tristate")
    THEN [x EXCEPT !.st.utri[s] = CHOOSE t \in Tristate : TriName(t) = text,
                   !.st.user = @ \cup {s}]
    ELSE Refused(x)

SetStringVal(s, l, x) ==
    IF l # None /\ StringValid(s, l)
    THEN [x EXCEPT !.st.uval[s] = l, !.st.user = @ \cup {s}]
    ELSE Refused(x)

SetSymVal(s, text, x) ==
    IF IsTri(s) THEN SetTriVal(s, text, x)
    ELSE SetStringVal(s, IF TypeOf(s) = "string" THEN Unquoted(text) ELSE text, x)

\* Mutant: a member's line does not make it the choice's value.
SetChoiceMode(d, s, x) ==
    [x EXCEPT !.st.utri[ChoiceOf(d, s)] = Or(@, x.st.utri[s])]

\* What a member's line does to its choice.
SetChoiceOf(d, s, x) ==
    LET c == ChoiceOf(d, s)
        t == x.st.utri[s]
        strange == \/ t = Mod /\ x.st.utri[c] = Yes
                   \/ t = Yes /\ x.st.utri[c] # No
    IN  [x EXCEPT !.warned = @ \/ strange,
                  !.st.user = IF strange /\ t = Mod THEN @ \ {c} ELSE @,
                  !.st.uval[c] = IF t = Yes THEN s ELSE @,
                  !.st.utri[c] = Or(@, t)]

AfterValue(d, s, x) ==
    IF x.taken /\ IsChoiceValue(d, s) THEN SetChoiceOf(d, s, x) ELSE x

ReadLine(d, x, line) ==
    LET begun == [x EXCEPT !.taken = TRUE, !.warned = @ \/ line.sym \in x.st.user]
    IN  IF line.sym \notin Declared THEN [x EXCEPT !.st.changed = TRUE]
        ELSE AfterValue(d, line.sym, SetSymVal(line.sym, line.text, begun))

\* conf_read_simple: forgets all user values, and counts the choices as
\* answered.
ReadSimple(d, file, st) ==
    LET blank == [st EXCEPT !.user = d.choices, !.valid = {},
                            !.utri = [s \in Declared |-> No],
                            !.uval = [s \in Declared |-> None]]
    IN  FoldLeft(LAMBDA x, line : ReadLine(d, x, line),
                 [st |-> blank, warned |-> FALSE, taken |-> TRUE], file)

\* The saved value and the calculated one disagree.
Disagrees(d, s, st) ==
    LET saved == IF IsTri(s) THEN st.utri[s] ELSE st.uval[s]
    IN  /\ ~IsChoice(d, s)
        /\ s \notin Auto
        /\ IF s \in st.user /\ s \in st.write THEN saved # Value(s, st)
           ELSE s \in st.user \/ s \in st.write

\* The values that are not used are forgotten, if the file agreed so far, and
\* so are those that are out of range.
ResetOutOfRange(s, x, within) ==
    IF within.ok THEN [x EXCEPT !.st = within.st]
    ELSE [st |-> [within.st EXCEPT !.valid = @ \ {s}, !.user = @ \ {s}], unsaved |-> TRUE]

ResetUnused(d, x, s) ==
    LET unused == x.st.vis[s] = No /\ ~x.unsaved
        a == [x EXCEPT !.st.user = IF unused THEN @ \ {s} ELSE @]
    IN  CASE s \notin x.st.user \/ IsChoiceValue(d, s) -> x
          [] s \in x.st.user /\ ~IsChoiceValue(d, s) /\ IsTri(s) -> a
          [] OTHER -> ResetOutOfRange(s, a, StringWithinRange(d, s, x.st.uval[s], a.st))

\* conf_read of a file that exists.
Compare(d, x, s, st) == [st |-> st, unsaved |-> x.unsaved \/ Disagrees(d, s, st)]

CountChange(x, warned) == [x.st EXCEPT !.changed = @ \/ warned \/ x.unsaved]

AfterReading(d, read) ==
    LET compared == OverSymbols(d, LAMBDA x, s : Compare(d, x, s, Calc(d, s, x.st)),
                                [st |-> Calc(d, ModulesSym, read.st), unsaved |-> FALSE])
    IN  CountChange(OverSymbols(d, LAMBDA x, s : ResetUnused(d, x, s), compared), read.warned)

ReadConfig(d, file, st) ==
    AfterReading(d, ReadSimple(d, file, [st EXCEPT !.changed = FALSE]))

\* conf_read of a file that cannot be opened; only the name that is the
\* default counts as a change.
ReadMissing(d, named, st) ==
    Calc(d, ModulesSym, [st EXCEPT !.changed = ~named])

-----------------------------------------------------------------------------
(* conf_set_all_new_symbols, for defconfig and the all*config targets.  The *)
(* values of randconfig are pick's.                                         *)

NewValue(mode, s, pick) ==
    CASE mode = "yes" -> Yes
      [] mode = "mod" -> Mod
      [] mode = "no" -> IF s \in AllNoY THEN Yes ELSE No
      [] mode = "random" -> pick.tri[s]

\* Mutant: tristates are forgotten.
SetNewBooleans(d, mode, pick, st) ==
    LET types == IF mode = "random" THEN {"boolean", "tristate"} ELSE {"boolean"}
        new == {s \in Declared : TypeOf(s) \in types /\ s \notin st.user \cup st.valid}
        answered == {s \in new : ~(mode = "random" /\ IsChoice(d, s))}
    IN  IF mode = "default" THEN st
        ELSE [st EXCEPT !.utri = [s \in Declared |-> IF s \in new THEN NewValue(mode, s, pick)
                                                     ELSE @[s]],
                        !.user = @ \cup answered]

\* The symbols without a value, as far as they have not been calculated.
SetNewSymbols(d, mode, pick, st) ==
    LET new == {s \in Declared : IsTri(s) /\ s \notin st.user \cup st.valid}
        answered == {s \in new : ~(mode = "random" /\ IsChoice(d, s))}
    IN  IF mode = "default" THEN st
        ELSE [st EXCEPT !.utri = [s \in Declared |-> IF s \in new THEN NewValue(mode, s, pick)
                                                     ELSE @[s]],
                        !.user = @ \cup answered]

\* randomize_choice_values: one member of a choice that is y becomes its value.
RandomizeChoice(d, c, pick, st) ==
    IF st.tri[c] # Yes THEN st
    ELSE LET members == ToSet(d.values[c])
         IN  [st EXCEPT !.utri = [s \in Declared |->
                                     IF s \in members THEN (IF s = pick.member[c] THEN Yes ELSE No)
                                     ELSE @[s]],
                        !.uval[c] = pick.member[c],
                        !.user = @ \cup members \cup {c},
                        !.valid = @ \ (members \cup {c})]

SetAllNewSymbols(d, mode, pick, st) ==
    LET members == {s \in Declared : IsChoiceValue(d, s)}
        set == ClearAllValid(d, SetNewSymbols(d, mode, pick, st))
        begun == IF mode = "random" THEN set
                 ELSE [set EXCEPT !.needset = @ \cup members \cup (d.choices \ set.user)]
        choose(x, c) ==
            LET a == Calc(d, c, x)
            IN  IF c \in x.user \/ ~IsChoice(d, c) THEN x
                ELSE IF mode = "random" THEN RandomizeChoice(d, c, pick, a)
                ELSE SetAllChoiceValues(d, c, a)
    IN  OverSymbols(d, choose, begun)

=============================================================================

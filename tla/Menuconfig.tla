------------------------------- MODULE Menuconfig -------------------------------
(***************************************************************************)
(* The configuration tool as its user meets it: menuconfig or nconfig over *)
(* the same symbols and files, and what the user may rely on.              *)
(***************************************************************************)
EXTENDS Mconf, Nconf

\* The program has ended.
Ended ==
    /\ ended # "no"
    /\ UNCHANGED vars

Next == MNext \/ NNext \/ Ended

Spec == Init /\ [][Next]_vars

-----------------------------------------------------------------------------
(* Properties.  Those about values are about Kconfig files in which the    *)
(* search has found no recursion.                                          *)

TypeOK ==
    /\ frontend \in FrontEnds
    /\ kconfig \in DOMAIN Trees
    /\ st.valid \cup st.write \cup st.user \subseteq Declared
    /\ st.needset = {}
    /\ \A s \in Declared : {st.tri[s], st.vis[s], st.rev[s], st.utri[s]} \subseteq Tristate
    /\ screens # <<>> /\ Len(screens) <= MaxScreens + 2
    /\ \A i \in DOMAIN screens :
          screens[i].kind \in {"menu", "choice", "string", "exit"}
    /\ showall \in BOOLEAN
    /\ filename \in Names
    /\ changes \in 0 .. MaxChanges
    /\ ended \in {"no", "clean", "saved", "failed", "discarded"}
    /\ late \subseteq st.user
    /\ missed \in BOOLEAN

Sound == check.reported = {}

\* All symbols calculated, as what looks at them finds them.
Full == OverSymbols(d, LAMBDA x, s : Calc(d, s, x), st)

\* The symbols as the program shows them: as if the late answers were not given.
Displayed == [st EXCEPT !.user = @ \ late]

\* A value that counts as calculated is the one that a calculation from
\* nothing would give, whatever was looked at, set or loaded in between.  The
\* one thing it may lack is a late answer: sym_set_string_value does not
\* calculate anew if the value typed is the one stored, though it may have been
\* read from the file and forgotten (symbol.c:713).
CacheFresh ==
    Sound => \A s \in st.valid :
                LET fresh == Calc(d, s, [Displayed EXCEPT !.valid = {}])
                IN  st.tri[s] = fresh.tri[s] /\ st.val[s] = fresh.val[s]

\* What the program has accepted for a symbol is its value at the next
\* prompt, or once everything is calculated anew if it is late: nothing that
\* depends on it, is selected or chosen takes it back.
\* (An entry that is not visible, shown because everything is, takes strings
\* and numbers too; those wait until it is.)
AcceptedTakes ==
    Sound /\ asked # None =>
        LET now == Calc(d, asked.sym,
                        IF asked.sym \in late THEN [st EXCEPT !.valid = {}] ELSE st)
        IN  now.vis[asked.sym] # No => Value(asked.sym, now) = asked.val

\* A choice that is y has exactly one member that is, a visible one; one that
\* is m has none; one that is n has no member at all.
ChoiceExactlyOne ==
    LET now == Full
        members(c) == ToSet(d.values[c])
        on(c) == {s \in members(c) : now.tri[s] = Yes}
    IN  Sound => \A c \in d.choices :
            CASE now.tri[c] = Yes -> on(c) = {now.val[c]} /\ now.vis[now.val[c]] # No
              [] now.tri[c] = Mod -> on(c) = {}
              [] now.tri[c] = No -> \A s \in members(c) : now.tri[s] = No

\* A number lies in the range that is in force, however its bounds and the
\* conditions of its ranges have changed since it was entered.
RangeKept ==
    LET now == Full
        base(s) == NumBase(TypeOf(s), "any")
        range(s) == RangeProp(d, s, now).prop
        bound(s, i) == RangeVal(range(s).arg[i], base(s), now)
    IN  Sound => \A s \in {t \in Declared : TypeOf(t) \in {"int", "hex"}} :
            range(s) # None /\ bound(s, 1) <= bound(s, 2)
                => ReadNumber(base(s), now.val[s]) \in bound(s, 1) .. bound(s, 2)

\* Only a select, or an imply whose target's dependencies are not n, makes a
\* symbol more than its dependencies allow.
UnmetOnlyBySelect ==
    LET now == Full
    IN  Sound => \A s \in {t \in Declared : IsTri(t) /\ ~IsChoiceValue(d, t)} :
            \/ now.tri[s] <= Or(now.dir[s], now.rev[s])
            \/ now.dir[s] # No /\ now.tri[s] <= now.imp[s]

\* The conditions an entry was written under: the menus, ifs and choices
\* around it, the "visible if"s, and its own.
RECURSIVE Conditions(_, _, _)
Conditions(list, around, above) ==
    LET conj(e, f) == AllocAnd(e, RewriteM(f))
        dep(n) == conj(around, n.dep)
        boolean(n) == /\ above # None
                      /\ TypeOf(above) = "tristate"
                      /\ n.sym # None /\ TypeOf(n.sym) # "tristate"
        entry(n) == LET e == IF boolean(n) THEN conj(dep(n), <<"=", above, "y">>) ELSE dep(n)
                    IN  [dep |-> e, shown |-> IF n.prompt = <<>> THEN e
                                              ELSE conj(e, n.prompt[1])]
        within(n) == IF n.choice THEN conj(entry(n).shown, Sym(n.sym)) ELSE entry(n).shown
    IN  IF list = <<>> THEN <<>>
        ELSE LET n == Head(list)
             IN  <<[sym |-> n.sym, cond |-> entry(n)]>>
                   \o Conditions(n.list, within(n), IF n.choice THEN n.sym ELSE None)
                   \o Conditions(Tail(list), around, above)

\* menu_finalize keeps every entry, in its order, visible under exactly the
\* conditions that it was written under, into whatever submenu it moves.
MenuKeepsConditions ==
    LET given == Conditions(AddVisibility(Trees[kconfig], <<>>), Null, None)
        now == Full
        value(e, s) == IF s # None /\ TypeOf(s) # "tristate"
                       THEN ValueIn(e, now) # No ELSE ValueIn(e, now)
    IN  /\ Len(given) = Len(d.entries)
        /\ \A i \in DOMAIN given :
             LET n == d.entries[i]
                 s == n.sym
             IN  /\ s = given[i].sym
                 /\ Sound => /\ value(n.dep, s) = value(given[i].cond.dep, s)
                             /\ \A j \in DOMAIN n.prompt :
                                  value(n.prompt[j], s) = value(given[i].cond.shown, s)

\* Every symbol with a visible prompt can be reached from the main menu.
RECURSIVE Shown(_, _)
Shown(screen, s) ==
    LET items == ToSet(Draw(screen, FALSE, s).items)
        opened(i) ==
            IF i.tag = "t" /\ i.node.choice /\ s.tri[i.node.sym] = Yes
            THEN Shown(Screen("choice", i.node), s)
            ELSE IF i.tag \in {"m", "t"} /\ i.node.opens
            THEN Shown(Screen("menu", i.node), s) ELSE {}
    IN  {i.node : i \in items} \cup UNION {opened(i) : i \in items}

AllShown(s, shown) ==
    \A n \in ToSet(d.entries) : n.sym # None /\ MenuIsVisible(d, n, s).ok => n \in shown

Navigable == Sound => AllShown(Full, Shown(Screen("menu", d.menu), Full))

\* The program leaves without a question, or after it has saved, only if the
\* file holds the configuration that it shows, unless changes stopped counting
\* because a file was asked for that does not exist: conf_read resets the
\* counter before it opens the file (confdata.c:413).
NoSilentLoss ==
    Sound /\ ended \in {"clean", "saved"} /\ ~missed =>
        /\ disk[filename] # Absent
        /\ ToSet(disk[filename])
              = ToSet(WriteConfig(d, [Displayed EXCEPT !.changed = FALSE]).lines)

\* The next start finds in that file the values that this one has shown, and
\* nothing to ask about.
NextStartAgrees ==
    LET next == Begun(disk[filename])
        now == Full
        again == OverSymbols(d, LAMBDA x, s : Calc(d, s, x), next)
    IN  Sound /\ ended \in {"clean", "saved"} /\ ~missed =>
            /\ ~next.changed
            /\ \A s \in Declared : Value(s, again) = Value(s, now)

\* Something is printed about a recursion exactly if there is one: if a
\* symbol, or a choice with its members, depends on itself through what
\* conditions, selects and defaults name.
Group(p, s) == IF IsChoiceValue(p, s) THEN ChoiceOf(p, s) ELSE s
Needs(p, s) == ToSet(DependsOn(p, s)) \ (Literals \cup {ChoiceOf(p, s)})
Needed(p, S) ==
    {Group(p, t) : t \in UNION {Needs(p, s) : s \in {r \in Declared : Group(p, r) \in S}}}
Reach(p, s) ==
    LET grow[i \in 0 .. Cardinality(Declared)] ==
            IF i = 0 THEN Needed(p, {s})
            ELSE LET before == grow[i - 1] IN before \cup Needed(p, before)
    IN  grow[Cardinality(Declared)]
Recursive ==
    [k \in DOMAIN Trees |->
        LET p == Parsed[k].decls
        IN  \E s \in Declared : Group(p, s) \in Reach(p, Group(p, s))]

CyclesReported == check.reported # {} <=> Recursive[kconfig]

\* Whatever has been set, loaded and saved, every value is one that its choice,
\* its range and its dependencies allow.
ValuesAllowed == TypeOK /\ ChoiceExactlyOne /\ RangeKept /\ UnmetOnlyBySelect

\* The tree of menus that the front ends show is the one that was written:
\* every entry under its own conditions, within reach, and no recursion that
\* is not reported.
MenusAsWritten == MenuKeepsConditions /\ Navigable /\ CyclesReported

=============================================================================

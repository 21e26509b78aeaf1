-------------------------------- MODULE FrontEnd --------------------------------
(***************************************************************************)
(* What the two text front ends of the configuration tool share:           *)
(* menuconfig (buildroot/support/kconfig/mconf.c, module Mconf) and        *)
(* nconfig (nconf.c, module Nconf).  A user walks through screens, changes *)
(* values, loads and saves files, and leaves.                              *)
(*                                                                         *)
(* The program stands still only while it waits for a key; a step is a key *)
(* and everything up to the next wait, the redrawing of the screen         *)
(* included: drawing is what calculates most values.                       *)
(***************************************************************************)
EXTENDS KconfigFiles, KconfigDeps

CONSTANTS
    FrontEnds,   \* a subset of {"mconf", "nconf"}
    Trees,       \* the Kconfig files: a sequence of lists of menu entries
    Parse(_),    \* conf_parse of one as its caller sees it: an instance gives it
                 \* ConfParse
    Starts,      \* what .config may hold at the start, for each of them
    Typed,       \* the strings a user may type
    Alternates,  \* the names of other configuration files
    Absent,      \* no file
    MaxScreens,  \* bound: the screens above the main menu
    MaxChanges   \* bound: the keys that may change a value or a file

VARIABLES
    frontend,    \* the program
    kconfig,     \* the Kconfig file it has read
    st,          \* the symbols
    screens,     \* the main menu and the screens opened above it
    showall,     \* show_all_options, show_all_items
    filename,    \* the file that Save and Exit write
    disk,        \* the configuration files
    asked,       \* the last value asked for and accepted, or None
    changes,     \* the keys so far that may have changed something
    ended,       \* how the program ended, or "no"
    \* history
    late,        \* the answers accepted since nothing has been calculated anew
    missed       \* changes stopped counting when a file was not found

history == <<late, missed>>
vars == <<frontend, kconfig, st, screens, showall, filename, disk, asked, changes,
          ended, late, missed>>

ASSUME FrontEndAssumption ==
    /\ FrontEnds \subseteq {"mconf", "nconf"}
    /\ DOMAIN Starts = DOMAIN Trees
    /\ MaxScreens \in Nat
    /\ MaxChanges \in Nat

Default == ".config"
Names == {Default} \cup Alternates

Parsed == [k \in DOMAIN Trees |-> Parse(Trees[k])]
d == Parsed[kconfig].decls
check == Parsed[kconfig].check

Screen(kind, n) == [kind |-> kind, node |-> n]
Top == Last(screens)

-----------------------------------------------------------------------------
(* Drawing (build_conf). *)

\* Whether an entry is drawn: nconfig does not even ask if it shows all.
Drawn(n, all, s) ==
    IF frontend = "nconf" /\ all THEN [st |-> s, ok |-> TRUE]
    ELSE [MenuIsVisible(d, n, s) EXCEPT !.ok = IF all THEN n.prompt # <<>> ELSE @]

\* menu_is_empty, for the arrow behind a menu.
AskEmpty(n, s) ==
    FoldLeft(LAMBDA v, m : IF v.ok THEN v ELSE MenuIsVisible(d, m, v.st),
             [st |-> s, ok |-> FALSE], n.list).st

AddItem(x, n, tag) == [x EXCEPT !.items = Append(@, [node |-> n, tag |-> tag])]

RECURSIVE Build(_, _, _)
BuildAll(x, current, list) == FoldLeft(LAMBDA y, n : Build(y, current, n), x, list)

\* An item, and what is below it unless that has a screen of its own.
BuildItem(x, current, n, tag) ==
    IF n # current /\ tag # "s" /\ n.opens THEN [AddItem(x, n, tag) EXCEPT !.st = AskEmpty(n, @)]
    ELSE BuildAll(AddItem(x, n, tag), current, n.list)

\* A choice: while it is y only its value and what depends on it.
See(y, c, m, v) ==
    [st |-> v.st, value |-> IF v.ok /\ m.sym = y.st.val[c] THEN <<m>> ELSE y.value]

BuildChosen(x, current, n, value) ==
    IF x.st.tri[n.sym] # Yes THEN BuildAll(x, current, n.list)
    ELSE IF value # <<>> /\ value[1].list # <<>> THEN Build(x, current, value[1])
    ELSE x

BuildChoice(x, current, n, seen) ==
    LET open == seen.st.vis[n.sym] > seen.st.rev[n.sym] \/ seen.value # <<>>
    IN  BuildChosen(AddItem([x EXCEPT !.st = seen.st], n, IF open THEN "t" ELSE ":"),
                    current, n, seen.value)

SymbolTag(n, current, s) ==
    CASE n = current \/ (IsChoiceValue(d, n.sym) /\ s.tri[n.sym] = Yes) -> ":"
      [] n # current /\ ~IsTri(n.sym) -> "s"
      [] OTHER -> "t"

BuildEntry(x, current, n) ==
    CASE n.sym # None /\ n.choice ->
            BuildChoice(x, current, n,
                        FoldLeft(LAMBDA y, m : See(y, n.sym, m, MenuIsVisible(d, m, y.st)),
                                 [st |-> x.st, value |-> <<>>], n.list))
      [] n.sym = None /\ (n = current \/ n.prompt = <<>>) -> BuildAll(x, current, n.list)
      [] OTHER -> BuildItem(x, current, n,
                            IF n.sym # None THEN SymbolTag(n, current, x.st)
                            ELSE IF n.opens THEN "m" ELSE ":")

BuildDrawn(x, current, n, drawn) ==
    IF drawn.ok THEN BuildEntry([x EXCEPT !.st = drawn.st], current, n)
    ELSE [x EXCEPT !.st = drawn.st]

Build(x, current, n) == BuildDrawn(x, current, n, Drawn(n, x.all, x.st))

\* The list of a choice (conf_choice); menuconfig shows no more than is visible.
AddMember(x, n, drawn) ==
    [(IF drawn.ok THEN AddItem(x, n, ":") ELSE x) EXCEPT !.st = drawn.st]

BuildMembers(n, x) ==
    FoldLeft(LAMBDA y, m : AddMember(y, m, Drawn(m, frontend = "nconf" /\ x.all, y.st)),
             x, n.list)

\* A screen's items, and the symbols after drawing it.
Draw(screen, all, s) ==
    LET empty == [st |-> s, items |-> <<>>, all |-> all]
    IN  CASE screen.kind = "menu" -> Build(empty, screen.node, screen.node)
          [] screen.kind = "choice" -> BuildMembers(screen.node, empty)
          [] OTHER -> empty

Items == ToSet(Draw(Top, showall, st).items)
Tagged(tags) == {i \in Items : i.tag \in tags}

\* What Select or Enter makes of an item: the values of a choice that is y, a
\* menu, a question for a string, or nothing.
OpenedBy(i, s) ==
    CASE i.tag = "t" /\ i.node.choice /\ s.tri[i.node.sym] = Yes -> "choice"
      [] i.tag = "s" -> "string"
      [] OTHER -> IF i.tag = "m" \/ (i.tag = "t" /\ i.node.opens) THEN "menu" ELSE "none"

-----------------------------------------------------------------------------
(* Starting: conf_parse, conf_read(NULL), and the main menu.               *)

Begun(start) ==
    LET parsed == Calc(d, ModulesSym, InitSymbols)
    IN  IF start = Absent THEN ReadMissing(d, FALSE, parsed) ELSE ReadConfig(d, start, parsed)

Init ==
    /\ frontend \in FrontEnds
    /\ kconfig \in DOMAIN Trees
    /\ screens = <<Screen("menu", d.menu)>>
    /\ showall = FALSE
    /\ filename = Default
    /\ \E start \in Starts[kconfig] :
         /\ disk = [name \in Names |-> IF name = Default THEN start ELSE Absent]
         /\ st = Draw(Screen("menu", d.menu), FALSE, Begun(start)).st
    /\ asked = None
    /\ changes = 0
    /\ ended = "no"
    /\ late = {}
    /\ missed = FALSE

-----------------------------------------------------------------------------
(* The parts of steps. *)

At(kinds) == ended = "no" /\ Top.kind \in kinds
Counted == changes < MaxChanges /\ changes' = changes + 1
Looking == asked' = None /\ UNCHANGED <<changes, filename, disk, ended, history>>

\* The screens that a step leaves, the last one drawn.
Show(scr, all, s) ==
    /\ screens' = scr
    /\ st' = Draw(Last(scr), all, s).st
    /\ showall' = all

Push(kind, n, s) ==
    /\ kind # "none"
    /\ Len(screens) <= MaxScreens
    /\ Show(Append(screens, Screen(kind, n)), showall, s)

\* Back to the screen below, without having done anything.
Back ==
    /\ Len(screens) > 1
    /\ Show(Front(screens), showall, st)
    /\ Looking

\* What a setter has done with a value asked for, and the screens that follow.
\* The same value again is accepted without calculating anything anew.
Setting(sym, v, same, result, scr) ==
    /\ asked' = IF result.ok THEN [sym |-> sym, val |-> v] ELSE None
    /\ Show(scr, showall, result.st)
    /\ late' = CASE ~result.ok \/ (same /\ IsTri(sym)) -> late
                 [] same /\ ~IsTri(sym) /\ result.ok -> late \cup ({sym} \ st.user)
                 [] OTHER -> {}
    /\ missed' = (missed /\ ~result.st.changed)
    /\ UNCHANGED <<filename, disk, ended>>

SetTo(sym, v, s, scr) == Setting(sym, v, s.tri[sym] = v, SetTri(d, sym, v, s), scr)

\* What the keys of a tristate set it to; y is tried as m if it is refused.
KeyValue(key, sym, s) ==
    CASE key = "y" -> IF SetTri(d, sym, Yes, s).ok THEN Yes ELSE Mod
      [] key = "n" -> No
      [] key = "m" -> Mod
      [] key = "toggle" -> ToggledTo(d, sym, s)

\* A string or number is typed; the question comes again until it is accepted.
TypeString ==
    \E l \in Typed :
        LET s == Top.node.sym
            kept == IF TypeOf(s) = "hex" THEN Plain["hex"][l] ELSE l
        IN  Setting(s, kept, kept = l /\ l = st.uval[s], SetString(d, s, l, st),
                    IF StringWithinRange(d, s, l, st).ok THEN Front(screens) ELSE screens)

\* conf_write of what s holds, to a file that can be written.
Written(name, s) ==
    LET w == WriteConfig(d, s)
    IN  [st |-> [w.st EXCEPT !.changed = FALSE], disk |-> [disk EXCEPT ![name] = w.lines]]

SaveTo(name) ==
    /\ disk' = Written(name, st).disk
    /\ filename' = name
    /\ Show(screens, showall, Written(name, st).st)
    /\ asked' = None
    /\ late' = IF st.changed THEN late ELSE {}
    /\ missed' = FALSE
    /\ UNCHANGED ended

\* Loading counts as a change; asking for a file that does not exist makes the
\* program forget that there were any.
LoadFrom(name) ==
    LET found == disk[name] # Absent
    IN  /\ filename' = IF found THEN name ELSE filename
        /\ Show(screens, showall,
                IF found THEN [ReadConfig(d, disk[name], st) EXCEPT !.changed = TRUE]
                ELSE ReadMissing(d, TRUE, st))
        /\ late' = IF found THEN {} ELSE late
        /\ missed' = (~found /\ (missed \/ st.changed))
        /\ asked' = None
        /\ UNCHANGED <<disk, ended>>

\* If nothing has changed there is nothing to ask.
TryToEnd ==
    /\ IF st.changed
       THEN screens' = Append(screens, Screen("exit", Top.node)) /\ UNCHANGED ended
       ELSE ended' = "clean" /\ UNCHANGED screens
    /\ asked' = None
    /\ UNCHANGED <<st, showall, changes, filename, disk, history>>

EndWith(how, s, files) ==
    /\ ended' = how
    /\ st' = s
    /\ disk' = files
    /\ asked' = None
    /\ UNCHANGED <<screens, showall, changes, filename, history>>

\* The answers to the question whether to save: yes, which may fail, or no.
SaveAndEnd == EndWith("saved", Written(filename, st).st, Written(filename, st).disk)
FailAndEnd == EndWith("failed", st, disk)
DiscardAndEnd == EndWith("discarded", st, disk)

Prompted == {n \in ToSet(d.entries) : n.sym # None /\ n.prompt # <<>>}

\* What a search shows of an entry (sym_re_search, get_prompt_str): the symbols
\* afterwards, and the visible menus around the entry.
AddSeen(x, n, v) == [st |-> v.st, seen |-> IF v.ok THEN Append(x.seen, n) ELSE x.seen]

Found(n) ==
    FoldLeft(LAMBDA x, m : AddSeen(x, m, MenuIsVisible(d, m, x.st)),
             [st |-> Calc(d, n.sym, st), seen |-> <<>>], Front(Around(n, d.menu)))

=============================================================================

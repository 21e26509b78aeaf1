------------------------------ MODULE KconfigConf ------------------------------
(***************************************************************************)
(* The line-oriented configuration program that make runs (conf.c in       *)
(* buildroot/support/kconfig): oldconfig and syncconfig ask for what is    *)
(* new, the others set everything by themselves; then they write .config,  *)
(* a defconfig, or auto.conf and what goes with it (confdata.c).           *)
(*                                                                         *)
(* The program stands still while it waits for a line, and between the     *)
(* writes and renames of files, where it may be killed.                    *)
(***************************************************************************)
EXTENDS KconfigFiles, KconfigOutput

CONSTANTS
    Trees,       \* the Kconfig files: a sequence of lists of menu entries
    Parse(_),    \* conf_parse of one as its caller sees it: an instance gives it
                 \* Finalize
    Starts,      \* what .config may hold at first, for each of them
    Defconfigs,  \* what the defconfig file may hold at first
    Modes,       \* the options that the program is started with
    Typed,       \* the strings a user may type
    Picks,       \* what randconfig may draw, for each of them
    Packages,    \* the symbols that make *packageconfig leaves out of its seed
    MaxRuns      \* bound: the runs of the program and of the build

VARIABLES
    mode,        \* the option of the running program, or "none"
    proc,        \* what it holds in memory
    runs

vars == <<ovars, mode, proc, runs>>

ASSUME KconfigConfAssumption ==
    /\ DOMAIN Starts = DOMAIN Trees /\ DOMAIN Defconfigs = DOMAIN Trees
    /\ DOMAIN Picks = DOMAIN Trees
    /\ Packages \subseteq Declared
    /\ MaxRuns \in Nat /\ MaxFaults \in Nat

Parsed == [k \in DOMAIN Trees |-> Parse(Trees[k])]
d == Parsed[kconfig]

File(lines, whole) == [lines |-> lines, whole |-> whole]

\* The program before it has read anything.  todo is what it has still to do:
\* the calls that its own have not returned to.  late is history: the symbols with
\* an answer that was accepted without calculating anything anew since.
Idle == [st |-> InitSymbols, late |-> {}, todo |-> <<>>, ask |-> "new", root |-> 0,
         cnt |-> 0, passes |-> 0, ok |-> TRUE, seeded |-> FALSE]

\* An entry is known by its place; 0 is the main menu.
Place(n) == IF n = d.menu THEN 0 ELSE CHOOSE i \in DOMAIN d.entries : d.entries[i] = n
Node(t) == IF t.at = 0 THEN d.menu ELSE d.entries[t.at]
Task(do, n) == [do |-> do, at |-> Place(n)]
Tasks(do, list) == [i \in DOMAIN list |-> Task(do, list[i])]

-----------------------------------------------------------------------------
(* Asking: conf, check_conf and conf_choice, up to the next question.      *)

IsChangable(s, st) == st.vis[s] > st.rev[s]

\* conf_askvalue: whether somebody is asked.
CanAsk(s, x) == IsChangable(s, x.st) /\ (x.ask = "all" \/ s \notin x.st.user)

\* conf: an entry and what is below it.  A menu is only looked through for new
\* symbols, unless it is the one that a new symbol was found in.
ConfEntry(x, n, rest) ==
    LET decide == Task(IF n.sym \in x.st.user THEN "decide" ELSE "decidenew", n)
        ask == <<Task(IF IsTri(n.sym) THEN "tristate" ELSE "string", n)>>
        todo == CASE n.opens /\ x.ask # "all" /\ x.root # Place(n) -> <<Task("check", n)>>
                  [] n.choice -> <<Task("tristate", n), decide>>
                  [] OTHER -> (IF n.sym = None THEN <<>> ELSE ask) \o Tasks("conf", n.list)
    IN  [x EXCEPT !.todo = todo \o rest]

\* check_conf: looks for symbols without a value that the user may change.
CheckEntry(x, n, rest) ==
    LET new == /\ n.sym # None
               /\ n.sym \notin x.st.user
               /\ IsChangable(n.sym, x.st) \/ (n.choice /\ x.st.tri[n.sym] = Yes)
        root == ParentMenu(n, d.menu)
        below == Tasks("check", n.list) \o rest
    IN  IF new /\ x.ask # "list"
        THEN [x EXCEPT !.cnt = 1, !.root = Place(root), !.todo = <<Task("conf", root)>> \o below]
        ELSE [x EXCEPT !.todo = below]

\* Both pass over what is not visible.
Visit(x, t, rest, visible) ==
    CASE ~visible -> [x EXCEPT !.todo = rest]
      [] visible /\ t.do = "conf" -> ConfEntry(x, Node(t), rest)
      [] visible /\ t.do = "check" -> CheckEntry(x, Node(t), rest)

VisitSeen(x, t, rest, v) == Visit([x EXCEPT !.st = v.st], t, rest, v.ok)

\* conf_choice, once its mode is known.
DecideChoice(x, t, rest) ==
    LET st == Calc(d, Node(t).sym, x.st)
        which == IF t.do = "decide" THEN "which" ELSE "whichnew"
    IN  [x EXCEPT !.st = st,
                  !.todo = (IF st.tri[Node(t).sym] = Yes THEN <<Task(which, Node(t))>> ELSE <<>>)
                           \o <<Task("after", Node(t))>> \o rest]

\* The members that conf_choice numbers, and the symbols after looking.
AddNumber(x, m, v) ==
    [st |-> v.st, members |-> IF v.ok /\ m.sym # None THEN Append(x.members, m) ELSE x.members]

Numbered(n, st) ==
    FoldLeft(LAMBDA x, m : AddNumber(x, m, MenuIsVisible(d, m, x.st)),
             [st |-> st, members |-> <<>>], n.list)

\* The number of the choice's value, or 0.
Given(n, x) ==
    LET i == {j \in DOMAIN x.members : x.members[j].sym = x.st.val[n.sym]}
    IN  IF i = {} THEN 0 ELSE CHOOSE j \in i : TRUE

\* What a setter has done.
Taken(x, same, result) ==
    [x EXCEPT !.st = result.st, !.late = IF result.ok /\ ~same THEN {} ELSE @]
GiveTri(x, s, v, st) == Taken(x, st.tri[s] = v, SetTri(d, s, v, st))

Choose(x, seen, k, rest) ==
    [GiveTri(x, seen.members[k].sym, Yes, seen.st) EXCEPT
        !.todo = Tasks("conf", seen.members[k].list) \o rest]

\* A single member is taken, and so is the one that an old choice has.
WhichMember(x, t, rest, seen) ==
    LET kept == x.ask = "new" /\ t.do = "which"
        taken == CASE Len(seen.members) = 1 -> 1
                   [] Len(seen.members) # 1 /\ kept -> Given(Node(t), seen)
                   [] OTHER -> 0
    IN  IF taken # 0 THEN Choose(x, seen, taken, rest)
        ELSE [x EXCEPT !.st = seen.st,
                       !.todo = <<Task(IF kept THEN "spin" ELSE "number", Node(t))>> \o rest]

Step(x) ==
    LET t == Head(x.todo)
        rest == Tail(x.todo)
    IN  CASE t.do \in {"conf", "check"} ->
                VisitSeen(x, t, rest, MenuIsVisible(d, Node(t), x.st))
          [] t.do \in {"decide", "decidenew"} -> DecideChoice(x, t, rest)
          [] t.do \in {"which", "whichnew"} ->
                WhichMember(x, t, rest, Numbered(Node(t), x.st))
          [] t.do = "after" ->
                [x EXCEPT !.todo = (IF x.st.tri[Node(t).sym] = Mod
                                    THEN Tasks("conf", Node(t).list) ELSE <<>>) \o rest]
          [] t.do = "pass" /\ (x.cnt # 0 \/ x.passes = 0) ->
                [x EXCEPT !.cnt = 0, !.passes = @ + 1, !.ask = IF @ = "all" THEN "new" ELSE @,
                          !.todo = <<Task("check", d.menu), t>>]
          [] OTHER -> [x EXCEPT !.todo = rest]

Waits(x) ==
    LET t == Head(x.todo)
    IN  \/ t.do \in {"number", "spin"}
        \/ t.do \in {"tristate", "string"} /\ CanAsk(Node(t).sym, x)

\* Bound: the searches for new symbols in one run.
MaxPasses == Cardinality(Declared)

\* Everything up to the next question.
RECURSIVE Advance(_)
Advance(x) ==
    IF x.todo = <<>> \/ Waits(x) \/ x.passes > MaxPasses THEN x ELSE Advance(Step(x))

Question == IF phase = "ask" THEN Head(proc.todo) ELSE Task("none", d.menu)
Answered(x) == [x EXCEPT !.todo = Tail(@)]

-----------------------------------------------------------------------------
(* Starting the program.                                                   *)

ReadInto(k, file) ==
    IF file = Absent THEN ReadMissing(Parsed[k], FALSE, InitSymbols)
    ELSE ReadConfig(Parsed[k], file.lines, InitSymbols)

ReadFile(file) == ReadInto(kconfig, file)

\* randconfig draws until nothing has changed: no symbol has got a value, or
\* the last choice without one has not.
RECURSIVE Randomized(_, _)
Randomized(pick, st) ==
    LET next == SetAllNewSymbols(d, "random", pick, st)
        open == SelectSeq(d.symbols, LAMBDA c : IsChoice(d, c) /\ c \notin st.user)
        changed == IF open = <<>> THEN ~({s \in Declared : IsTri(s)} \subseteq st.user \cup st.valid)
                   ELSE Last(open) \in next.user
    IN  IF changed THEN Randomized(pick, next) ELSE next

\* Where the program goes on after it has asked.
Writing(x) ==
    CASE mode' = "listnewconfig" -> "end"
      [] mode' = "savedefconfig" -> "save"
      [] mode' = "syncconfig" /\ ~x.st.changed -> "split"
      [] OTHER -> "write"

Continue(x) ==
    /\ proc' = x
    /\ phase' = IF x.todo # <<>> THEN "ask" ELSE Writing(x)

Start(m) ==
    /\ phase = "idle" /\ runs < MaxRuns
    /\ runs' = runs + 1
    /\ mode' = m
    /\ UNCHANGED <<kconfig, files, faults>>

Refuse == phase' = "idle" /\ proc' = [Idle EXCEPT !.ok = FALSE]

Pass(ask) == [Idle EXCEPT !.ask = ask, !.todo = <<Task("pass", d.menu)>>]

RunAsking ==
    \E m \in Modes \cap {"oldaskconfig", "oldconfig", "syncconfig", "listnewconfig"} :
        LET st == ReadFile(config)
            first == [Pass("all") EXCEPT !.todo = <<Task("conf", d.menu)>> \o @]
            begun == CASE m = "oldaskconfig" -> first
                       [] m = "listnewconfig" -> Pass("list")
                       [] OTHER -> Pass("new")
        IN  /\ Start(m)
            /\ \/ /\ ~(m = "syncconfig" /\ config = Absent)
                  /\ Continue(Advance([begun EXCEPT !.st = st]))
               \* No .config, or one that needs an update while
               \* KCONFIG_NOSILENTUPDATE is set.
               \/ m = "syncconfig" /\ (config = Absent \/ st.changed) /\ Refuse

RunSilent ==
    \E m \in Modes \cap {"olddefconfig", "savedefconfig", "defconfig"} :
        LET given == SetAllNewSymbols(d, "default", None, ReadFile(defconfig))
        IN  /\ Start(m)
            /\ IF m # "defconfig" THEN Continue([Idle EXCEPT !.st = ReadFile(config)])
               ELSE IF defconfig = Absent THEN Refuse
               ELSE Continue([Idle EXCEPT !.st = given])

\* The all*config targets, from nothing or from .config without the packages.
NewMode(m) ==
    CASE m = "allyesconfig" -> "yes"
      [] m = "allmodconfig" -> "mod"
      [] m = "allnoconfig" -> "no"
      [] m = "alldefconfig" -> "default"

RunAll ==
    \E m \in Modes \cap {"allyesconfig", "allmodconfig", "allnoconfig", "alldefconfig",
                         "randconfig"},
       seeded \in BOOLEAN :
        LET kept == SelectSeq(config.lines, LAMBDA l : l.sym \notin Packages)
            st == IF seeded THEN ReadSimple(d, kept, InitSymbols).st ELSE InitSymbols
        IN  /\ Start(m)
            /\ seeded => config # Absent
            /\ \/ /\ m # "randconfig"
                  /\ Continue([Idle EXCEPT !.seeded = seeded,
                                           !.st = SetAllNewSymbols(d, NewMode(m), None, st)])
               \/ /\ m = "randconfig"
                  /\ \E pick \in Picks[kconfig] :
                        Continue([Idle EXCEPT !.seeded = seeded, !.st = Randomized(pick, st)])

-----------------------------------------------------------------------------
(* Answering.  An empty line, or the end of the input, keeps the value.    *)

Asked(kind) ==
    /\ Question.do = kind
    /\ UNCHANGED <<kconfig, files, mode, runs, faults>>

Set(x, ok) == Continue(Advance(IF ok THEN Answered(x) ELSE x))

AnswerTristate ==
    LET s == Node(Question).sym
    IN  /\ Asked("tristate")
        /\ \E v \in Tristate : Set(GiveTri(proc, s, v, proc.st), SetTri(d, s, v, proc.st).ok)

AnswerString ==
    LET s == Node(Question).sym
    IN  /\ Asked("string")
        /\ \E l \in Typed \cup {StringValue(s, proc.st)} :
              LET kept == IF TypeOf(s) = "hex" /\ l \in DOMAIN Plain["hex"]
                          THEN Plain["hex"][l] ELSE l
                  same == kept = l /\ l = proc.st.uval[s]
                  result == SetString(d, s, l, proc.st)
                  late == IF result.ok /\ same /\ s \notin proc.st.user /\ l # proc.st.val[s]
                          THEN {s} ELSE {}
              IN  Set([Taken(proc, same, result) EXCEPT !.late = @ \cup late], result.ok)

AnswerNumber ==
    LET n == Node(Question)
        seen == Numbered(n, proc.st)
    IN  /\ Asked("number")
        /\ \E k \in (1 .. Len(seen.members)) \cup ({Given(n, seen)} \ {0}) :
              Continue(Advance(Choose(proc, seen, k, Tail(proc.todo))))

-----------------------------------------------------------------------------
(* Writing.                                                                *)

\* What there may be of a file: all of it, or what a full disk leaves.
Outcomes(lines) ==
    {File(lines, TRUE)} \cup {File(SubSeq(lines, 1, i), FALSE) : i \in 0 .. Len(lines) - 1}

WriteTmp ==
    LET w == WriteConfig(d, proc.st)
    IN  /\ phase = "write"
        /\ \E file \in Outcomes(w.lines) : PutTmp(file)
        /\ proc' = [proc EXCEPT !.st = w.st, !.late = IF proc.st.changed THEN @ ELSE {}]
        /\ UNCHANGED <<mode, runs>>

Replace ==
    /\ Rename
    /\ phase' = IF mode = "syncconfig" THEN "split" ELSE "end"
    /\ proc' = [proc EXCEPT !.st.changed = FALSE]
    /\ UNCHANGED <<mode, runs>>

SaveDefconfig ==
    /\ phase = "save"
    /\ \E file \in Outcomes(WriteDefconfig(d, proc.st).lines) : PutDefconfig(file)
    /\ UNCHANGED <<mode, proc, runs>>

\* What the generated files list.
Named(e, s) == ~IsChoice(e, s) /\ s \notin Auto
AutoLines(e, st) ==
    {l \in {Line(s, st) : s \in {t \in st.write : Named(e, t)}} :
        ~(IsTri(l.sym) /\ l.text = "n")}
Full(e, st) == OverSymbols(e, LAMBDA x, s : Calc(e, s, x), st)

Listing(st) ==
    /\ SplitConfig(List(AutoLines(d, st), proc.late # {}))
    /\ proc' = [proc EXCEPT !.st = st, !.late = {}]
    /\ UNCHANGED <<mode, runs>>

\* Mutant: nothing is calculated that has been calculated before.
SplitKeepsValid == phase = "split" /\ Listing(Full(d, proc.st))

\* conf_write_autoconf calculates everything anew.
Split == phase = "split" /\ Listing(Full(d, ClearAllValid(d, proc.st)))

\* The symbols have an order.
Touch ==
    /\ pending # {}
    /\ TouchFile(Head(SelectSeq(d.symbols, LAMBDA s : s \in pending)))
    /\ UNCHANGED <<mode, proc, runs>>

\* What there may be of a generated file, in the order of the symbols.
Parts(lines) ==
    {{l \in lines : l.sym \in ToSet(SubSeq(d.symbols, 1, i))} : i \in 0 .. Len(d.symbols)}

Generate ==
    /\ \E header \in Parts(listed.lines), tristate \in Parts(Tristates(listed.lines)),
          auto \in Parts(listed.lines) : WriteParts(header, tristate, auto)
    /\ UNCHANGED <<mode, proc, runs>>

\* The steps that change the files only.
FileStep ==
    /\ Backup \/ RenameHeader \/ RenameTristate \/ RenameAuto
    /\ UNCHANGED <<mode, proc, runs>>

\* The program exits.
End ==
    /\ Finish
    /\ proc' = [Idle EXCEPT !.passes = proc.passes, !.seeded = proc.seeded]
    /\ UNCHANGED <<mode, runs>>

Crash ==
    /\ Kill
    /\ proc' = [Idle EXCEPT !.ok = FALSE]
    /\ UNCHANGED <<mode, runs>>

Build ==
    /\ Compile /\ runs < MaxRuns
    /\ runs' = runs + 1
    /\ UNCHANGED <<mode, proc>>

-----------------------------------------------------------------------------

\* A new tree, or one after olddefconfig, syncconfig and a build.
Fresh ==
    /\ config \in Starts[kconfig]
    /\ gen = Generated({})
    /\ newer = TRUE /\ compiled = {}

Settled ==
    [k \in DOMAIN Trees |->
        {LET e == Parsed[k]
             w == WriteConfig(e, ReadInto(k, file))
             st == Full(e, ClearAllValid(e, w.st))
         IN  [lines |-> w.lines, auto |-> AutoLines(e, st)] : file \in Starts[k]}]

Built ==
    \E tree \in Settled[kconfig] :
        /\ config = File(tree.lines, TRUE)
        /\ gen = Generated(tree.auto)
        /\ newer = FALSE /\ compiled = tree.auto

Init ==
    /\ kconfig \in DOMAIN Trees
    /\ Fresh \/ Built
    /\ defconfig \in Defconfigs[kconfig]
    /\ old = Absent /\ tmp = Absent
    /\ touched = {} /\ cutoff = {} /\ pending = {}
    /\ listed = List({}, FALSE) /\ making = Generated({})
    /\ mode = "none" /\ phase = "idle" /\ proc = Idle
    /\ had = (config # Absent)
    /\ runs = 0 /\ faults = 0

Stopped ==
    /\ phase = "idle" /\ runs = MaxRuns
    /\ UNCHANGED vars

Next ==
    \/ RunAsking \/ RunSilent \/ RunAll
    \/ AnswerTristate \/ AnswerString \/ AnswerNumber
    \/ WriteTmp \/ Replace \/ SaveDefconfig
    \/ Split \/ Touch \/ Generate \/ FileStep \/ End
    \/ Crash \/ Build \/ Stopped

Spec == Init /\ [][Next]_vars

-----------------------------------------------------------------------------
(* Properties.                                                             *)

TypeOK ==
    /\ kconfig \in DOMAIN Trees
    /\ mode \in Modes \cup {"none"}
    /\ phase \in {"idle", "ask", "write", "backup", "replace", "save", "split", "touch",
                  "header", "tristate", "auto", "end"}
    /\ Question.do \in {"none", "tristate", "string", "number"}
    /\ proc.st.needset \subseteq Declared
    /\ \A s \in Declared : {proc.st.tri[s], proc.st.utri[s], proc.st.vis[s]} \subseteq Tristate
    /\ touched \cup cutoff \subseteq Declared
    /\ newer \in BOOLEAN
    /\ runs \in 0 .. MaxRuns /\ faults \in 0 .. MaxFaults

\* What a run of the program makes of .config, without asking.
Loaded(file) == Full(d, ReadFile(file))

\* The run that has just ended, and not by a crash or a full disk.
Done(modes) == phase = "idle" /\ proc.ok /\ mode \in modes /\ IsWhole(config)

\* Once the program has written .config, the next one finds nothing to ask,
\* and the same values.
NothingNewLeft ==
    LET st == ReadFile(config)
    IN  Done(Modes \ {"listnewconfig", "savedefconfig"}) =>
            /\ ~st.changed
            /\ \A n \in ToSet(d.entries) :
                  n.sym # None /\ ~n.choice /\ MenuIsVisible(d, n, st).ok
                      /\ IsChangable(n.sym, Full(d, st))
                  => n.sym \in MenuIsVisible(d, n, Full(d, st)).st.user

\* A defconfig stands for the configuration that it was made from.
DefconfigRoundTrip ==
    phase = "idle" /\ proc.ok /\ mode = "savedefconfig" /\ IsWhole(defconfig)
            /\ (config = Absent \/ config.whole) =>
        LET again == Full(d, SetAllNewSymbols(d, "default", None, ReadFile(defconfig)))
        IN  \A s \in Declared : Value(s, again) = Value(s, Loaded(config))

\* allyesconfig, allmodconfig and allnoconfig leave nothing that could still be
\* raised or lowered.
Wanted(s) ==
    CASE mode = "allyesconfig" -> Yes
      [] mode = "allmodconfig" -> Mod
      [] mode = "allnoconfig" -> IF s \in AllNoY THEN Yes ELSE No
ExtremesReached ==
    Done({"allyesconfig", "allmodconfig", "allnoconfig"}) /\ ~proc.seeded =>
        LET st == Loaded(config)
        IN  \A s \in {t \in Declared : IsTri(t) /\ ~IsChoiceValue(d, t) /\ ~IsChoice(d, t)} :
              IsChangable(s, st) =>
                \/ st.tri[s] = Wanted(s)
                \/ st.tri[s] > Wanted(s) /\ ~TriWithinRange(d, s, Wanted(s), st)
                \/ st.tri[s] < Wanted(s) /\ st.tri[s] = st.vis[s]

\* oldconfig and syncconfig come to an end: the search for new symbols starts
\* again only a few times, and the program never repeats a question that
\* nobody is asked.
PassesEnd ==
    /\ proc.passes <= MaxPasses
    /\ Question.do # "spin"

\* What the generated files list for a .config that a run reads and does not
\* change.
ListedFor(k, file) == AutoLines(Parsed[k], Full(Parsed[k], ReadInto(k, file)))
TristateDeclared == {s \in Declared : TypeOf(s) = "tristate"}

\* With any answers and in every mode, conf treats its files as KconfigOutput
\* says: what it generates is what .config stands for, however its own run
\* came to it, and nothing else touches a file.
ImplementsOutput == OutputSpec

\* What one run writes another reads, be it .config or a defconfig.
RoundTrip == NothingNewLeft /\ DefconfigRoundTrip

\* Each mode does what it is for: all*config reaches the extreme, and those that
\* ask come to an end.
ModesDeliver == TypeOK /\ ExtremesReached /\ PassesEnd

=============================================================================

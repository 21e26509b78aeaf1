----------------------------- MODULE KconfigOutput -----------------------------
(***************************************************************************)
(* The files that the runs of conf leave behind (conf_write, conf_write_   *)
(* defconfig, conf_split_config and conf_write_autoconf in                 *)
(* buildroot/support/kconfig/confdata.c), whatever it reads, asks and      *)
(* calculates before it writes them.  A run may be killed between two      *)
(* steps, and the disk may be full.                                        *)
(*                                                                         *)
(* A configuration file is Absent or [lines, whole].  A generated file is  *)
(* [lines, whole, late], a set of lines, each with the symbol that it is   *)
(* for.  whole and late are history, which no step depends on: whether the *)
(* disk has cut it off, and whether it was made by a run that had accepted *)
(* an answer too late for .config.                                         *)
(***************************************************************************)
EXTENDS Naturals

CONSTANTS
    TristateSymbols,  \* the symbols that are tristates
    Lists(_, _),      \* what the generated files list for a tree and a .config
    Absent,           \* no file
    MayFill,          \* whether the disk may be full
    MaxFaults         \* bound: kills and full disks

VARIABLES
    kconfig,      \* the Kconfig file
    config, old,  \* .config and .config.old
    tmp,          \* the file that is to become .config
    defconfig,    \* the file of defconfig and savedefconfig
    had,          \* there has been a whole .config
    gen,          \* header, tristate and auto.conf as syncconfig generates them
    newer,        \* .config is newer than auto.conf
    touched,      \* the symbols whose files are newer than the last build
    compiled,     \* the lines of auto.conf that the last builds used
    cutoff,       \* history: the symbols whose lines were cut off from auto.conf, and
                  \* whose files have not been touched since
    phase,        \* where the program stands
    listed,       \* what it is about to generate
    making,       \* the files that are to become the generated ones
    pending,      \* the symbols whose files it has still to touch
    faults

settings == <<config, old, tmp, defconfig, had>>
products == <<gen, newer, touched, compiled, cutoff>>
work == <<listed, making, pending>>
files == <<settings, products, work>>
ovars == <<kconfig, files, phase, faults>>

IsWhole(file) == file # Absent /\ file.whole
Tristates(lines) == {l \in lines : l.sym \in TristateSymbols}

\* A list for the generated files, and a part of it in a file.
List(lines, late) == [lines |-> lines, late |-> late]
Part(lines, all, late) == [lines |-> lines, whole |-> lines = all, late |-> late]
Products(header, tristate, auto, list) ==
    [header |-> Part(header, list.lines, list.late),
     tristate |-> Part(tristate, Tristates(list.lines), list.late),
     auto |-> Part(auto, list.lines, list.late)]
AllWhole(parts) == \A f \in DOMAIN parts : parts[f].whole
Generated(lines) == Products(lines, Tristates(lines), lines, List(lines, FALSE))

\* The symbols with a line in one of the two that is not in the other.
Changed(lines, others) == {l.sym : l \in (lines \ others) \cup (others \ lines)}

Goes(from, to) == phase = from /\ phase' \in to /\ UNCHANGED kconfig
Fault == faults < MaxFaults /\ faults' = faults + 1

\* A full disk leaves some of the lines: nobody looks at what fprintf and
\* fclose return.
Written(file) ==
    /\ file # Absent
    /\ \/ file.whole /\ UNCHANGED faults
       \/ MayFill /\ ~file.whole /\ Fault

-----------------------------------------------------------------------------
(* The configuration.                                                      *)

\* The program starts, asks, and goes on to what it is to write.
Asks ==
    /\ phase \in {"idle", "ask"}
    /\ Goes(phase, {"ask", "write", "save", "split", "end"})
    /\ UNCHANGED <<files, faults>>

\* conf_write: to a file of its own, ...
PutTmp(file) ==
    /\ Goes("write", {"backup"})
    /\ tmp' = file /\ Written(file)
    /\ UNCHANGED <<config, old, defconfig, had, products, work>>

\* Mutant: the old one is removed.
BackupRemoves ==
    /\ Goes("backup", {"replace"})
    /\ config' = Absent
    /\ UNCHANGED <<old, tmp, defconfig, had, products, work, faults>>

\* ... the old one becomes .config.old, ...
Backup ==
    /\ Goes("backup", {"replace"})
    /\ old' = IF config = Absent THEN old ELSE config
    /\ config' = Absent
    /\ UNCHANGED <<tmp, defconfig, had, products, work, faults>>

\* ... and the new one takes its place.
Rename ==
    /\ Goes("replace", {"split", "end"})
    /\ config' = tmp /\ tmp' = Absent
    /\ had' = (had \/ tmp.whole)
    /\ newer' = TRUE
    /\ UNCHANGED <<old, defconfig, gen, touched, compiled, cutoff, work, faults>>

\* conf_write_defconfig writes in place.
PutDefconfig(file) ==
    /\ Goes("save", {"end"})
    /\ defconfig' = file /\ Written(file)
    /\ UNCHANGED <<config, old, tmp, had, products, work>>

-----------------------------------------------------------------------------
(* What is generated from it.                                              *)

\* Mutant: only what auto.conf has no line for is compared.
SplitConfigNew(list) ==
    /\ Goes("split", {"touch"})
    /\ listed' = list
    /\ pending' = {l.sym : l \in list.lines \ gen.auto.lines}
    /\ UNCHANGED <<settings, products, making, faults>>

\* conf_split_config: the values are compared with those in auto.conf, where an
\* n has no line, ...
SplitConfig(list) ==
    /\ Goes("split", {"touch"})
    /\ listed' = list
    /\ pending' = Changed(list.lines, gen.auto.lines)
    /\ UNCHANGED <<settings, products, making, faults>>

\* ... and the files of the symbols that differ are touched, one by one.
TouchFile(s) ==
    /\ Goes("touch", {"touch"})
    /\ touched' = touched \cup {s} /\ pending' = pending \ {s}
    /\ cutoff' = cutoff \ {s}
    /\ UNCHANGED <<settings, gen, newer, compiled, listed, making, faults>>

\* The header, the list of the tristates and auto.conf are written to files of
\* their own, any of which a full disk may cut off, ...
WriteParts(header, tristate, auto) ==
    /\ pending = {} /\ Goes("touch", {"header"})
    /\ making' = Products(header, tristate, auto, listed)
    /\ header \subseteq listed.lines
    /\ tristate \subseteq Tristates(listed.lines)
    /\ auto \subseteq listed.lines
    /\ \/ AllWhole(making') /\ UNCHANGED faults
       \/ MayFill /\ Fault
    /\ UNCHANGED <<settings, products, listed, pending>>

\* ... and then renamed; auto.conf is the last.
RenameHeader ==
    /\ Goes("header", {"tristate"})
    /\ gen' = [gen EXCEPT !.header = making.header]
    /\ UNCHANGED <<settings, newer, touched, compiled, cutoff, work, faults>>

RenameTristate ==
    /\ Goes("tristate", {"auto"})
    /\ gen' = [gen EXCEPT !.tristate = making.tristate]
    /\ UNCHANGED <<settings, newer, touched, compiled, cutoff, work, faults>>

RenameAuto ==
    /\ Goes("auto", {"end"})
    /\ gen' = [gen EXCEPT !.auto = making.auto]
    /\ newer' = FALSE
    /\ cutoff' = cutoff \cup {l.sym : l \in listed.lines \ making.auto.lines}
    /\ listed' = List({}, FALSE) /\ making' = Generated({})
    /\ UNCHANGED <<settings, touched, compiled, pending, faults>>

Finish == Goes("end", {"idle"}) /\ UNCHANGED <<files, faults>>

\* The program is killed, or stops at an error of fopen, mkdir or rename.
Kill ==
    /\ phase # "idle" /\ Fault
    /\ phase' = "idle" /\ tmp' = Absent /\ pending' = {}
    /\ listed' = List({}, FALSE) /\ making' = Generated({})
    /\ UNCHANGED <<kconfig, config, old, defconfig, had, products>>

\* What uses auto.conf and the files of the symbols: compiles again what
\* depends on a symbol whose file is newer.  make has run syncconfig before if
\* .config is newer than auto.conf.
Compile ==
    /\ Goes("idle", {"idle"})
    /\ config # Absent /\ ~newer
    /\ compiled' = {l \in compiled : l.sym \notin touched}
                     \cup {l \in gen.auto.lines : l.sym \in touched}
    /\ touched' = {}
    /\ UNCHANGED <<settings, gen, newer, cutoff, work, faults>>

-----------------------------------------------------------------------------
(* What the program promises: it compares what .config says, unless an     *)
(* answer came too late for that, and treats the files in this order only. *)

OutputInit ==
    /\ config = Absent \/ config.whole
    /\ old = Absent /\ tmp = Absent
    /\ had = (config # Absent)
    /\ \/ newer = TRUE /\ gen = Generated({})
       \/ newer = FALSE /\ gen = Generated(Lists(kconfig, config))
    /\ compiled = gen.auto.lines /\ touched = {} /\ cutoff = {}
    /\ phase = "idle" /\ pending = {}
    /\ listed = List({}, FALSE) /\ making = Generated({})
    /\ faults = 0

OutputNext ==
    \/ Asks
    \/ PutTmp(tmp') \/ Backup \/ Rename \/ PutDefconfig(defconfig')
    \/ /\ SplitConfig(listed')
       /\ IsWhole(config) /\ ~listed'.late => listed' = List(Lists(kconfig, config), FALSE)
    \/ \E s \in pending : TouchFile(s)
    \/ WriteParts(making'.header.lines, making'.tristate.lines, making'.auto.lines)
    \/ RenameHeader \/ RenameTristate \/ RenameAuto
    \/ Finish \/ Kill \/ Compile

OutputSpec == OutputInit /\ [][OutputNext]_ovars

-----------------------------------------------------------------------------
(* Properties.                                                             *)

\* A whole configuration is left in .config or .config.old (conf_write), once
\* there was one; a .config that is about to be renamed counts while the
\* program runs.
ConfigSurvives == had => \E file \in {config, old, tmp} : IsWhole(file)

\* auto.conf is not older than .config only if the header, the list of
\* tristates and auto.conf list the values of .config: all of them, or some if
\* the disk has cut the file off.  A list that was made with an answer too late
\* for .config is another one.
AutoConfLast ==
    ~newer /\ IsWhole(config) =>
        LET right == Generated(Lists(kconfig, config))
        IN  \A f \in DOMAIN gen :
                ~gen[f].late => /\ gen[f].lines \subseteq right[f].lines
                                /\ gen[f].whole => gen[f].lines = right[f].lines

\* Whatever was compiled with another value than the one in auto.conf will be
\* compiled again, wherever syncconfig was killed, unless its line is one that
\* a full disk has cut off.
NothingStale == Changed(compiled, gen.auto.lines) \subseteq touched \cup cutoff

\* What make relies on, auto.conf and the files that depend on it, is never
\* ahead of what it stands for (conf_write_autoconf, conf_split_config).
AutoConfSound == AutoConfLast /\ NothingStale

=============================================================================

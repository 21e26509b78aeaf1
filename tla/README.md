# FunKey-OS for the T113-S3/S4 in TLA+

FunKey-OS is a small Linux distribution for a handheld game console.  Most of the repository
is third-party material: Buildroot with its packages, kernel and U-Boot patches, device trees.
Two bodies of code in it decide how the console behaves, and this directory models both:

* the **scripts** of two root file systems, **FunKey** (the system the user plays with) and
  **Recovery** (the system that updates it).  They move a FAT partition between the console
  and a USB host, partition an SD card, overwrite the running firmware, save and resume games
  across a shutdown.  They run as separate processes without locks, every command in them can
  fail, and the battery can be pulled at any time;
* the **host programs** that Buildroot compiles from this tree and runs to build those file
  systems: the Kconfig engine with `menuconfig`, `nconfig` and `conf` (what is built, and what
  is built again), the wrapper around every call of the cross compiler (how it is built), and
  `makedevs` (who owns it and what it may do).

The models are checked with TLC, and the invariants that matter most are proved with TLAPS.

Paths: `F/` is `src/FunKey/board/funkey/rootfs-overlay/`, `R/` is
`src/Recovery/board/funkey/rootfs-overlay/`, `K/` is `src/buildroot/support/kconfig/`.

## 1. Inventory

| Component | State | Operations | Talks to |
|---|---|---|---|
| **share** `F/usr/local/sbin/{share,usb_gadget,adb}`, `S10share` | who has p7: mounted on `/mnt` or in `lun.0/file`; the configfs gadget, whole or half-made: its directory, functions, links and binding; lock file; `adb` and `usbnet` files | `share init/start/stop`, `adb start/stop` | USB host, init (rcS, rcK), on-screen menu, firmware update |
| **session** `F/root/.profile`, `instant_play`, `frontend`, `pid`, `powerdown`, `usr/games/launchers` | `instant_play`, `resume_play`, `last_opk` on `/mnt`; `/var/run/funkey.pid`; `/run/rebooting`; `.frontend`; `frontend.lock`; processes | resume, frontend loop, launch, save, schedule/handle/now | signal USR1 and `pkill` between processes, init |
| **first_boot** `F/usr/local/sbin/first_boot`, `S01first_boot` | partition table, file systems of p5, p6, p7, U-Boot variable `first_boot_ok` | six stages, each skipped when it looks done | fdisk, sfdisk, partprobe, mkfs, the next boot |
| **firmware update** `recovery_mode`, `normal_mode`, `S60recovery`, `update_partition`, `sw-description`, U-Boot environment | bootable mark, root partition, update files | detect, restart, stream, resize, erase, restart | share, boot loader, swupdate |
| **low_bat_check** | status, count, icon, percentage file | one loop | `powerdown schedule` |
| **Recovery menu** `R/usr/local/sbin/menu` | selected entry | USB mount, check, format, network, toggles, exit | Recovery's share, swupdate |
| **notif / system_stats, volume, brightness, snapshot, keymap, rw / ro, asound.conf** | display, U-Boot variables, files | small setters | fkgpiod key bindings |
| **expressions** `K/expr.c` | none: trees of `&&`, `\|\|`, `!` and comparisons | evaluate, simplify, join, compare, print | everything below |
| **menus** `K/menu.c`, `zconf.y` | the tree of entries, and what each symbol got from it: prompts, defaults, ranges, selects, choices | `menu_finalize`, `menu_is_visible`, check for recursion | parser, front ends |
| **symbols** `K/symbol.c` | per symbol: the user's value, the calculated one, visibility and dependencies, the flags VALID, WRITE, DEF_USER | `sym_calc_value`, the setters, ranges, choices, `sym_clear_all_valid` | files, front ends |
| **files** `K/confdata.c` | `.config`, `.config.old`, a defconfig, `auto.conf` and the generated header; the change counter | `conf_read`, `conf_write`, `conf_write_defconfig`, `conf_write_autoconf`, `conf_set_all_new_symbols` | make |
| **menuconfig, nconfig** `K/mconf.c`, `K/nconf.c` | a stack of screens, show-all, the name of the file | open, set, type, choose, search, load, save, exit | symbols, files |
| **conf** `K/conf.c` | mode, position in the tree, count of questions | twelve modes, from `oldconfig` to `randconfig` | user, files, make |
| **toolchain wrapper** `src/buildroot/toolchain/toolchain-wrapper.c` | the argument list | one pass of additions and checks | gcc |
| **makedevs** `src/buildroot/package/makedevs/makedevs.c` | the tree it works on, exit status | one line after the other | mkfs, fakeroot |

What makes these hard, and what correctness means for each:

* **share.**  The kernel lets a mounted block device be exported; console and host writing the
  same FAT destroys it.  The gadget is built by dozens of commands that nobody checks, and the
  host may eject the medium by itself.  Correct: one user at a time, an exit status that tells the
  truth, the update check not skipped.  Several processes call the script (menu, shell, rcK at
  shutdown) and no lock spans a whole command.
* **session.**  A shutdown involves the process that scheduled it, the program that is warned
  and saves, the launcher and login shell that clean up behind it, and init.  Correct: a saved
  game can be resumed and is resumed once, it is complete and on the card before the power
  goes, and a requested shutdown happens.
* **first_boot.**  Restartable partitioning: each stage infers from the card whether it is
  done.  Correct: it knows how to continue, what is missing when it ends is what a known
  failure or cut has left, and it does not format a partition with files of the user.
* **firmware update.**  The firmware is overwritten in place.  Several files may be
  there, swupdate may fail before, during and after the writing, and the menu restarts the
  console in the middle of its loop.  Correct: an interrupted update can be repeated, a
  half-written system is started only for a known reason, and the update ends.
* **low_bat_check.**  Noisy readings.  Correct: shutdown when, and only when, the battery is
  extremely low.
* **Kconfig.**  Values depend on each other through conditions, selects, choices and ranges,
  are calculated when somebody looks and remembered until somebody clears them; conditions are
  rewritten many times before that; and what the user sees travels through files that other
  runs, and make, read.  Correct: rewriting keeps the meaning, what is shown is what a fresh
  calculation gives, what was accepted is kept, a file is whole and says what was shown, and
  nothing that depends on a changed value stays uncompiled.
* **toolchain wrapper.**  It allocates for ten options of its own and decides which to add by
  what the caller gave.  Correct: they fit, they do not conflict, no directory of the build
  machine passes in silence.
* **makedevs.**  A line fails, is optional, or follows a link, and the next line goes on from
  there.  Correct: success means that every line is done, and nothing else was touched.

The hazards, each at its source line with the properties that would catch it, are under
`hazards` in `PROJECT.json`.

## 2. Modules

| Module | Models | Notes |
|---|---|---|
| `Share` | share, usb_gadget, adb, S10share | one step per external command that moves p7; the commands of the gadget one step per part they make, each of which may fail; `Callers` run scripts concurrently |
| `PartitionOwner` | what the share scripts promise | abstract: a resource with at most one user, handed over through "nobody" |
| `Session` | .profile, instant_play, frontend, pid, powerdown, launchers | processes as program counters; page cache and card are separate |
| `SavedGame` | what the session scripts promise | abstract: one saved game, whole and on the card before the end is announced, taken once |
| `FirstBoot` | first_boot, S01first_boot | card state survives power off, kernel state does not; any of fifteen commands may fail, noticed or not |
| `FirmwareUpdate` | recovery_mode, normal_mode, S60recovery, update_partition, menu entries, boot loader | partition numbers of the scripts are literal, those of the console are `card`, one of `Cards` |
| `LowBattery` | low_bat_check | the loop is one step, as it shares nothing it reads twice |
| `KconfigRules` | expr.c as operators on values, one node of a tree at a time | a tree is a tuple; copying and freeing do not show; the walk is a parameter, so that it can be proved about |
| `KconfigExpr` | the walks of expr.c | closes the recursion that `KconfigRules` leaves open; what walks two trees at once is here only |
| `KconfigRewrite` | the rewritings in any order | one state per expression reached |
| `KconfigMenu` | menu_finalize | from what the parser leaves to what the symbols get |
| `KconfigSymbol` | symbol.c | operators from one record `st` of all symbols to the next |
| `KconfigFiles` | confdata.c | lines of files, reading, writing, filling in |
| `KconfigDeps` | sym_check_deps, conf_parse | the search for recursions, with the marks it leaves |
| `FrontEnd` | what mconf.c and nconf.c share | variables, drawing, starting, setting, files, the end |
| `Mconf`, `Nconf` | the keys of each | one action per key |
| `Menuconfig` | composes the above; the properties | |
| `KconfigOutput` | the writing half of confdata.c, as steps on the files, with kills, a full disk and make | abstract in what was read, asked and calculated before |
| `KconfigConf` | conf.c | composes symbols, files, a user and the steps of `KconfigOutput` |
| `ToolchainWrapper` | toolchain-wrapper.c | one action per option that is added or checked |
| `MakeDevs` | makedevs.c | one action per kind of line |
| `HostTools` | either of the two | they share no state |
| `MC*` | | instances for TLC |
| `ShareProofs`, `SessionProofs`, `FirstBootProofs`, `FirmwareUpdateProofs`, `LowBatteryProofs`, `ToolchainWrapperProofs`, `MakeDevsProofs`, `KconfigProofs` | | proofs |

**History.**  Some variables belong to no code: they remember what a property has to except,
so that a run need not leave it out.  They are `ejected` (Share: the host has ejected the
medium), `failed` and `cutAt` (FirstBoot: which commands failed, before which steps the power
went), `left` (FirmwareUpdate: how installations ended before FunKey was whole), `missed` and
`late` (menuconfig and conf: a file that does not exist has been asked for, a forgotten value
has been typed again) and `cutoff` (KconfigOutput: which lines a full disk has cut off).  What
the code does depends on none of them.

A definition under a comment that begins with "mutant:" or "A mutant:" is a changed form of a
neighbour; it serves only to show that a property can be violated.

**State and actions of the scripts.**  The variables are the files, kernel objects and process
positions the scripts test; the comment at a VARIABLE names them.  A shell function is split
into actions at its external commands, because that is where another process, a failure or a
power cut can come in between: `start_share` is `Start_shared, Start_usb, Start_umount,
Start_write`; `instant_play save` is `Save_trunc, Save_trailer`; `powerdown_now` is `_sync,
_touch, _poweroff`.  A command that can fail has a disjunct for its failure, leading where the
script goes: to `die n`, or on, when the status is not looked at.

**State and actions of the host programs.**  `menuconfig` is single-threaded, so a key is one
step: what the setter does to the symbols *and* the drawing of the next screen, since drawing
calculates.  `st` holds exactly the fields of `struct symbol` that survive a call; most
operators take an `st` and return the one they leave, in the order in which the C code calls.
`conf` is split where the world can come in: at each question, and at each file operation.
Its position between two questions is a list `todo`, as the C code's position is its call stack.
The wrapper and makedevs are split at each option and each line.

**Two constants are operators.**  `sym_calc_value` and `expr_calc_value` call each other
through four files.  The operators take that recursion from the constant `Calc`, to which
every instance gives `CalcSymbol`; `Parse` likewise is `conf_parse` (`ConfParse`, or `Finalize`
where the check for recursion has no bearing).  Both are needed because TLC, when it collects
statistics, makes a copy of everything a definition calls for each place that calls it; a
closed recursion of that size exhausts its memory.  Helpers with parameters instead of local
names, and the LETs in the instances' constants, have the same reason.

**Abstractions.**  Messages and display are left out.  A saved command is `none`, `torn`, `plain`
or `opk`; a torn one may, when sourced, be empty, run its command in the foreground, or stop with
a syntax error.  A file system is absent, half-made or complete.  An update file is good, refused
at its header, or found corrupt when it is written; swupdate may also fail on a good one, at any
stage.  A generated file of Kconfig has its lines, and whether the disk had room for all.  Sizes
are two values.  The launcher of one emulator stands for all.  The commands that make or remove
one part of the USB gadget (its directory, functions, links, binding) are one step with every
outcome: all, some or none of them done.  A configuration file is the sequence of its assignments;
a string in it has its quotes and backslashes.  Numbers are literals with the value that strtoll
gives them in each base; a machine word has `HalfWord` values on each side of 0.  Memory
management, the gettext translation and the layout of screens and help texts are left out.  In the
wrapper an argument is an option with what is joined to it.  In makedevs a path is a name with or
without a number, a mode is a value, and the extended attribute of a file is the last one set.

## 3. Runs

| Run | Expect | What it shows |
|---|---|---|
| `share_serial` | pass | One caller, every failure, cable and host action, ejection included, every half-made gadget, power cycles: `Exclusive`, `ExitStatusTruthful`, `UpdateDetected` (one file), `HostKeepsMedium`, and the refinement `ImplementsOwnership`. |
| `share_race` | violation | Two callers: `ClearToShare` fails, rcK's `share stop` mounts between the umount and the export of `share start`. |
| `session_timely` | pass | Programs answer in time and shutdowns do not overlap, over any number of sessions, with a power cut at any step: `ResumedOnce` (the saved game is resumed once, with its OPK), and the refinement `ImplementsSavedGame`. |
| `session_crash` | pass | Overlapping requests, late answers, a power cut anywhere: `DurableSave`, `ShutdownHappens`, `BootReachesProgram`. |
| `first_boot` | pass | The GPT of the image, any two commands failing, and two power cuts at any step: `NeverStuck`, `Provisioned`, `UserFilesKept`, `SetupFinishes`. |
| `firmware_update` | pass | Three files of every kind, both cards of the repository, two failing commands, two power cuts, the Recovery menu: `NeverBootsTorn`, `GoodFileKept`, `AutomaticCompletes`. |
| `firmware_image` | violation | The partitions and environment of the T113 image: `UpdateCompletes` fails, FunKey and the update check restart each other for ever. |
| `low_battery` | pass | Any course of battery and charger, four wrong readings: `NoSpuriousShutdown`, `PromptShutdown`, `LowBatteryShutsDown`. |
| `kconfig_expr` | pass | Expressions rewritten in any order: `RewritesRight` (value kept, normal form reached, `expr_eq` and the removal of common operands justified, visibility kept), `ComparisonsRight` (`expr_trans_compare`, `expr_depends_symbol`, `expr_contains_symbol`), `TextRight` (printed text is read back with the same meaning, reverse dependencies stand under the right value). |
| `menuconfig` | pass | Both front ends, every key: `CacheFresh`, `AcceptedTakes`, `ValuesAllowed` (choices, ranges, dependencies), `MenusAsWritten` (conditions kept by menu_finalize, every visible prompt in reach, recursions reported exactly if there are any), `NoSilentLoss`, `NextStartAgrees`. |
| `kconfig_conf` | pass | Two runs of `conf`, a kill or a full disk at any file, builds in between: `ConfigSurvives`, `AutoConfSound` (auto.conf never ahead of the header and the list of tristates, and every object of another value compiled again), `RoundTrip` (of .config and defconfig), `ModesDeliver` (all*config reaches the extreme, the modes that ask come to an end), and the refinement `ImplementsOutput`. |
| `host_tools` | pass | The wrapper: `ArgsFit`, `CompatibleOptions`, `UnsafeNotSilent`.  makedevs: `EveryLineDone`, `OnlyWhatIsNamed`, `CapabilityOnItsFile`. |

Each violation is a finding in `PROJECT.json`, with the comment or README line that the code does
not keep.  Properties that are conjunctions have their parts defined, with a comment each, in
the same module.

**Bounds of the scripts.**  Two `Callers` are enough for a race between two commands, and every
pair of commands is tried.  `Scheds` is one process at a time with two requests per session: a
second request, after or (with `Overlap`) together with a shutdown of the program itself, is
covered; sessions are unbounded because the bound is reset at power off.  One power cut in
`session_crash` is followed by a complete further session.  In `first_boot` two failures and two
cuts give three starts: a stage can be interrupted, its repetition too, and the third start has to
cope; any of the fifteen commands may be the ones that fail (`AllCommands`).  `MaxFiles` 3 has a
file that is refused, one that is corrupt and one that is good in each order, and a stale list;
two failures are one of swupdate and one of what follows it (`rm`, `sfdisk`).  `MaxLevel` 7 has
every threshold with levels on both sides; `MaxGlitches` 4 is the most that the limit of five can
tolerate.

**Bounds of the host programs.**  `kconfig_expr`: a boolean, a tristate, an int and a hex
symbol, all leaves, their negations and pairs, triples and quadruples of fewer leaves: about
4500 expressions to start from.  Every joining rule of expr.c is about two operands, and
triples and quadruples bring the levels and the order in which pairs meet.  Numbers have 8
bits, so that there are literals on both sides of every limit.  `menuconfig`: seven Kconfig files
of at most seven symbols, each around one way in which values depend on each other (modules with
select and imply; a choice whose members come and go; a choice of tristates; ranges that move
with other numbers; menus, ifs, `visible if` and submenus within each other; two recursions),
each from no file and from files that agree or disagree with it; two changes (`MaxChanges`),
with any amount of looking around between them, one screen above the main menu (`MaxScreens`)
and the question or list above that.  Two changes are the least that can invalidate what the
first one left.  `kconfig_conf`: two runs (one writes, one reads what it wrote), all twelve
modes, five of the Kconfig files, and one fault: a kill between any two file operations, or a
full disk while `.config`, a defconfig or one of the generated files is written.
`host_tools`: every command line of up to three arguments of the kinds the wrapper
distinguishes, three builds with all optional additions, and all tables of up to three of
twenty lines over five trees (a third line is what a forgotten name needs; the fifth tree and
the twentieth line are what the proofs found missing, section 4).

**Fairness.**  Only what Linux schedules is fair: the login shell, a launcher, a save, each
powerdown process, init's poweroff and reboot (`Session`, `FirmwareUpdate`), the steps of
`first_boot` (its commands may still fail, up to the bound) and the loop of `low_bat_check`.  The
user, the host, the battery, the power button and a program that has been warned owe nothing;
`SetupFinishes` therefore assumes, in its own statement, that the console is switched off and on
again and again.  `Share` has none: a share command ends after a fixed number of commands.
Neither have the host programs: their user may stop at any question, and what they do alone is
bounded, which `ModesDeliver` states as an invariant on the number of passes.  Deadlock is checked
everywhere except in `low_battery` and `host_tools`, where programs end by design.

## 4. Proofs

The theorems hold for every value of the constants: any set of callers, any number of power
cuts, failures, shutdown requests, wrong readings, update files, arguments, lines of a table and
runs of `conf`.  Every safety property that a run checks of the scripts, of the wrapper and of
makedevs is proved, and of Kconfig what happens to the files, and for expressions of any depth
what the rewritings of expr.c do to their meaning.

* `ShareProofs!TypeCorrect`, `ExclusiveUse`, `TruthfulStatus`, `Refinement`.  `Exclusive` alone
  is not inductive: `share start` may be about to export, or `share stop` about to mount.
  `IInv` adds that whoever is about to export has unmounted (`ClearToShare`), whoever is about
  to mount has withdrawn the medium (`ClearToMount`), nothing is exported before init's lock
  (`BeforeInit`), and that a step belongs to its command (`StepOfCommand`).  These need the
  assumption `Serial`, that there is one caller, which the scripts do not enforce:
  `share_race` is the counterexample without it.  `Refinement` shows Init and every step of
  `Share` to be an Init and a step or stutter of `PartitionOwner`.
* `ShareProofs!ExclusiveIfApart`, `RefinementIfApart`, for any number of commands at the same
  time.  They assume only that no `share start` is about to export (`s_write`) while a `share
  stop` is between the eject and the mount (`Apart`).  `share_race` is thus the one race there
  is: a lock around those two sections would be enough, and all else, `adb start` and `stop`
  included, may overlap.  The invariant adds that init runs alone until the console is up
  (`InitAlone`).  `Refinement` is the case of one caller.
  What the gadget is made of matters to none of them: a step of the gadget neither mounts nor
  exports (`GadgetMoves`, `GadgetParts`).
* `ShareProofs!MediumKept`, `UpdateFound`.  The first holds for any callers at the same time,
  and for `share init` as well, which builds the gadget: what the host has mounted is exported
  by a storage function that is there, in a gadget whose directory exists, which is bound and
  has the function linked (`MediumServed`), and an existing gadget is not built again.  The
  second needs `Serial` and a single update file.
* `SessionProofs!TypeCorrect`, `SavedGameDurable`, without assumptions.  What is saved is
  complete when its process syncs, because nobody but the login shell at its start touches the
  file, and no game runs then (`UnderShell`, `SavedFirst`, `MovedFirst`).
* `SessionProofs!SavedGameResumed`.  It assumes `Timely`: one shutdown at a time, answers in the
  grace period.  Sessions, requests and power cuts are unbounded.  The invariant says that one
  process shuts down (`OneShutdown`), that a file is half-written only while its game writes it
  or after a cut has come in the middle (`WholeFile`), that nothing else is written after the
  game (`SavedLast`), and that, if there was no cut, `last_opk` is there from the start of a
  game to the end of its shutdown (`OpkNamed`).
* `SessionProofs!Refinement`, under `Timely` as well: every step of the scripts is a step of
  `SavedGame` or none that it sees.  The mapping is in `Session`: a game plays until its
  process has left or has saved, the end is announced by `/run/rebooting`, which `powerdown now`
  touches after its sync, and what the login shell has moved away but not yet sourced is the
  game it is about to resume.  That the mapped file is on the card by the announcement, which
  several commands of two processes establish, is `SavedLast` and the durability invariant.
* `FirstBootProofs!TypeCorrect`, `SetupComplete`, `SetupNotStuck`, `UserFilesSafe`, without
  assumptions: any command may fail, any number of times, and the power may go at any step.  The
  invariant says that what is on the card is there in the order of the stages
  (`StagesInOrder`), that the position in the script implies the earlier stages
  (`StepsInOrder`), that what the kernel uses is on the card (`VolatileBacked`), that
  `first_boot_ok` is the last (`OkMeansDone`), and that every gap in what has been done comes
  from a failure or a cut at its place (`GapsKnown`).  A complete p7 is mounted by the start
  unless `mount -a` has failed (`GoodMounted`), so that a p7 that is formatted is one that the
  same start has created (`FormatsNew`).
* `FirmwareUpdateProofs!TypeCorrect`, `UpdateRepeats`, `GoodFileSafe`, for files of every kind,
  failures of swupdate, rm and sfdisk included, on every card.  `CardsAssumption` says only
  that a boot loader that follows the mark finds Recovery on p1 and FunKey on p2; a card on
  which it is not followed may have any partitions.  Every half-written FunKey is explained
  (`TornExplained`): it is being written, or `left` names the cut, failure or restart that it
  comes from.  The automatic update asks for no restart before its loop is done
  (`AutomaticQuiet`), and each step knows what it needs of its file (`StepKnows`).
* `LowBatteryProofs!TypeCorrect`, `ShutdownPrompt`, `ShutdownJustified`.  The invariant
  `CountRight` compares the count with the readings: it is at least the number of right
  readings of an extremely low battery since the last reset, at most the number of wrong ones
  while no extremely low level has been read, and below the limit exactly while the daemon
  runs.  `ShutdownJustified` assumes `MaxGlitches < MAX_LOW_BAT_COUNT`; five wrong readings do
  shut the console down, since the count is not reset at levels of 3 to 5 percent.
* `ToolchainWrapperProofs!WrapperArgsFit`.  The invariant `WInv` bounds, for each step of main,
  how many of its ten places it may have used.  Eleven options can be added, one by one: they
  fit only because a float ABI and an FP32 mode exclude each other, which the build system sees to
  and `WrapperAssumption` says.
* `ToolchainWrapperProofs!WrapperOptionsCompatible`.  `OptionsInv` says of every option that main
  has written in front of the caller's that it is `Justified`: the caller gave nothing that
  excludes it (`-pie`, for one, stands only where no option against it and no `-shared` was
  given).  It also says that `-pie` stands only with an option for position-independent code,
  the wrapper's or the caller's, and `-D__DATE__=` only with `-Wno-builtin-macro-redefined`.
  The property is about the moment of the exec alone; the invariant makes it hold step by step.
* `ToolchainWrapperProofs!WrapperUnsafeNotSilent`, for command lines of any length.  The loop
  skips the argument after an option that waits for its directory, and `Operand`, which says
  what belongs to which option, is recursive along the command line.  `WarnedInv` ties the two:
  the loop waits for a word exactly where `Operand` says that the word belongs to the option
  before (`OperandIsAwaited` unfolds it one place at a time), and every directory in front of the
  loop has been warned of.  It rests on the empty word not being an unsafe one, which
  `WrapperAssumption` says, and the prefixes in `unsafe_paths` imply.
* `MakeDevsProofs!DevsTypeCorrect`, `DevsOnlyWhatIsNamed`, `DevsCapabilityOnItsFile`,
  `DevsEveryLineDone`, for every table and tree that `DevsAssumption` calls one.  First the
  operations on a tree (`SetOwnerDoes`, `MakeDirectoryDoes`, `WalkDoes`, `NodePaths`), then one
  statement of what any entry does (`Enters`): it changes what it is about or a link there leads
  to, makes directories on the way, and if it does not note a failure, it has done what the line
  says (`Achieves`).  There is one lemma for each kind of line.  The invariants are then about
  lines only: full_name is that of the last entry (`FileInv`); a capability's own line is above it
  (`CapabilityInv`); what was there is there (`AliveInv`); and while nothing has failed, each
  line read is done for everything that no later line is about (`DoneInv`).  That a file never
  changes its kind, and no link is ever made (`Keeps`), carries all of them from line to line.
* `KconfigProofs!OutputAutoConfSound`, with any number of kills and full disks, at the
  generated files as well, and without assumptions.  `ListedRight`: what a run is about to
  generate is what `.config` says, and each file that is renamed is that, or the part of it
  that the disk had room for.  `TouchedFirst`: what differs from auto.conf has been touched or
  is still to be, until auto.conf is replaced, or has been cut off from it (`cutoff`).  What it
  says of a full disk is what there is to say: nobody looks at `fclose`, so a cut auto.conf is
  newer than `.config` and make does not notice; it never lists anything that `.config` does
  not, and a line that was cut off is the only reason for a stale object.  A list made with
  an answer that came too late for `.config` (section 5) is excepted, and marked as such.
* `KconfigProofs!OutputConfigSurvives`.  `Forgiving` assumes that the disk is never full,
  then there may be any number of kills; or that there is one fault of either kind.  The
  invariant is that every file is whole (`Intact`), or that the one fault has been used up
  by a file that takes the place of one that has moved to `.config.old` (`CutOff`).

These two are about `KconfigOutput`, which declares the files and the steps that write them;
`KconfigConf` extends it and takes its own steps from it, so that its run checks the same
`ConfigSurvives` and `AutoConfSound`.  `OutputSpec` leaves open what is read, asked and calculated,
but for one thing: what `conf_split_config` compares is what `.config` stands for
(`Lists`).  That `KconfigConf` keeps this, and touches no file otherwise, is what TLC checks as
`ImplementsOutput`; it takes the whole engine.

The other theorems of `KconfigProofs` are about expr.c, for expressions of any depth:

* `TransformKeepsValue`, `EliminateYNKeepsValue`: the value is kept, in every configuration.
  `TransformSettles`: a second call changes nothing, on which menu_finalize relies when it
  rewrites the same condition again and again.
* `TransBoolKeepsVisibility`: after `expr_transform`, `expr_trans_bool` may make m of y, but n
  stays n and nothing else becomes n.
* `JoinOrKeepsValue`, `JoinAndKeepsValue`: whenever two operands become one, that one has the
  value of both.  The second assumes `NoNumerals`, see below.
* `TransCompareRight`: what stands for "e = y", "e != n" and so on is y exactly where the
  comparison holds.  Nothing may be m (`expr_trans_compare` does not know m: its use is for
  booleans), and only booleans and tristates may stand alone (`OverTristates`).
* `ContainsSymbolRight`, `DependsSymbolRight`: what does not contain a symbol does not change
  with it; what depends on it is n while it is.

What a recursive function computes for every tree takes an induction over trees.  The walk is
therefore a parameter: `KconfigRules` says what a function does at one node, given what it does
below, and a theorem is about every function that satisfies this equation at every expression
(`Transforms`, `Eliminates`, `Computes` and the like), as the C function does.  `Expressions(E,
size)` says what the expressions are: a set that consists of the leaves and of what the
operators make of its members, each of which has a size, like the set of all finite trees.
`ExpressionInduction` follows from the well-foundedness of the numbers; it takes the *set* of
the good expressions, since a theorem cannot take an operator here.  The size is chosen so that
it decreases along the calls of `expr_transform`, which calls itself on `!a && !b` for
`!(a || b)` and so not on a part of its argument: `!` doubles the size.
`IsValuation` allows the values that `sym_calc_value` leaves (`symbol.c:442`): a tristate, no m
for a boolean, none while modules are off; any literal for a string or number.

`KconfigExpr` gives the same rules a RECURSIVE walk, with which TLC checks `RewritesRight` and
`ComparisonsRight`; a theorem cannot name these two, as the prover accepts no RECURSIVE operator.

**What the proofs found.**  `expr_join_and` does not always keep the value.  For a tristate,
`(a = b) && (a != c)` with constants b and c becomes `a = b` if b and c differ as *symbols*
(`expr.c:516`), but the comparison is by *number* where both sides have one, and "n" is 0: `T =
0 && T != n` becomes `T = 0`, which is y where T is n.  It takes a quoted number in a comparison
with a tristate; Buildroot's own Kconfig files compare only strings and numbers with numbers.
`JoinAndKeepsValue` excludes it (`NoNumerals`), and so does the run by its expressions.  In the
model, two CASEs had guards that overlap (`TransformComp`, `JoinedAnd`); TLC takes the first that
holds, as the C code does, but the definition did not say so.  The guards exclude each other now.

Two properties of makedevs, as first stated, held on the instance and
not in general.  An optional file (type F) may be missing when its line is read and a directory
be made in its place by a later line, so `EveryLineDone` has to exempt what is no file, not only
what is absent.  And capabilities after a line with a count go to the plain name, which that line
does not make: `OnlyWhatIsNamed` has to allow it (`Named`).  The properties say so now, and the
instance has a line and a tree that show the first.

**Only model-checked.**  Every liveness property (`ShutdownHappens`, `BootReachesProgram`,
`SetupFinishes`, `AutomaticCompletes`, `LowBatteryShutsDown`), since fairness and ENABLED are out
of the prover's reach.  Of `kconfig_expr`: `expr_eq`, the removal of common operands
(`expr_eliminate_eq`, `expr_eliminate_dups`) and printing, which walk lists of operands that
they change on the way; the theorems cover what they do with two operands.  `menuconfig`, and of
`kconfig_conf` `RoundTrip`, `ModesDeliver` and `ImplementsOutput`: they are about what the
recursive operators of the engine compute for menus and symbols that refer to each other, where
no size decreases and the code itself stops by flags.

## 5. What the models show besides the runs

Seen while modelling, in the model, and not the subject of a run.

The scripts:

* `first_boot:39` tests the size of p5 only.  If sfdisk fails, or the power goes after
  fdisk, the bootable mark is never set again (`active` stays FALSE).
* `first_boot:142` looks for "W95 FAT32", which fdisk does not print for a GPT, and the card has
  one: a p7 that exists is seen only if it is mounted.  A mkfs that fails, or a cut before its
  end, thus makes every later start die with 13, or, if the half-made file system mounts,
  take it for complete (`:184`): `usbFmt` stays `torn`.  `SetupFinishes` names this as
  `CannotGoOn`.
* `first_boot:55`: an fdisk that fails unnoticed leaves the root small; the swap partition that
  is then created behind it keeps it so, and later starts die with 4.
* `first_boot:204`, `:209`: the status of unzip and cp is not looked at, nor that of fw_setenv.
* `first_boot:84` dies between `rw` and `ro` and leaves the root writable (`rootRw`).
* `share:55`: with two update files `[ -f /mnt/FunKey-*.fwu ]` is a syntax error, and neither is
  found (`UpdateFileFound`).
* `share:90`: with the adb gadget, or none, `share stop` is refused with the message that the
  host has the partition; after a failed `share start` in that mode `/mnt` stays unmounted.
* `usb_gadget`: the status of no command is looked at, and an existing directory is taken for
  a gadget (`Gadget_check`).  A gadget whose storage function is there but not linked lets `share
  start` succeed although no host will see the medium; `adb start` and `stop` keep what a
  half-done removal has left.
* After an eject by the host the partition is used by nobody until `share stop` mounts it; a
  `share start` before that fails at its umount.
* `powerdown:32`: an answer after the grace period does not stop a poweroff that has been issued,
  which cuts the save off (`Late`).
* `nes_launch.sh:8`, `frontend:107`: the launcher of a game overwrites and erases the one pid
  file, and the frontend is not warned of a later shutdown.
* `instant_play:96`: a resumed gpSP plays with `/etc/asound.conf` moved away.  At a shutdown `ro`
  comes before the move back, which then fails.  If the game has saved, it is resumed and the
  file comes back when the user leaves it; if it has not, the file stays away.
* `S60recovery:20`: the file is removed and FunKey marked whatever swupdate returned.  A file
  with a good header and a corrupt payload, or a good file whose installation fails, has
  destroyed p2 by then, and `normal_mode` starts it; `GoodFileKept` and `NeverBootsTorn` name the
  failure as the one exception.
* `menu:143`: the Recovery menu calls `reboot` in the middle of its loop and goes on to the next
  file with FunKey marked, so init may end the session in the middle of an installation.
* `recovery_mode:2`, `normal_mode`: the status of sfdisk is not looked at.  Without the mark
  the console restarts into the system that it comes from and tries again.
* No image of the repository does the whole hand-over.  `genimage-prod.cfg` has Recovery on p1
  and FunKey on p2, and its comment a share on p4, which Recovery mounts, but FunKey mounts p7
  and never sees a file there: an update starts only with Fn and Start held.  The T113 image
  has p7, but the mark is not followed (`firmware_image`).
* `low_bat_check:90` counts wrong readings although line 56 knows them to be wrong.

Kconfig:

* `confdata.c:413` resets the change counter before it is known whether the file opens.  After a
  try to load a missing file (`mconf.c:918`) the menus end without asking to save
  (`mconf.c:964`): `missed`, the one exception of `NoSilentLoss` and `NextStartAgrees`.
* A string that conf_read has read and reset can be typed again as it was: it is accepted
  (`symbol.c:713`), and nothing is calculated anew, so the value shown stays the old one until
  something else is set: `late`, which `CacheFresh` and `AcceptedTakes` take into account.  In
  `conf` that something comes after `.config` is written: `.config` gets the old value,
  `auto.conf` and the header, for which everything is calculated again (`confdata.c:987`), the
  typed one.
* A choice of tristates that is set to y falls back to m when a visible member has no answer.
* After a rename that fails, conf_write has cleared the WRITE flags: a second save writes an empty
  file and reports success.  A full disk is not noticed, in `.config` as in `auto.conf`: the file
  is cut off and renamed, the exit status 0, and make takes a cut `auto.conf` for new.
  (`.config.old` keeps what was there before.)
* A kill between the two renames leaves no `.config`; the next run starts from the defaults, and
  its save leaves `.config.old` alone, so that kills alone never lose it (`OutputConfigSurvives`).
  A full disk and then a kill in the next run's save do: `.config.old` is then the file that was
  cut off.  conf_write_defconfig writes in place.
* Recursive dependencies are printed and nothing more; those through imply and through the
  limits of ranges are not found.  An imply may lead to a value above what the dependencies
  allow, where that is m.
* With show-all, invisible strings and numbers can be typed; the value waits until the symbol
  is visible.  nconf's show-all draws values that have not been calculated again.
* nconf ends even if saving has failed.
* `expr_join_and` raises the value of `T = 0 && T != n` (`expr.c:516`): see the end of section 4.
* `conf` asks for a number without a default for ever when its input has ended.
* The comment at `expr.c:391` ("bool FOO!=n => FOO") speaks of a bool; the code rewrites
  tristates, and where FOO is m the value goes from y to m.  Visibility is kept, which
  `kconfig_expr` checks.

The host programs:

* The list at `toolchain-wrapper.c:45` leaves `-mfp` out: see the proof above.
* `-I -L -I/usr/include`: the wrapper takes `-L` for the directory of `-I` and looks no
  further at either.
* makedevs: a line of type d over a file that is there ends with status 0; a new directory with
  the mode -1 gets 7777, missing parents 0777; a count of 1 makes a node without a number; a
  node that is there already is an error, with no owner or mode set; fields that are missing leave
  the buffers for user and group as they were; a recursive line follows an absolute link out of
  the tree, ends at one that leads nowhere, and (on Linux, not under fakeroot) clears the
  set-user-ID bits and capabilities if its mode is -1; an optional file that is missing,
  followed by its capabilities, ends the program.  `package/makedevs/README:20` has hda[0-15]
  where the usage text has hda[1-15].

## 6. Not modelled

* Vendored and generated code: Buildroot's make rules and packages, kernel and boot loader
  patches, device trees, configurations, artwork.  Binaries in the overlay (`showmsg`,
  `brightness`, `mypoweroff.ko`).  fkgpiod, the frontends and the emulators are built from other
  repositories; the models know them only by what the scripts do with them.
* Recovery's copies of share and powerdown, the key loop of its menu, notif, system_stats,
  volume, brightness, snapshot, keymap, and rw/ro with asound.conf: small setters without
  state of their own, or copies of what is modelled.
* Kconfig: scanner and grammar; the warnings of sym_check_prop; hash table and search by regular
  expression; `KCONFIG_OVERWRITECONFIG` (writes in place) and `KCONFIG_ALLCONFIG`; the output
  of listnewconfig; single_menu_mode; the SIGINT handler of mconf, which may save in the middle of
  a calculation; the widgets of lxdialog; the translation; xconfig and gconfig, which
  are event handlers of Qt and GTK over the same symbols.
* Small tools of Buildroot's packages, and the assembly tests.

## 7. Plan

Done: share and session, each with its abstract specification and proofs; first_boot, firmware
update and low battery with proofs; the Kconfig engine and three of its front ends, with the
files of conf and the rewritings of expressions proved; the toolchain wrapper and makedevs with
proofs.
In this order:

1. `/etc/asound.conf` and the read-only root as a component shared by Session and FirstBoot.
2. A composition of Share, Session and LowBattery on the one thing they share, `/mnt`: a game
   is saved while the partition is exported, `powerdown schedule` while `share start` runs.
3. The whole Recovery menu with Recovery's share; notif's message replacement; volume and
   brightness steps; keymap; snapshot numbering.
4. `menuconfig` as a second implementation of the first half of `KconfigOutput`: it saves with
   the same `conf_write`.

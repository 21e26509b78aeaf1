---------------------------- MODULE ToolchainWrapper ----------------------------
(***************************************************************************)
(* The program that stands in for every compiler of the toolchain          *)
(* (buildroot/toolchain/toolchain-wrapper.c): it puts options of the       *)
(* target before those it was called with, warns of paths of the build     *)
(* machine, and becomes the real compiler.                                 *)
(*                                                                         *)
(* An argument is [opt, rest]: an option and what is written right behind  *)
(* it, or None and a word that is no option.  The options that depend on   *)
(* nothing are the constant Fixed.                                         *)
(***************************************************************************)
EXTENDS Integers, Sequences

CONSTANTS
    CommandLines,  \* what the wrapper may be called with: sequences of arguments
    Builds,        \* how it may have been compiled
    Fixed,         \* predef_args
    UnsafeWords,   \* the words that begin with one of unsafe_paths
    None           \* no option

VARIABLES
    argv,      \* argv[1..argc-1]
    build,     \* [floatabi, fp32, arch, cpu, date, pie, relro]
    env,       \* [epoch, paranoid]
    step,      \* where main stands
    out,       \* args, up to cur
    at,        \* i and opt of the search for unsafe paths
    warned     \* the places in argv of the paths warned of

wvars == <<argv, build, env, step, out, at, warned>>

\* EXCLUSIVE_ARGS.
ExclusiveArgs == 10

\* The code that is compiled for a target sets either a float ABI or an FP32
\* mode: the first is ARM's and C-SKY's, the other MIPS'.
ASSUME WrapperAssumption ==
    /\ \A line \in CommandLines : line \in Seq([opt : STRING \cup {None}, rest : STRING])
    /\ Fixed \in Seq([opt : STRING \cup {None}, rest : STRING])
    /\ \A b \in Builds :
          /\ {b.floatabi, b.fp32, b.arch, b.cpu, b.date, b.pie} \subseteq BOOLEAN
          /\ b.relro \in {"none", "partial", "full"}
          /\ ~(b.floatabi /\ b.fp32)
    /\ "" \notin UnsafeWords

Opt(o) == [opt |-> o, rest |-> ""]
Places == 1 .. Len(argv)
Given(opts) == \E i \in Places : argv[i].opt \in opts

Go(s, t, added) ==
    /\ step = s
    /\ step' = t
    /\ out' = out \o added
    /\ UNCHANGED <<argv, build, env, at, warned>>

If(condition, args) == IF condition THEN args ELSE <<>>

-----------------------------------------------------------------------------

FloatOptions == {"-mfloat-abi=", "-msoft-float", "-mhard-float"}
AddFloatAbi ==
    Go("floatabi", "fp32", If(build.floatabi /\ ~Given(FloatOptions), <<Opt("-mfloat-abi=")>>))

\* The last of the two options counts.
SoftFloat ==
    \E i \in Places :
        /\ argv[i].opt = "-msoft-float"
        /\ \A j \in i .. Len(argv) : argv[j].opt # "-mhard-float"
AddFp32Mode ==
    Go("fp32", "arch", If(build.fp32 /\ ~SoftFloat, <<Opt("-mfp")>>))

MachineOptions == {"-march=", "-mtune=", "-mcpu="}
AddArch ==
    Go("arch", "date",
       If(~Given(MachineOptions),
          If(build.arch, <<Opt("-march=")>>) \o If(build.cpu, <<Opt("-mcpu=")>>)))

\* parse_source_date_epoch_from_env: a bad time ends the program.
AddDate ==
    /\ build.date => env.epoch # "invalid"
    /\ Go("date", "pie",
          If(build.date /\ env.epoch = "valid",
             <<Opt("-D__TIME__="), Opt("-D__DATE__="), Opt("-Wno-builtin-macro-redefined")>>))

BadDate ==
    /\ build.date /\ env.epoch = "invalid"
    /\ Go("date", "exit", <<>>)

KernelOptions == {"-D__KERNEL__", "-D__UBOOT__"}
NoPieOptions == {"-r", "-Wl,-r", "-static", "-fno-pie", "-fno-PIE", "-no-pie"} \cup KernelOptions
PicOptions == {"-fpie", "-fPIE", "-fpic", "-fPIC"}

\* Mutant: a shared library is linked as a program.
AddPieAlways ==
    Go("pie", "relro",
       If(build.pie /\ ~Given(NoPieOptions),
          If(~Given(PicOptions), <<Opt("-fPIE")>>) \o <<Opt("-pie")>>))

AddPie ==
    Go("pie", "relro",
       If(build.pie /\ ~Given(NoPieOptions),
          If(~Given(PicOptions), <<Opt("-fPIE")>>) \o If(~Given({"-shared"}), <<Opt("-pie")>>)))

Relro ==
    CASE build.relro = "none" -> <<>>
      [] build.relro = "partial" -> <<Opt("-Wl,-z,relro")>>
      [] build.relro = "full" -> <<Opt("-Wl,-z,now"), Opt("-Wl,-z,relro")>>
\* Mutant: each of the options twice.
AddRelroTwice == Go("relro", "paths", If(~Given(KernelOptions), Relro \o Relro))
AddRelro == Go("relro", "paths", If(~Given(KernelOptions), Relro))

-----------------------------------------------------------------------------
(* The search for paths of the build machine.                              *)

\* unsafe_opts.
PathOptions == <<"-I", "-idirafter", "-iquote", "-isystem", "-L">>

\* check_unsafe_path of the argument at i, in the word; then the search goes on
\* at next, with the options from that place on.
CheckWord(i, word, next, from) ==
    LET unsafe == word \in UnsafeWords
    IN  /\ warned' = IF unsafe THEN warned \cup {i} ELSE warned
        /\ step' = IF unsafe /\ env.paranoid THEN "exit" ELSE "paths"
        /\ at' = [i |-> next, opt |-> from]
        /\ UNCHANGED <<argv, build, env, out>>

Matches(k) ==
    /\ step = "paths" /\ at.i \in Places
    /\ k >= at.opt /\ argv[at.i].opt = PathOptions[k]

Word(i) == IF i \in Places /\ argv[i].opt = None THEN argv[i].rest ELSE ""

\* The path is written behind the option, ...
CheckJoined ==
    \E k \in 1 .. 5 :
        /\ Matches(k) /\ argv[at.i].rest # ""
        /\ CheckWord(at.i, argv[at.i].rest, at.i + 1, 1)

\* Mutant: only paths that are written behind the option.
CheckNothing ==
    \E k \in 1 .. 5 :
        /\ Matches(k) /\ argv[at.i].rest = ""
        /\ CheckWord(at.i + 1, "", at.i + 1, k + 1)

\* ... or it is the next argument, which is then taken for one of the options
\* that are left.
CheckSeparate ==
    \E k \in 1 .. 5 :
        /\ Matches(k) /\ argv[at.i].rest = ""
        /\ CheckWord(at.i + 1, Word(at.i + 1), at.i + 1, k + 1)

SkipArgument ==
    /\ step = "paths" /\ at.i \in Places
    /\ \A k \in 1 .. 5 : ~Matches(k)
    /\ CheckWord(at.i, "", at.i + 1, 1)

\* The arguments of the caller follow the others; execv.
Execute ==
    /\ at.i > Len(argv)
    /\ Go("paths", "exec", argv)

-----------------------------------------------------------------------------

WrapperInit ==
    /\ argv \in CommandLines
    /\ build \in Builds
    /\ env \in [epoch : {"unset", "valid", "invalid"}, paranoid : BOOLEAN]
    /\ step = "floatabi"
    /\ out = Fixed
    /\ at = [i |-> 1, opt |-> 1]
    /\ warned = {}

WrapperNext ==
    \/ AddFloatAbi \/ AddFp32Mode \/ AddArch \/ AddDate \/ BadDate \/ AddPie \/ AddRelro
    \/ CheckJoined \/ CheckSeparate \/ SkipArgument \/ Execute

WrapperSpec == WrapperInit /\ [][WrapperNext]_wvars

-----------------------------------------------------------------------------
(* Properties.                                                             *)

\* What main has written never exceeds what it has allocated for: the fixed
\* arguments, argc, and ten.  The last place is the NULL at the end.
ArgsFit ==
    LET allocated == Len(Fixed) + (Len(argv) + 1) + ExclusiveArgs
    IN  Len(out) + (IF step = "exec" THEN 1 ELSE 0) <= allocated

RelroOptions == {"-Wl,-z,now", "-Wl,-z,relro"}

\* What gcc refuses next to each other, or takes to mean something else.
Conflicts ==
    {{o, p} : o \in FloatOptions, p \in FloatOptions}
      \cup {{o, p} : o \in MachineOptions, p \in MachineOptions}
      \cup {{"-pie", p} : p \in NoPieOptions \cup {"-shared"}}
      \cup {{"-fPIE", p} : p \in NoPieOptions \cup PicOptions}
      \cup {{"-mfp", "-msoft-float"}}
      \cup {{p, o} : p \in RelroOptions, o \in KernelOptions}

\* No option the wrapper adds conflicts with one it was called with, unless a
\* later one has taken that back (-mhard-float after -msoft-float); a program
\* is linked as position independent only if it is compiled so; the macros for
\* the date come with the option that allows it.
Own == SubSeq(out, Len(Fixed) + 1, Len(out) - Len(argv))
CompatibleOptions ==
    step = "exec" =>
        LET own == {Own[i].opt : i \in DOMAIN Own}
            given == {argv[i].opt : i \in Places}
        IN  /\ \A o \in own, p \in given :
                  {o, p} \in Conflicts => p = "-msoft-float" /\ ~SoftFloat
            /\ "-pie" \in own => (own \cup given) \cap PicOptions # {}
            /\ "-D__DATE__=" \in own => "-Wno-builtin-macro-redefined" \in own

\* The directories as gcc reads the command line: an option without its
\* directory takes the next argument, whatever that is.
TakesPath(i) == \E k \in 1 .. 5 : argv[i].opt = PathOptions[k]
Bare(i) == TakesPath(i) /\ argv[i].rest = ""
Operand[i \in Places] == i > 1 /\ Bare(i - 1) /\ ~Operand[i - 1]
Directories ==
    {i \in Places : /\ argv[i].rest \in UnsafeWords
                    /\ IF Operand[i] THEN argv[i].opt = None ELSE TakesPath(i)}

\* No directory of the build machine gets to the compiler without a warning,
\* and none at all if the build is paranoid.  (Not so if one of the options
\* without its directory is followed by another.)
UnsafeNotSilent ==
    step = "exec" /\ ~(\E i \in Places \ {1} : Bare(i - 1) /\ Bare(i)) =>
        Directories \subseteq warned /\ (env.paranoid => Directories = {})

=============================================================================

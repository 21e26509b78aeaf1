------------------------- MODULE ToolchainWrapperProofs -------------------------
(***************************************************************************)
(* What holds of the wrapper whatever it is called with and however it was *)
(* built: the array that it allocates is large enough, the options it adds *)
(* go with those it was called with, and no directory of the build machine *)
(* gets to the compiler without a warning.                                 *)
(***************************************************************************)
EXTENDS ToolchainWrapper, SequenceTheorems, TLAPS

Theirs == [opt : STRING \cup {None}, rest : STRING]
Added == {"-mfloat-abi=", "-mfp", "-march=", "-mcpu=", "-D__TIME__=", "-D__DATE__=",
          "-Wno-builtin-macro-redefined", "-fPIE", "-pie", "-Wl,-z,now", "-Wl,-z,relro"}

\* What args may hold: what the wrapper was called with, and its own options.
Arg == Theirs \cup {Opt(x) : x \in Added}

\* A piece of args with at most n places.
Short(s, n) == s \in Seq(Arg) /\ Len(s) \in Nat /\ Len(s) <= n

\* The inductive invariant: how many of the exclusive arguments main may have
\* added at each of its steps.  The first two of them exclude each other.
Filled(n) == Len(out) <= Len(Fixed) + n
WInv ==
    /\ argv \in Seq(Arg)
    /\ out \in Seq(Arg)
    /\ build \in Builds
    /\ step \in {"floatabi", "fp32", "arch", "date", "pie", "relro", "paths", "exit", "exec"}
    /\ step = "floatabi" => Filled(0)
    /\ step = "fp32" => Filled(IF build.floatabi THEN 1 ELSE 0)
    /\ step = "arch" => Filled(1)
    /\ step = "date" => Filled(3)
    /\ step = "pie" => Filled(6)
    /\ step = "relro" => Filled(8)
    /\ step \in {"paths", "exit"} => Filled(10)
    /\ step = "exec" => Filled(10 + Len(argv))

-----------------------------------------------------------------------------
(* Pieces of the command line.                                             *)

LEMMA Options == \A x \in Added : Opt(x) \in Arg
BY DEF Arg

LEMMA Empty == Short(<<>>, 0)
BY DEF Short

LEMMA Single == ASSUME NEW a \in Arg PROVE Short(<<a>>, 1)
BY DEF Short

LEMMA Joined ==
    ASSUME NEW s, NEW t, NEW m \in Nat, NEW n \in Nat, Short(s, m), Short(t, n)
    PROVE  Short(s \o t, m + n)
BY DEF Short

LEMMA Widen == ASSUME NEW s \in Seq(Theirs) PROVE s \in Seq(Arg) /\ Len(s) \in Nat
<1>1. Theirs \subseteq Arg
  BY DEF Arg
<1>2. QED
  BY <1>1

LEMMA FixedIsSeq == Fixed \in Seq(Arg) /\ Len(Fixed) \in Nat
BY WrapperAssumption, Widen DEF Theirs

LEMMA BuildFacts ==
    ASSUME WInv
    PROVE  ~(build.floatabi /\ build.fp32) /\ build.relro \in {"none", "partial", "full"}
BY WrapperAssumption DEF WInv

\* What a step of the first part of main writes.
LEMMA GoWrites ==
    ASSUME WInv, NEW s, NEW t, NEW n \in Nat, NEW added, Short(added, n), Go(s, t, added)
    PROVE  /\ out' \in Seq(Arg)
           /\ Len(out) \in Nat /\ Len(out') \in Nat
           /\ Len(out') <= Len(out) + n
           /\ step = s /\ step' = t /\ argv' = argv /\ build' = build
<1>1. out \in Seq(Arg) /\ out' = out \o added
  BY DEF WInv, Go
<1>2. QED
  BY <1>1 DEF Go, Short

-----------------------------------------------------------------------------
(* The invariant.                                                          *)

LEMMA WInitInv == WrapperInit => WInv
<1> SUFFICES ASSUME WrapperInit PROVE WInv
  OBVIOUS
<1>1. argv \in Seq(Arg) /\ build \in Builds
  BY WrapperAssumption, Widen DEF WrapperInit, Theirs
<1>2. out = Fixed /\ step = "floatabi"
  BY DEF WrapperInit
<1>3. QED
  BY <1>1, <1>2, FixedIsSeq DEF WInv, Filled

LEMMA WNextInv == WInv /\ [WrapperNext]_wvars => WInv'
<1> SUFFICES ASSUME WInv, [WrapperNext]_wvars PROVE WInv'
  OBVIOUS
<1> USE FixedIsSeq
<1>1. CASE AddFloatAbi
  <2> DEFINE added == If(build.floatabi /\ ~Given(FloatOptions), <<Opt("-mfloat-abi=")>>)
  <2>1. Opt("-mfloat-abi=") \in Arg
    BY Options DEF Added
  <2>2. Short(added, IF build.floatabi THEN 1 ELSE 0)
    BY <2>1, Single, Empty DEF If, Short
  <2>3. Go("floatabi", "fp32", added)
    BY <1>1 DEF AddFloatAbi
  <2> HIDE DEF added
  <2>4. QED
    BY <2>2, <2>3, GoWrites DEF WInv, Filled
<1>2. CASE AddFp32Mode
  <2> DEFINE added == If(build.fp32 /\ ~SoftFloat, <<Opt("-mfp")>>)
  <2>1. Opt("-mfp") \in Arg
    BY Options DEF Added
  <2>2. Short(added, IF build.floatabi THEN 0 ELSE 1)
    BY <2>1, Single, Empty, BuildFacts DEF If, Short
  <2>3. Go("fp32", "arch", added)
    BY <1>2 DEF AddFp32Mode
  <2> HIDE DEF added
  <2>4. QED
    BY <2>2, <2>3, GoWrites DEF WInv, Filled
<1>3. CASE AddArch
  <2> DEFINE arch == If(build.arch, <<Opt("-march=")>>)
             cpu == If(build.cpu, <<Opt("-mcpu=")>>)
             added == If(~Given(MachineOptions), arch \o cpu)
  <2>1. Opt("-march=") \in Arg /\ Opt("-mcpu=") \in Arg
    BY Options DEF Added
  <2>2. Short(arch, 1) /\ Short(cpu, 1)
    BY <2>1, Single, Empty DEF If, Short
  <2>3. Short(arch \o cpu, 2)
    <3> HIDE DEF arch, cpu
    <3> QED BY <2>2, Joined
  <2>4. Short(added, 2)
    <3> HIDE DEF arch, cpu
    <3> QED BY <2>3, Empty DEF If, Short
  <2>5. Go("arch", "date", added)
    BY <1>3 DEF AddArch
  <2> HIDE DEF added
  <2>6. QED
    BY <2>4, <2>5, GoWrites DEF WInv, Filled
<1>4. CASE AddDate
  <2> DEFINE three == <<Opt("-D__TIME__="), Opt("-D__DATE__="), Opt("-Wno-builtin-macro-redefined")>>
             added == If(build.date /\ env.epoch = "valid", three)
  <2>1. /\ Opt("-D__TIME__=") \in Arg /\ Opt("-D__DATE__=") \in Arg
        /\ Opt("-Wno-builtin-macro-redefined") \in Arg
    BY Options DEF Added
  <2>2. Short(three, 3)
    BY <2>1 DEF Short
  <2>3. Short(added, 3)
    <3> HIDE DEF three
    <3> QED BY <2>2, Empty DEF If, Short
  <2>4. Go("date", "pie", added)
    BY <1>4 DEF AddDate
  <2> HIDE DEF added
  <2>5. QED
    BY <2>3, <2>4, GoWrites DEF WInv, Filled
<1>5. CASE BadDate
  <2>1. Go("date", "exit", <<>>)
    BY <1>5 DEF BadDate
  <2>2. QED
    BY <2>1, Empty, GoWrites DEF WInv, Filled
<1>6. CASE AddPie
  <2> DEFINE compile == If(~Given(PicOptions), <<Opt("-fPIE")>>)
             link == If(~Given({"-shared"}), <<Opt("-pie")>>)
             added == If(build.pie /\ ~Given(NoPieOptions), compile \o link)
  <2>1. Opt("-fPIE") \in Arg /\ Opt("-pie") \in Arg
    BY Options DEF Added
  <2>2. Short(compile, 1) /\ Short(link, 1)
    BY <2>1, Single, Empty DEF If, Short
  <2>3. Short(compile \o link, 2)
    <3> HIDE DEF compile, link
    <3> QED BY <2>2, Joined
  <2>4. Short(added, 2)
    <3> HIDE DEF compile, link
    <3> QED BY <2>3, Empty DEF If, Short
  <2>5. Go("pie", "relro", added)
    BY <1>6 DEF AddPie
  <2> HIDE DEF added
  <2>6. QED
    BY <2>4, <2>5, GoWrites DEF WInv, Filled
<1>7. CASE AddRelro
  <2> DEFINE added == If(~Given(KernelOptions), Relro)
  <2>1. Opt("-Wl,-z,now") \in Arg /\ Opt("-Wl,-z,relro") \in Arg
    BY Options DEF Added
  <2>2. Short(Relro, 2)
    <3> DEFINE now == Opt("-Wl,-z,now")
               relro == Opt("-Wl,-z,relro")
    <3>1. Relro \in {<<>>, <<relro>>, <<now, relro>>}
      BY BuildFacts DEF Relro
    <3>2. now \in Arg /\ relro \in Arg
      BY <2>1
    <3> HIDE DEF now, relro
    <3>3. Short(<<>>, 2) /\ Short(<<relro>>, 2) /\ Short(<<now, relro>>, 2)
      BY <3>2 DEF Short
    <3>4. QED
      BY <3>1, <3>3
  <2>3. Short(added, 2)
    BY <2>2, Empty DEF If, Short
  <2>4. Go("relro", "paths", added)
    BY <1>7 DEF AddRelro
  <2> HIDE DEF added
  <2>5. QED
    BY <2>3, <2>4, GoWrites DEF WInv, Filled
<1>8. CASE CheckJoined \/ CheckSeparate \/ SkipArgument
  <2>1. /\ step = "paths" /\ step' \in {"paths", "exit"}
        /\ UNCHANGED <<argv, build, out>>
    BY <1>8 DEF CheckJoined, CheckSeparate, SkipArgument, Matches, CheckWord
  <2>2. QED
    BY <2>1 DEF WInv, Filled
<1>9. CASE Execute
  <2>1. Go("paths", "exec", argv) /\ Short(argv, Len(argv))
    BY <1>9 DEF Execute, WInv, Short
  <2>2. Len(argv) \in Nat
    BY DEF WInv
  <2>3. QED
    BY <2>1, <2>2, GoWrites DEF WInv, Filled
<1>10. CASE UNCHANGED wvars
  BY <1>10 DEF WInv, Filled, wvars
<1>11. QED
  BY <1>1, <1>2, <1>3, <1>4, <1>5, <1>6, <1>7, <1>8, <1>9, <1>10 DEF WrapperNext

LEMMA WInvFits == WInv => ArgsFit
<1> SUFFICES ASSUME WInv PROVE ArgsFit
  OBVIOUS
<1>1. Len(argv) \in Nat /\ Len(out) \in Nat
  BY DEF WInv
<1>2. QED
  BY <1>1, FixedIsSeq DEF WInv, Filled, ArgsFit, ExclusiveArgs

\* The wrapper never writes behind the end of args (malloc in main): the fixed
\* arguments, the ten exclusive ones, those of the caller and the NULL fit for
\* every command line and every way to build the wrapper.
THEOREM WrapperArgsFit == WrapperSpec => []ArgsFit
<1>1. WInv /\ [WrapperNext]_wvars => WInv'
  BY WNextInv
<1>2. QED
  BY <1>1, WInitInv, WInvFits, PTL DEF WrapperSpec

-----------------------------------------------------------------------------
(* The options that the wrapper puts before those of the caller.           *)

Asked == {argv[i].opt : i \in Places}
Opts(s) == {s[i].opt : i \in DOMAIN s}

\* What main has written behind the fixed arguments, without the caller's.
Wrote ==
    {out[i].opt : i \in Len(Fixed) + 1 .. Len(out) - (IF step = "exec" THEN Len(argv) ELSE 0)}

\* Why an option may stand before those of the caller.
Justified(o) ==
    \/ o = "-mfloat-abi=" /\ ~Given(FloatOptions)
    \/ o = "-mfp" /\ ~SoftFloat
    \/ o \in {"-march=", "-mcpu="} /\ ~Given(MachineOptions)
    \/ o \in {"-D__TIME__=", "-D__DATE__=", "-Wno-builtin-macro-redefined"}
    \/ o = "-fPIE" /\ ~Given(NoPieOptions \cup PicOptions)
    \/ o = "-pie" /\ ~Given(NoPieOptions \cup {"-shared"})
    \/ o \in RelroOptions /\ ~Given(KernelOptions)

OptionsInv ==
    /\ Len(Fixed) + (IF step = "exec" THEN Len(argv) ELSE 0) <= Len(out)
    /\ \A o \in Wrote : Justified(o)
    /\ "-pie" \in Wrote => (Wrote \cup Asked) \cap PicOptions # {}
    /\ "-D__DATE__=" \in Wrote => "-Wno-builtin-macro-redefined" \in Wrote

\* What is written is what was written and what is added to it.
LEMMA Grows ==
    ASSUME WInv, OptionsInv, NEW s, NEW t, NEW added \in Seq(Arg), Go(s, t, added),
           s # "exec", t # "exec"
    PROVE  /\ Wrote' = Wrote \cup Opts(added)
           /\ Len(Fixed) <= Len(out')
           /\ argv' = argv /\ step' = t
<1>1. out \in Seq(Arg) /\ out' = out \o added /\ argv' = argv /\ step = s /\ step' = t
  BY DEF WInv, Go
<1>2. Len(Fixed) \in Nat /\ Len(Fixed) <= Len(out) /\ Len(out) \in Nat /\ Len(added) \in Nat
  BY <1>1, FixedIsSeq DEF OptionsInv
<1>3. Len(out') = Len(out) + Len(added)
  BY <1>1
<1>4. \A i \in 1 .. Len(out) : out'[i] = out[i]
  BY <1>1
<1>5. \A i \in 1 .. Len(added) : out'[Len(out) + i] = added[i]
  BY <1>1
<1>6. Wrote = {out[i].opt : i \in Len(Fixed) + 1 .. Len(out)}
  BY <1>1, <1>2 DEF Wrote
<1>7. Wrote' = {out'[i].opt : i \in Len(Fixed) + 1 .. Len(out')}
  BY <1>1, <1>2, <1>3 DEF Wrote
<1>8. ASSUME NEW x \in Wrote' PROVE x \in Wrote \cup Opts(added)
  <2>1. PICK i \in Len(Fixed) + 1 .. Len(out') : x = out'[i].opt
    BY <1>7
  <2>2. CASE i <= Len(out)
    BY <2>1, <2>2, <1>2, <1>4, <1>6
  <2>3. CASE i > Len(out)
    <3>1. i - Len(out) \in 1 .. Len(added) /\ Len(out) + (i - Len(out)) = i
      BY <2>1, <2>3, <1>2, <1>3
    <3>2. x = added[i - Len(out)].opt
      BY <3>1, <2>1, <1>5
    <3>3. QED
      BY <3>1, <3>2 DEF Opts
  <2>4. QED
    BY <2>1, <2>2, <2>3, <1>2
<1>9. ASSUME NEW x \in Wrote PROVE x \in Wrote'
  BY <1>2, <1>3, <1>4, <1>6, <1>7
<1>10. ASSUME NEW x \in Opts(added) PROVE x \in Wrote'
  <2>1. PICK i \in 1 .. Len(added) : x = added[i].opt
    BY DEF Opts
  <2>2. x = out'[Len(out) + i].opt /\ Len(out) + i \in Len(Fixed) + 1 .. Len(out')
    BY <2>1, <1>2, <1>3, <1>5
  <2>3. QED
    BY <2>2, <1>7
<1>11. QED
  BY <1>1, <1>2, <1>3, <1>8, <1>9, <1>10

\* The reasons speak of argv and of nothing else.
LEMMA ReasonsStay ==
    ASSUME argv' = argv
    PROVE  /\ \A o : Justified(o)' <=> Justified(o)
           /\ Asked' = Asked
BY DEF Justified, Given, SoftFloat, Places, Asked

\* A step of the first part keeps the invariant if what it adds has a reason.
LEMMA AddedJustified ==
    ASSUME WInv, OptionsInv, NEW s, NEW t, NEW added \in Seq(Arg), Go(s, t, added),
           s # "exec", t # "exec",
           \A o \in Opts(added) : Justified(o),
           "-pie" \in Opts(added) => (Opts(added) \cup Asked) \cap PicOptions # {},
           "-D__DATE__=" \in Opts(added) => "-Wno-builtin-macro-redefined" \in Opts(added)
    PROVE  OptionsInv'
<1>1. /\ Wrote' = Wrote \cup Opts(added)
      /\ Len(Fixed) <= Len(out')
      /\ argv' = argv /\ step' = t
  BY Grows
<1>2. /\ \A o : Justified(o)' <=> Justified(o)
      /\ Asked' = Asked
  BY <1>1, ReasonsStay
<1>3. \A o \in Wrote' : Justified(o)'
  BY <1>1, <1>2 DEF OptionsInv
<1>4. ("-pie" \in Wrote => (Wrote \cup Asked) \cap PicOptions # {})'
  BY <1>1, <1>2 DEF OptionsInv, PicOptions
<1>5. ("-D__DATE__=" \in Wrote => "-Wno-builtin-macro-redefined" \in Wrote)'
  BY <1>1 DEF OptionsInv
<1>6. (Len(Fixed) + (IF step = "exec" THEN Len(argv) ELSE 0) <= Len(out))'
  BY <1>1, FixedIsSeq
<1>7. QED
  BY <1>3, <1>4, <1>5, <1>6 DEF OptionsInv

LEMMA OptsEmpty == Opts(<<>>) = {}
BY DEF Opts

LEMMA OptsSingle == ASSUME NEW a PROVE Opts(<<a>>) = {a.opt}
BY DEF Opts

LEMMA OptsPair == ASSUME NEW a, NEW b PROVE Opts(<<a, b>>) = {a.opt, b.opt}
BY DEF Opts

LEMMA OptsTriple == ASSUME NEW a, NEW b, NEW c PROVE Opts(<<a, b, c>>) = {a.opt, b.opt, c.opt}
BY DEF Opts

\* Two arguments that are added each on a condition of its own.
LEMMA TwoPieces ==
    ASSUME NEW a \in Arg, NEW b \in Arg, NEW c \in BOOLEAN, NEW d \in BOOLEAN
    PROVE  /\ <<>> \in Seq(Arg) /\ <<a>> \in Seq(Arg) /\ <<b>> \in Seq(Arg) /\ <<a, b>> \in Seq(Arg)
           /\ If(c, <<a>>) \o If(d, <<b>>) =
                 (IF c THEN IF d THEN <<a, b>> ELSE <<a>> ELSE IF d THEN <<b>> ELSE <<>>)
<1>1. /\ <<>> \in Seq(Arg) /\ <<a>> \in Seq(Arg) /\ <<b>> \in Seq(Arg) /\ <<a, b>> \in Seq(Arg)
  OBVIOUS
<1>2. <<a>> \o <<b>> = <<a, b>>
  <2> DEFINE s == <<a>> \o <<b>>
             t == <<a, b>>
  <2>1. s \in Seq(Arg) /\ t \in Seq(Arg) /\ Len(s) = 2 /\ Len(t) = 2
    OBVIOUS
  <2>2. s[1] = t[1] /\ s[2] = t[2]
    OBVIOUS
  <2> HIDE DEF s, t
  <2>3. \A i \in 1 .. Len(s) : s[i] = t[i]
    BY <2>1, <2>2
  <2>4. s = t
    BY <2>1, <2>3, SeqEqual
  <2>5. QED
    BY <2>4 DEF s, t
<1>3. <<a>> \o <<>> = <<a>> /\ <<>> \o <<b>> = <<b>> /\ <<>> \o <<>> = <<>>
  OBVIOUS
<1>4. QED
  BY <1>1, <1>2, <1>3 DEF If

LEMMA OptsInitInv == WrapperInit => OptionsInv
<1> SUFFICES ASSUME WrapperInit PROVE OptionsInv
  OBVIOUS
<1>1. out = Fixed /\ step = "floatabi" /\ Len(Fixed) \in Nat
  BY FixedIsSeq DEF WrapperInit
<1>2. Wrote = {}
  BY <1>1 DEF Wrote
<1>3. QED
  BY <1>1, <1>2 DEF OptionsInv

LEMMA OptsNextInv == WInv /\ OptionsInv /\ [WrapperNext]_wvars => OptionsInv'
<1> SUFFICES ASSUME WInv, OptionsInv, [WrapperNext]_wvars PROVE OptionsInv'
  OBVIOUS
<1> USE FixedIsSeq
<1>e. <<>> \in Seq(Arg)
  BY Empty DEF Short
<1>1. CASE AddFloatAbi
  <2> DEFINE added == If(build.floatabi /\ ~Given(FloatOptions), <<Opt("-mfloat-abi=")>>)
  <2>1. added \in Seq(Arg)
    <3>1. Opt("-mfloat-abi=") \in Arg
      BY Options DEF Added
    <3>2. QED
      BY <1>e, <3>1, TwoPieces DEF If
  <2>2. Opts(added) \subseteq {"-mfloat-abi="} /\ (Opts(added) # {} => ~Given(FloatOptions))
    BY OptsEmpty, OptsSingle DEF If, Opt
  <2>3. Go("floatabi", "fp32", added)
    BY <1>1 DEF AddFloatAbi
  <2> HIDE DEF added
  <2>4. \A o \in Opts(added) : Justified(o)
    BY <2>2 DEF Justified
  <2>5. QED
    BY <2>1, <2>2, <2>3, <2>4, AddedJustified
<1>2. CASE AddFp32Mode
  <2> DEFINE added == If(build.fp32 /\ ~SoftFloat, <<Opt("-mfp")>>)
  <2>1. added \in Seq(Arg)
    <3>1. Opt("-mfp") \in Arg
      BY Options DEF Added
    <3>2. QED
      BY <1>e, <3>1, TwoPieces DEF If
  <2>2. Opts(added) \subseteq {"-mfp"} /\ (Opts(added) # {} => ~SoftFloat)
    BY OptsEmpty, OptsSingle DEF If, Opt
  <2>3. Go("fp32", "arch", added)
    BY <1>2 DEF AddFp32Mode
  <2> HIDE DEF added
  <2>4. \A o \in Opts(added) : Justified(o)
    BY <2>2 DEF Justified
  <2>5. QED
    BY <2>1, <2>2, <2>3, <2>4, AddedJustified
<1>3. CASE AddArch
  <2> DEFINE arch == Opt("-march=")
             cpu == Opt("-mcpu=")
             added == If(~Given(MachineOptions), If(build.arch, <<arch>>) \o If(build.cpu, <<cpu>>))
  <2>1. arch \in Arg /\ cpu \in Arg /\ arch.opt = "-march=" /\ cpu.opt = "-mcpu="
    BY Options DEF Added, Opt
  <2>2. Go("arch", "date", added)
    BY <1>3 DEF AddArch
  <2> HIDE DEF arch, cpu
  <2>3. added \in {<<>>, <<arch>>, <<cpu>>, <<arch, cpu>>} /\ (added # <<>> => ~Given(MachineOptions))
    <3>1. build.arch \in BOOLEAN /\ build.cpu \in BOOLEAN
      BY WrapperAssumption DEF WInv
    <3>2. QED
      BY <2>1, <3>1, TwoPieces DEF If
  <2> HIDE DEF added
  <2>4. added \in Seq(Arg)
    BY <2>1, <2>3, TwoPieces
  <2>5. Opts(added) \subseteq {"-march=", "-mcpu="} /\ (Opts(added) # {} => ~Given(MachineOptions))
    BY <2>1, <2>3, OptsEmpty, OptsSingle, OptsPair
  <2>6. \A o \in Opts(added) : Justified(o)
    BY <2>5 DEF Justified
  <2>7. QED
    BY <2>2, <2>4, <2>5, <2>6, AddedJustified
<1>4. CASE AddDate
  <2> DEFINE time == Opt("-D__TIME__=")
             date == Opt("-D__DATE__=")
             allow == Opt("-Wno-builtin-macro-redefined")
             added == If(build.date /\ env.epoch = "valid", <<time, date, allow>>)
  <2>1. /\ time \in Arg /\ date \in Arg /\ allow \in Arg
        /\ time.opt = "-D__TIME__=" /\ date.opt = "-D__DATE__="
        /\ allow.opt = "-Wno-builtin-macro-redefined"
    BY Options DEF Added, Opt
  <2>2. Go("date", "pie", added)
    BY <1>4 DEF AddDate
  <2> HIDE DEF time, date, allow
  <2>3. added \in {<<>>, <<time, date, allow>>}
    BY DEF If
  <2> HIDE DEF added
  <2>4. added \in Seq(Arg)
    <3>1. <<time, date, allow>> \in Seq(Arg)
      BY <2>1
    <3>2. QED
      BY <1>e, <2>3, <3>1
  <2>5. Opts(added) \in {{}, {"-D__TIME__=", "-D__DATE__=", "-Wno-builtin-macro-redefined"}}
    BY <2>1, <2>3, OptsEmpty, OptsTriple
  <2>6. \A o \in Opts(added) : Justified(o)
    BY <2>5 DEF Justified
  <2>7. QED
    BY <2>2, <2>4, <2>5, <2>6, AddedJustified
<1>5. CASE BadDate
  <2>1. Go("date", "exit", <<>>)
    BY <1>5 DEF BadDate
  <2>2. QED
    BY <1>e, <2>1, OptsEmpty, AddedJustified
<1>6. CASE AddPie
  <2> DEFINE compile == Opt("-fPIE")
             link == Opt("-pie")
             added == If(build.pie /\ ~Given(NoPieOptions),
                         If(~Given(PicOptions), <<compile>>) \o If(~Given({"-shared"}), <<link>>))
  <2>1. compile \in Arg /\ link \in Arg /\ compile.opt = "-fPIE" /\ link.opt = "-pie"
    BY Options DEF Added, Opt
  <2>2. Go("pie", "relro", added)
    BY <1>6 DEF AddPie
  <2> HIDE DEF compile, link
  <2>3. /\ added \in {<<>>, <<compile>>, <<link>>, <<compile, link>>}
        /\ added # <<>> => ~Given(NoPieOptions)
        /\ added \in {<<compile>>, <<compile, link>>} => ~Given(PicOptions)
        /\ added \in {<<link>>, <<compile, link>>} => ~Given({"-shared"})
        /\ added = <<link>> => Given(PicOptions)
    <3>1. Given(PicOptions) \in BOOLEAN /\ Given({"-shared"}) \in BOOLEAN
      BY DEF Given
    <3>2. added = IF ~(build.pie /\ ~Given(NoPieOptions)) THEN <<>>
                  ELSE IF ~Given(PicOptions)
                       THEN IF ~Given({"-shared"}) THEN <<compile, link>> ELSE <<compile>>
                       ELSE IF ~Given({"-shared"}) THEN <<link>> ELSE <<>>
      BY <2>1, <3>1, TwoPieces DEF If
    <3>3. Len(<<compile>>) = 1 /\ Len(<<link>>) = 1 /\ Len(<<compile, link>>) = 2
          /\ Len(<<>>) = 0 /\ <<compile>>[1] = compile /\ <<link>>[1] = link
      OBVIOUS
    <3>4. <<compile>> # <<link>> /\ <<compile>> # <<>> /\ <<link>> # <<>>
          /\ <<compile, link>> \notin {<<>>, <<compile>>, <<link>>}
      BY <2>1, <3>3
    <3>5. QED
      BY <3>2, <3>4
  <2> HIDE DEF added
  <2>4. added \in Seq(Arg)
    BY <2>1, <2>3, TwoPieces
  <2>5. /\ Opts(added) \subseteq {"-fPIE", "-pie"}
        /\ Opts(added) # {} => ~Given(NoPieOptions)
        /\ "-fPIE" \in Opts(added) => ~Given(PicOptions)
        /\ "-pie" \in Opts(added) => ~Given({"-shared"})
        /\ "-pie" \in Opts(added) => "-fPIE" \in Opts(added) \/ Given(PicOptions)
    <3>1. CASE added = <<>>
      BY <3>1, OptsEmpty
    <3>2. CASE added = <<compile>>
      BY <3>2, <2>1, <2>3, OptsSingle
    <3>3. CASE added = <<link>>
      BY <3>3, <2>1, <2>3, OptsSingle
    <3>4. CASE added = <<compile, link>>
      BY <3>4, <2>1, <2>3, OptsPair
    <3>5. QED
      BY <3>1, <3>2, <3>3, <3>4, <2>3
  <2>6. \A o \in Opts(added) : Justified(o)
    <3>1. Opts(added) # {} /\ ~Given(NoPieOptions) /\ ~Given(PicOptions)
             => ~Given(NoPieOptions \cup PicOptions)
      BY DEF Given
    <3>2. ~Given(NoPieOptions) /\ ~Given({"-shared"}) => ~Given(NoPieOptions \cup {"-shared"})
      BY DEF Given
    <3>3. QED
      BY <2>5, <3>1, <3>2 DEF Justified
  <2>7. "-pie" \in Opts(added) => (Opts(added) \cup Asked) \cap PicOptions # {}
    BY <2>5 DEF Given, Asked, PicOptions
  <2>8. QED
    BY <2>2, <2>4, <2>5, <2>6, <2>7, AddedJustified
<1>7. CASE AddRelro
  <2> DEFINE now == Opt("-Wl,-z,now")
             relro == Opt("-Wl,-z,relro")
             added == If(~Given(KernelOptions), Relro)
  <2>1. now \in Arg /\ relro \in Arg /\ now.opt = "-Wl,-z,now" /\ relro.opt = "-Wl,-z,relro"
    BY Options DEF Added, Opt
  <2>2. Go("relro", "paths", added)
    BY <1>7 DEF AddRelro
  <2>3. Relro \in {<<>>, <<relro>>, <<now, relro>>}
    BY BuildFacts DEF Relro
  <2> HIDE DEF now, relro
  <2>4. added \in {<<>>, <<relro>>, <<now, relro>>} /\ (added # <<>> => ~Given(KernelOptions))
    BY <2>3 DEF If
  <2> HIDE DEF added
  <2>5. added \in Seq(Arg)
    BY <2>1, <2>4, TwoPieces
  <2>6. Opts(added) \subseteq RelroOptions /\ (Opts(added) # {} => ~Given(KernelOptions))
    <3>1. CASE added = <<>>
      BY <3>1, OptsEmpty
    <3>2. CASE added = <<relro>>
      BY <2>1, <2>4, <3>2, OptsSingle DEF RelroOptions
    <3>3. CASE added = <<now, relro>>
      <4>1. Opts(added) = {now.opt, relro.opt}
        BY <2>1, <3>3, OptsPair
      <4>2. added # <<>>
        BY <3>3
      <4>3. QED
        BY <2>1, <2>4, <4>1, <4>2 DEF RelroOptions
    <3>4. QED
      BY <2>4, <3>1, <3>2, <3>3
  <2>7. \A o \in Opts(added) : Justified(o)
    BY <2>6 DEF Justified, RelroOptions
  <2>8. QED
    BY <2>2, <2>5, <2>6, <2>7, AddedJustified DEF RelroOptions
<1>8. CASE CheckJoined \/ CheckSeparate \/ SkipArgument
  <2>1. step = "paths" /\ step' \in {"paths", "exit"} /\ out' = out /\ argv' = argv
    BY <1>8 DEF CheckJoined, CheckSeparate, SkipArgument, Matches, CheckWord
  <2>2. Wrote' = Wrote
    BY <2>1 DEF Wrote
  <2>3. QED
    BY <2>1, <2>2, ReasonsStay DEF OptionsInv
<1>9. CASE Execute
  <2>1. step = "paths" /\ step' = "exec" /\ out' = out \o argv /\ argv' = argv
    BY <1>9 DEF Execute, Go
  <2>2. out \in Seq(Arg) /\ argv \in Seq(Arg) /\ Len(out) \in Nat /\ Len(argv) \in Nat
    BY DEF WInv
  <2>3. Len(out') = Len(out) + Len(argv) /\ \A i \in 1 .. Len(out) : out'[i] = out[i]
    BY <2>1, <2>2
  <2>4. Len(Fixed) <= Len(out)
    BY <2>1 DEF OptionsInv
  <2>5. Wrote = {out[i].opt : i \in Len(Fixed) + 1 .. Len(out)}
    BY <2>1, <2>2 DEF Wrote
  <2>6. Wrote' = {out'[i].opt : i \in Len(Fixed) + 1 .. Len(out)}
    BY <2>1, <2>2, <2>3 DEF Wrote
  <2>7. Wrote' = Wrote
    BY <2>2, <2>3, <2>5, <2>6
  <2>8. QED
    BY <2>1, <2>2, <2>3, <2>4, <2>7, ReasonsStay DEF OptionsInv
<1>10. CASE UNCHANGED wvars
  <2>1. Wrote' = Wrote /\ argv' = argv /\ out' = out /\ step' = step
    BY <1>10 DEF wvars, Wrote
  <2>2. QED
    BY <2>1, ReasonsStay DEF OptionsInv
<1>11. QED
  BY <1>1, <1>2, <1>3, <1>4, <1>5, <1>6, <1>7, <1>8, <1>9, <1>10 DEF WrapperNext

\* The pairs that conflict, seen from the option of the wrapper.
LEMMA Clash ==
    ASSUME NEW o, NEW p, Justified(o), {o, p} \in Conflicts
    PROVE  \/ o = "-mfloat-abi=" /\ p \in FloatOptions
           \/ o \in MachineOptions /\ p \in MachineOptions
           \/ o = "-pie" /\ p \in NoPieOptions \cup {"-shared"}
           \/ o = "-fPIE" /\ p \in NoPieOptions \cup PicOptions
           \/ o = "-mfp" /\ p = "-msoft-float"
           \/ o \in RelroOptions /\ p \in KernelOptions
<1>1. o \in Added
  BY DEF Justified, Added, RelroOptions
<1>2. \E a, b : /\ {o, p} = {a, b}
                /\ \/ a \in FloatOptions /\ b \in FloatOptions
                   \/ a \in MachineOptions /\ b \in MachineOptions
                   \/ a = "-pie" /\ b \in NoPieOptions \cup {"-shared"}
                   \/ a = "-fPIE" /\ b \in NoPieOptions \cup PicOptions
                   \/ a = "-mfp" /\ b = "-msoft-float"
                   \/ a \in RelroOptions /\ b \in KernelOptions
  <2> DEFINE floats == {{x, y} : x \in FloatOptions, y \in FloatOptions}
             machines == {{x, y} : x \in MachineOptions, y \in MachineOptions}
             links == {{"-pie", y} : y \in NoPieOptions \cup {"-shared"}}
             compiles == {{"-fPIE", y} : y \in NoPieOptions \cup PicOptions}
             relros == {{x, y} : x \in RelroOptions, y \in KernelOptions}
  <2>1. CASE {o, p} \in floats
    <3>1. PICK x \in FloatOptions, y \in FloatOptions : {o, p} = {x, y}
      BY <2>1
    <3>2. QED
      BY <3>1, Zenon
  <2>2. CASE {o, p} \in machines
    <3>1. PICK x \in MachineOptions, y \in MachineOptions : {o, p} = {x, y}
      BY <2>2
    <3>2. QED
      BY <3>1, Zenon
  <2>3. CASE {o, p} \in links
    BY <2>3, Zenon
  <2>4. CASE {o, p} \in compiles
    BY <2>4, Zenon
  <2>5. CASE {o, p} \in {{"-mfp", "-msoft-float"}}
    BY <2>5, Zenon
  <2>6. CASE {o, p} \in relros
    <3>1. PICK x \in RelroOptions, y \in KernelOptions : {o, p} = {x, y}
      BY <2>6
    <3>2. QED
      BY <3>1, Zenon
  <2>7. \/ {o, p} \in floats \/ {o, p} \in machines \/ {o, p} \in links
        \/ {o, p} \in compiles \/ {o, p} \in {{"-mfp", "-msoft-float"}} \/ {o, p} \in relros
    BY DEF Conflicts
  <2> HIDE DEF floats, machines, links, compiles, relros
  <2>8. QED
    BY <2>1, <2>2, <2>3, <2>4, <2>5, <2>6, <2>7
<1>3. PICK a, b : /\ {o, p} = {a, b}
                  /\ \/ a \in FloatOptions /\ b \in FloatOptions
                     \/ a \in MachineOptions /\ b \in MachineOptions
                     \/ a = "-pie" /\ b \in NoPieOptions \cup {"-shared"}
                     \/ a = "-fPIE" /\ b \in NoPieOptions \cup PicOptions
                     \/ a = "-mfp" /\ b = "-msoft-float"
                     \/ a \in RelroOptions /\ b \in KernelOptions
  BY <1>2
<1>4. (o = a /\ p = b) \/ (o = b /\ p = a)
  BY <1>3
<1>5. QED
  BY <1>1, <1>3, <1>4
     DEF Added, FloatOptions, MachineOptions, RelroOptions, NoPieOptions, PicOptions, KernelOptions

LEMMA OptionsCompatible == WInv /\ OptionsInv => CompatibleOptions
<1> SUFFICES ASSUME WInv, OptionsInv, step = "exec"
             PROVE  LET own == {Own[i].opt : i \in DOMAIN Own}
                        given == {argv[i].opt : i \in Places}
                    IN  /\ \A o \in own, p \in given :
                              {o, p} \in Conflicts => p = "-msoft-float" /\ ~SoftFloat
                        /\ "-pie" \in own => (own \cup given) \cap PicOptions # {}
                        /\ "-D__DATE__=" \in own => "-Wno-builtin-macro-redefined" \in own
  BY DEF CompatibleOptions
<1> DEFINE own == {Own[i].opt : i \in DOMAIN Own}
<1>1. /\ out \in Seq(Arg) /\ Len(out) \in Nat /\ Len(argv) \in Nat /\ Len(Fixed) \in Nat
      /\ Len(Fixed) + Len(argv) <= Len(out)
  BY FixedIsSeq DEF WInv, OptionsInv
<1> DEFINE n == Len(out) - Len(argv) - Len(Fixed)
<1>2. n \in Nat /\ DOMAIN Own = 1 .. n /\ \A i \in 1 .. n : Own[i] = out[Len(Fixed) + i]
  BY <1>1 DEF Own
<1>3. Wrote = {out[i].opt : i \in Len(Fixed) + 1 .. Len(out) - Len(argv)}
  BY DEF Wrote
<1>4. own \subseteq Wrote
  BY <1>1, <1>2, <1>3
<1>5. ASSUME NEW x \in Wrote PROVE x \in own
  <2>1. PICK i \in Len(Fixed) + 1 .. Len(out) - Len(argv) : x = out[i].opt
    BY <1>3
  <2>2. i - Len(Fixed) \in 1 .. n /\ Len(Fixed) + (i - Len(Fixed)) = i
    BY <2>1, <1>1
  <2>3. QED
    BY <2>1, <2>2, <1>2
<1> HIDE DEF n
<1>6. own = Wrote
  BY <1>4, <1>5
<1> HIDE DEF own
<1>7. ASSUME NEW o \in own, NEW p \in Asked, {o, p} \in Conflicts
      PROVE  p = "-msoft-float" /\ ~SoftFloat
  <2>1. Justified(o)
    BY <1>6 DEF OptionsInv
  <2>2. \A opts : p \in opts => Given(opts)
    BY DEF Asked, Given
  <2>3. \/ o = "-mfloat-abi=" /\ p \in FloatOptions
        \/ o \in MachineOptions /\ p \in MachineOptions
        \/ o = "-pie" /\ p \in NoPieOptions \cup {"-shared"}
        \/ o = "-fPIE" /\ p \in NoPieOptions \cup PicOptions
        \/ o = "-mfp" /\ p = "-msoft-float"
        \/ o \in RelroOptions /\ p \in KernelOptions
    BY <1>7, <2>1, Clash
  <2>4. o \in MachineOptions => o \notin {"-mfloat-abi=", "-mfp", "-fPIE", "-pie", "-Wl,-z,now",
              "-Wl,-z,relro", "-D__TIME__=", "-D__DATE__=", "-Wno-builtin-macro-redefined"}
    BY DEF MachineOptions
  <2>5. QED
    BY <2>1, <2>2, <2>3, <2>4 DEF Justified, RelroOptions
<1>8. "-pie" \in own => (own \cup Asked) \cap PicOptions # {}
  BY <1>6 DEF OptionsInv
<1>9. "-D__DATE__=" \in own => "-Wno-builtin-macro-redefined" \in own
  BY <1>6 DEF OptionsInv
<1>10. QED
  BY <1>7, <1>8, <1>9 DEF own, Asked

\* Whatever the wrapper is called with and however it was built, no option it
\* adds (main, from the float ABI to relro) conflicts with one it was called
\* with, "-pie" comes with an option that compiles so, and the macros of the
\* date with the one that allows them.
THEOREM WrapperOptionsCompatible == WrapperSpec => []CompatibleOptions
<1>1. WInv /\ OptionsInv /\ [WrapperNext]_wvars => WInv' /\ OptionsInv'
  BY WNextInv, OptsNextInv
<1>2. QED
  BY <1>1, WInitInv, OptsInitInv, OptionsCompatible, PTL DEF WrapperSpec

-----------------------------------------------------------------------------
(* The warnings.                                                           *)

\* No option without its directory is followed by another.
Orderly == ~(\E i \in Places \ {1} : Bare(i - 1) /\ Bare(i))

\* The argument behind an option without its directory.
Awaited(i) == i > 1 /\ Bare(i - 1)

\* The inductive invariant: the search has warned of every directory before the
\* place it has reached, and of the word there if the option before it took that.
WarnedInv ==
    /\ argv \in Seq(Theirs)
    /\ env.paranoid \in BOOLEAN
    /\ at.i \in Nat \ {0} /\ at.opt \in 1 .. 6
    /\ step \notin {"paths", "exit", "exec"} => at.i = 1 /\ at.opt = 1 /\ warned = {}
    /\ step \in {"paths", "exec"} /\ env.paranoid => warned = {}
    /\ step \in {"paths", "exec"} /\ Orderly =>
          /\ \A d \in Directories : d < at.i => d \in warned
          /\ at.opt = 1 <=> ~Awaited(at.i)
          /\ Awaited(at.i) /\ Word(at.i) \in UnsafeWords => at.i \in warned
    /\ step = "exec" => at.i > Len(argv)

\* On an orderly command line the argument that is taken for a directory is
\* the one behind an option without it: the recursion ends after one step.
LEMMA OperandIsAwaited ==
    ASSUME Orderly, Len(argv) \in Nat
    PROVE  \A i \in Places : Operand[i] <=> Awaited(i)
<1> DEFINE f == [i \in Places |-> i > 1 /\ Bare(i - 1)]
<1>1. \A i \in Places : f[i] = (i > 1 /\ Bare(i - 1))
  OBVIOUS
<1>2. ASSUME NEW i \in Places
      PROVE  (i > 1 /\ Bare(i - 1)) = (i > 1 /\ Bare(i - 1) /\ ~f[i - 1])
  <2>1. CASE i > 1 /\ Bare(i - 1)
    <3>1. i - 1 \in Places
      BY <2>1 DEF Places
    <3>2. f[i - 1] = (i - 1 > 1 /\ Bare((i - 1) - 1))
      BY <3>1, <1>1
    <3>3. ~(i - 1 > 1 /\ Bare((i - 1) - 1))
      BY <2>1, <3>1 DEF Orderly, Places
    <3>4. QED
      BY <2>1, <3>2, <3>3
  <2>2. CASE ~(i > 1 /\ Bare(i - 1))
    BY <2>2
  <2>3. QED
    BY <2>1, <2>2
<1>3. f = [i \in Places |-> i > 1 /\ Bare(i - 1) /\ ~f[i - 1]]
  BY <1>2
<1> HIDE DEF f
<1>4. Operand = [i \in Places |-> i > 1 /\ Bare(i - 1) /\ ~Operand[i - 1]]
  BY <1>3, Zenon DEF Operand
<1>5. ASSUME NEW i \in Places PROVE Operand[i] <=> Awaited(i)
  <2>1. Operand[i] = (i > 1 /\ Bare(i - 1) /\ ~Operand[i - 1])
    BY <1>4
  <2>2. CASE Awaited(i)
    <3>1. i - 1 \in Places /\ i > 1 /\ Bare(i - 1)
      BY <2>2 DEF Awaited, Places
    <3>2. Operand[i - 1] = (i - 1 > 1 /\ Bare((i - 1) - 1) /\ ~Operand[(i - 1) - 1])
      BY <3>1, <1>4
    <3>3. ~(i - 1 > 1 /\ Bare((i - 1) - 1))
      BY <3>1 DEF Orderly, Places
    <3>4. QED
      BY <2>1, <2>2, <3>1, <3>2, <3>3
  <2>3. CASE ~Awaited(i)
    BY <2>1, <2>3 DEF Awaited
  <2>4. QED
    BY <2>2, <2>3
<1>6. QED
  BY <1>5

\* The directories of an orderly command line.
LEMMA DirectoriesAre ==
    ASSUME Orderly, Len(argv) \in Nat, NEW d \in Directories
    PROVE  /\ d \in Places /\ argv[d].rest \in UnsafeWords
           /\ Awaited(d) => argv[d].opt = None
           /\ ~Awaited(d) => TakesPath(d)
BY OperandIsAwaited DEF Directories

LEMMA WarnedInitInv == WrapperInit => WarnedInv
<1> SUFFICES ASSUME WrapperInit PROVE WarnedInv
  OBVIOUS
<1>1. argv \in Seq(Theirs) /\ env.paranoid \in BOOLEAN
  BY WrapperAssumption DEF WrapperInit, Theirs
<1>2. at.i = 1 /\ at.opt = 1 /\ warned = {} /\ step = "floatabi"
  BY DEF WrapperInit
<1>3. QED
  BY <1>1, <1>2 DEF WarnedInv

\* The command line does not change, and nor does what it says.
LEMMA LineStays ==
    ASSUME argv' = argv
    PROVE  /\ Orderly' = Orderly /\ Directories' = Directories
           /\ \A i : Awaited(i)' = Awaited(i) /\ Word(i)' = Word(i)
BY DEF Orderly, Directories, Operand, Awaited, Word, Places, Bare, TakesPath

\* One step of the search: from a word that is unsafe only if it is warned of,
\* to the next place.
LEMMA SearchStep ==
    ASSUME WarnedInv, step = "paths", at.i \in Places,
           NEW i \in {at.i, at.i + 1}, NEW word, NEW from \in 1 .. 6,
           CheckWord(i, word, at.i + 1, from),
           Orderly => /\ \A d \in Directories : d = at.i => d \in warned'
                      /\ from = 1 <=> ~Awaited(at.i + 1)
                      /\ Awaited(at.i + 1) => i = at.i + 1 /\ word = Word(at.i + 1)
    PROVE  WarnedInv'
<1>1. /\ at'.i = at.i + 1 /\ at'.opt = from /\ argv' = argv /\ env' = env
      /\ step' = IF word \in UnsafeWords /\ env.paranoid THEN "exit" ELSE "paths"
      /\ warned' = IF word \in UnsafeWords THEN warned \cup {i} ELSE warned
  BY DEF CheckWord
<1>2. /\ Orderly' = Orderly /\ Directories' = Directories
      /\ \A j : Awaited(j)' = Awaited(j) /\ Word(j)' = Word(j)
  BY <1>1, LineStays
<1>3. at.i \in Nat \ {0} /\ Len(argv) \in Nat /\ at.i <= Len(argv)
  BY DEF WarnedInv, Places
<1>4. (env.paranoid \in BOOLEAN /\ argv \in Seq(Theirs))'
  BY <1>1 DEF WarnedInv
<1>5. ASSUME step' = "paths", env.paranoid PROVE warned' = {}
  BY <1>1, <1>5 DEF WarnedInv
<1>6. ASSUME Orderly, step' = "paths"
      PROVE  /\ \A d \in Directories : d < at.i + 1 => d \in warned'
             /\ from = 1 <=> ~Awaited(at.i + 1)
             /\ Awaited(at.i + 1) /\ Word(at.i + 1) \in UnsafeWords => at.i + 1 \in warned'
  <2>1. ASSUME NEW d \in Directories, d < at.i + 1 PROVE d \in warned'
    <3>1. d \in Nat
      BY <1>3 DEF Directories, Places
    <3>2. CASE d = at.i
      BY <1>6, <3>2
    <3>3. CASE d < at.i
      BY <1>1, <1>6, <3>3 DEF WarnedInv
    <3>4. QED
      BY <2>1, <1>3, <3>1, <3>2, <3>3
  <2>2. QED
    BY <1>1, <1>6, <2>1
<1>7. step' \in {"paths", "exit"}
  BY <1>1
<1>8. (step \in {"paths", "exec"} /\ Orderly =>
          /\ \A d \in Directories : d < at.i => d \in warned
          /\ at.opt = 1 <=> ~Awaited(at.i)
          /\ Awaited(at.i) /\ Word(at.i) \in UnsafeWords => at.i \in warned)'
  <2> SUFFICES ASSUME step' = "paths", Orderly
               PROVE  /\ \A d \in Directories' : d < at'.i => d \in warned'
                      /\ at'.opt = 1 <=> ~Awaited(at.i)'
                      /\ Awaited(at.i)' /\ Word(at.i)' \in UnsafeWords => at'.i \in warned'
    BY <1>2, <1>7
  <2>1. Awaited(at.i)' = Awaited(at.i + 1) /\ Word(at.i)' = Word(at.i + 1)
    BY <1>1 DEF Awaited, Word, Places, Bare, TakesPath
  <2>2. QED
    BY <1>1, <1>2, <1>6, <2>1
<1>9. QED
  BY <1>1, <1>3, <1>4, <1>5, <1>7, <1>8 DEF WarnedInv

LEMMA WarnedNextInv == WarnedInv /\ [WrapperNext]_wvars => WarnedInv'
<1> SUFFICES ASSUME WarnedInv, [WrapperNext]_wvars PROVE WarnedInv'
  OBVIOUS
<1>0. /\ at.i \in Nat \ {0} /\ at.opt \in 1 .. 6 /\ Len(argv) \in Nat
      /\ argv \in Seq(Theirs) /\ env.paranoid \in BOOLEAN
  BY DEF WarnedInv
<1>1. CASE AddFloatAbi \/ AddFp32Mode \/ AddArch \/ AddDate \/ BadDate \/ AddPie
  <2>1. /\ step \notin {"paths", "exit", "exec"} /\ step' \notin {"paths", "exec"}
        /\ UNCHANGED <<argv, env, at, warned>>
    BY <1>1 DEF AddFloatAbi, AddFp32Mode, AddArch, AddDate, BadDate, AddPie, Go
  <2>2. QED
    BY <1>0, <2>1 DEF WarnedInv
<1>2. CASE AddRelro
  <2>1. step = "relro" /\ step' = "paths" /\ UNCHANGED <<argv, env, at, warned>>
    BY <1>2 DEF AddRelro, Go
  <2>2. at.i = 1 /\ at.opt = 1 /\ warned = {}
    BY <2>1 DEF WarnedInv
  <2>3. ~Awaited(at.i)' /\ (\A d \in Directories : ~(d < at.i))
    BY <1>0, <2>1, <2>2 DEF Awaited, Directories, Places
  <2>4. Directories' = Directories
    BY <2>1, LineStays
  <2>5. QED
    BY <1>0, <2>1, <2>2, <2>3, <2>4 DEF WarnedInv
<1>3. ASSUME NEW k \in 1 .. 5, Matches(k), argv[at.i].rest # "",
             CheckWord(at.i, argv[at.i].rest, at.i + 1, 1)
      PROVE  WarnedInv'
  <2>1. step = "paths" /\ at.i \in Places
    BY <1>3 DEF Matches
  <2>2. argv[at.i].rest \in UnsafeWords => at.i \in warned'
    BY <1>3 DEF CheckWord
  <2>3. ~Awaited(at.i + 1)
    <3>1. ~Bare(at.i)
      BY <1>3 DEF Bare
    <3>2. QED
      BY <1>0, <3>1 DEF Awaited
  <2>4. ASSUME NEW d \in Directories, d = at.i PROVE d \in warned'
    BY <2>2, <2>4 DEF Directories
  <2>5. Orderly => /\ \A d \in Directories : d = at.i => d \in warned'
                   /\ 1 = 1 <=> ~Awaited(at.i + 1)
                   /\ Awaited(at.i + 1) => at.i = at.i + 1 /\ argv[at.i].rest = Word(at.i + 1)
    BY <2>3, <2>4
  <2>6. 1 \in 1 .. 6 /\ at.i \in {at.i, at.i + 1}
    OBVIOUS
  <2>7. QED
    BY <1>3, <2>1, <2>5, <2>6, SearchStep, Zenon
<1>4. ASSUME NEW k \in 1 .. 5, Matches(k), argv[at.i].rest = "",
             CheckWord(at.i + 1, Word(at.i + 1), at.i + 1, k + 1)
      PROVE  WarnedInv'
  <2>1. step = "paths" /\ at.i \in Places
    BY <1>4 DEF Matches
  <2>2. Bare(at.i)
    BY <1>4 DEF Bare, TakesPath, Matches
  <2>3. Awaited(at.i + 1)
    BY <1>0, <2>2 DEF Awaited
  <2>4. at.i \notin Directories
    BY <1>4, WrapperAssumption DEF Directories
  <2>5. k + 1 \in 1 .. 6 /\ k + 1 # 1
    OBVIOUS
  <2>6. QED
    BY <1>0, <1>4, <2>1, <2>3, <2>4, <2>5, SearchStep
<1>5. CASE SkipArgument
  <2>1. step = "paths" /\ at.i \in Places /\ CheckWord(at.i, "", at.i + 1, 1)
    BY <1>5 DEF SkipArgument
  <2>2. \A k \in 1 .. 5 : ~(k >= at.opt /\ argv[at.i].opt = PathOptions[k])
    BY <1>5, <2>1 DEF SkipArgument, Matches
  <2>3. at.opt = 1 => ~TakesPath(at.i)
    BY <2>2 DEF TakesPath
  <2>4. ASSUME Orderly PROVE ~Awaited(at.i + 1)
    <3>1. CASE at.opt = 1
      <4>1. ~Bare(at.i)
        BY <2>3, <3>1 DEF Bare
      <4>2. QED
        BY <1>0, <4>1 DEF Awaited
    <3>2. CASE at.opt # 1
      <4>1. Awaited(at.i)
        BY <2>1, <2>4, <3>2 DEF WarnedInv
      <4>2. ~Bare(at.i)
        <5>1. at.i \in Places \ {1} /\ Bare(at.i - 1)
          <6>1. at.i > 1 /\ Bare(at.i - 1)
            BY <4>1, Zenon DEF Awaited
          <6>2. at.i # 1
            BY <1>0, <6>1
          <6>3. QED
            BY <2>1, <6>1, <6>2
        <5>2. QED
          BY <2>4, <5>1 DEF Orderly
      <4>3. QED
        BY <1>0, <4>2 DEF Awaited
    <3>3. QED
      BY <3>1, <3>2
  <2>5. ASSUME Orderly, NEW d \in Directories, d = at.i PROVE d \in warned'
    <3>1. /\ argv[at.i].rest \in UnsafeWords
          /\ Awaited(at.i) => argv[at.i].opt = None
          /\ ~Awaited(at.i) => TakesPath(at.i)
      BY <1>0, <2>5, DirectoriesAre
    <3>2. Awaited(at.i)
      BY <2>1, <2>3, <2>5, <3>1 DEF WarnedInv
    <3>3. Word(at.i) \in UnsafeWords
      BY <2>1, <3>1, <3>2 DEF Word
    <3>4. at.i \in warned
      BY <2>1, <2>5, <3>2, <3>3 DEF WarnedInv
    <3>5. QED
      BY <2>1, <2>5, <3>4 DEF CheckWord
  <2>6. Orderly => /\ \A d \in Directories : d = at.i => d \in warned'
                   /\ 1 = 1 <=> ~Awaited(at.i + 1)
                   /\ Awaited(at.i + 1) => at.i = at.i + 1 /\ "" = Word(at.i + 1)
    BY <2>4, <2>5
  <2>7. 1 \in 1 .. 6 /\ at.i \in {at.i, at.i + 1}
    OBVIOUS
  <2>8. QED
    BY <2>1, <2>6, <2>7, SearchStep, Zenon
<1>6. CASE Execute
  <2>1. at.i > Len(argv) /\ step = "paths" /\ step' = "exec" /\ UNCHANGED <<argv, env, at, warned>>
    BY <1>6 DEF Execute, Go
  <2>2. /\ Orderly' = Orderly /\ Directories' = Directories
        /\ Awaited(at.i)' = Awaited(at.i) /\ Word(at.i)' = Word(at.i)
    BY <2>1 DEF Orderly, Directories, Operand, Awaited, Word, Places, Bare, TakesPath
  <2>3. QED
    BY <1>0, <2>1, <2>2 DEF WarnedInv
<1>7. CASE UNCHANGED wvars
  <2>1. UNCHANGED <<argv, env, at, warned, step>>
    BY <1>7 DEF wvars
  <2>2. /\ Orderly' = Orderly /\ Directories' = Directories
        /\ Awaited(at.i)' = Awaited(at.i) /\ Word(at.i)' = Word(at.i)
    BY <2>1 DEF Orderly, Directories, Operand, Awaited, Word, Places, Bare, TakesPath
  <2>3. QED
    BY <1>0, <2>1, <2>2 DEF WarnedInv
<1>8. QED
  BY <1>1, <1>2, <1>3, <1>4, <1>5, <1>6, <1>7 DEF WrapperNext, CheckJoined, CheckSeparate

LEMMA WarnedNotSilent == WarnedInv => UnsafeNotSilent
<1> SUFFICES ASSUME WarnedInv, step = "exec", Orderly
             PROVE  Directories \subseteq warned /\ (env.paranoid => Directories = {})
  BY DEF UnsafeNotSilent, Orderly
<1>1. at.i > Len(argv) /\ Len(argv) \in Nat /\ at.i \in Nat
  BY DEF WarnedInv
<1>2. \A d \in Directories : d \in warned
  BY <1>1 DEF WarnedInv, Directories, Places
<1>3. QED
  BY <1>2 DEF WarnedInv

\* Whatever the wrapper is called with, no directory of the build machine gets
\* to the compiler without a warning (check_unsafe_path and the loop of main
\* that calls it), and none at all in a paranoid build; but for command lines
\* where an option without its directory is followed by another.
THEOREM WrapperUnsafeNotSilent == WrapperSpec => []UnsafeNotSilent
<1>1. QED
  BY WarnedInitInv, WarnedNextInv, WarnedNotSilent, PTL DEF WrapperSpec

=============================================================================

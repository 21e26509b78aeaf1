------------------------------ MODULE MCHostTools ------------------------------
EXTENDS HostTools

\* The wrapper: the options of the machine in every order, up to three of
\* them, and the directories up to four.
o(x) == [opt |-> x, rest |-> ""]
j(x, y) == [opt |-> x, rest |-> y]
w(y) == [opt |-> None, rest |-> y]
MachineArgs == {o("-msoft-float"), o("-mhard-float"), j("-mfloat-abi=", "softfp"),
                j("-mtune=", "x"), o("-static"), o("-shared"), o("-fpic"), o("-D__KERNEL__"),
                w("main.c")}
PathArgs == {o("-I"), j("-I", "/usr/include"), j("-L", "/opt"), j("-isystem", "/usr/include"),
             o("-isystem"), w("/usr/include"), w("/opt")}
Lines(args, n) == UNION {[1 .. k -> args] : k \in 1 .. n}
MCCommandLines == {<<>>} \cup Lines(MachineArgs, 2) \cup Lines(PathArgs, 3)
              \cup {<<a, b, w("main.c")>> : a, b \in {o("-static"), j("-mcpu=", "x"), o("-shared")}}
B(f, p, a, c, d, e, r) ==
    [floatabi |-> f, fp32 |-> p, arch |-> a, cpu |-> c, date |-> d, pie |-> e, relro |-> r]
MCBuilds == {B(TRUE, FALSE, TRUE, TRUE, TRUE, TRUE, "full"),
             B(FALSE, TRUE, TRUE, FALSE, TRUE, TRUE, "partial"),
             B(FALSE, FALSE, FALSE, TRUE, FALSE, FALSE, "none")}
MCFixed == <<w("gcc"), o("--sysroot"), w("sysroot")>>

\* makedevs: a tree with a program, a missing directory, a device that is there
\* already or not, and links to the build machine and to nowhere; and every
\* table of up to three lines.
F(kind, mode) == Inode(kind, "root", mode)
Link(p) == [Inode("link", "root", "777") EXCEPT !.to = p]
HostFile == <<"host", Plain>>
Tree(libc, hda) ==
    [p \in {Plainly(n) : n \in {"bin", "su", "ping", "opt", "app", "lib", "hda", "host"}}
            \cup {<<"hda", i>> : i \in 0 .. 4} |->
        CASE p[1] = "bin" -> F("dir", "755")
          [] p[1] \in {"su", "host"} -> F("file", "755")
          [] p[1] = "lib" -> libc
          [] p = <<"hda", 2>> -> hda
          [] OTHER -> Nothing]
MCTrees == {Tree(Nothing, Nothing), Tree(Nothing, F("node", "640")),
            Tree(Link(HostFile), Nothing), Tree(Link(<<"nowhere", Plain>>), Nothing),
            [Tree(Nothing, Nothing) EXCEPT ![Plainly("hda")] = F("file", "755")]}
MCAbove == [n \in {"bin", "su", "ping", "opt", "app", "lib", "hda", "host"} |->
               CASE n \in {"su", "ping", "lib"} -> <<"bin">>
                 [] n = "app" -> <<"opt">>
                 [] OTHER -> <<>>]
L(name, type, mode, owner) ==
    [is |-> "entry", name |-> name, type |-> type, mode |-> mode, owner |-> owner,
     dev |-> 0, start |-> 0, inc |-> 0, count |-> 0]
N(start, count) == [L("hda", "b", "640", "disk") EXCEPT !.dev = 1, !.start = start, !.inc = 2,
                                                        !.count = count]
MCLines == {L("su", "f", "4755", "root"), L("su", "F", "755", "disk"), L("su", "d", "750", "disk"),
            L("ping", "F", "755", "root"), L("ping", "f", "755", "root"),
            L("bin", "r", Keep, "disk"), L("bin", "r", "700", "root"),
            L("app", "d", Keep, "disk"), L("opt", "d", "750", "root"), L("lib", "f", "644", "disk"),
            L("app", "d", "755", Blank), L("app", "x", "755", "root"), L("opt", "F", "755", "disk"),
            L("su", "f", "755", "nobody"), N(0, 0), N(1, 1), N(1, 3),
            [is |-> "xattr", cap |-> "net"], [is |-> "comment"], [is |-> "invalid"]}
MCTables == UNION {[1 .. k -> MCLines] : k \in 1 .. 3}

=============================================================================

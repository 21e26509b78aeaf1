------------------------------- MODULE HostTools -------------------------------
(***************************************************************************)
(* The two programs of its own that Buildroot runs while it builds a root  *)
(* file system: the compilers' wrapper, once for each file that a package  *)
(* compiles, and makedevs, on the finished tree.  They share no state, so  *)
(* a behaviour is one execution of one of them.                            *)
(***************************************************************************)
EXTENDS ToolchainWrapper, MakeDevs

hvars == <<argv, build, env, step, out, at, warned,
           table, linenum, before, fs, file, buffer, ret, over, host>>

WrapperIdle ==
    /\ argv = <<>> /\ out = <<>> /\ warned = {}
    /\ build = [floatabi |-> FALSE, fp32 |-> FALSE, arch |-> FALSE, cpu |-> FALSE,
                date |-> FALSE, pie |-> FALSE, relro |-> "none"]
    /\ env = [epoch |-> "unset", paranoid |-> FALSE]
    /\ step = "idle"
    /\ at = [i |-> 1, opt |-> 1]

DevsIdle ==
    /\ table = <<>> /\ linenum = 0 /\ before = <<>> /\ fs = <<>> /\ file = <<>>
    /\ buffer = Stranger /\ ret = 0 /\ over = "idle"
    /\ host = [xattrs |-> FALSE, clears |-> FALSE]

HostInit == (WrapperInit /\ DevsIdle) \/ (WrapperIdle /\ DevsInit)

HostNext == (WrapperNext /\ UNCHANGED mvars) \/ (DevsNext /\ UNCHANGED wvars)

HostSpec == HostInit /\ [][HostNext]_hvars

=============================================================================

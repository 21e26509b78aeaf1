-------------------------------- MODULE MakeDevs --------------------------------
(***************************************************************************)
(* The program that gives the files of a root file system their owners and *)
(* modes, and makes its directories and devices, by a table                *)
(* (buildroot/package/makedevs/makedevs.c), one line after the other.      *)
(*                                                                         *)
(* A path is <<name, i>>: a name, with the number i behind it unless i is  *)
(* Plain.  A line is [is |-> "entry", name, type, mode, owner, dev, start, *)
(* inc, count], where owner stands for the user and the group and dev for  *)
(* the minor number; or [is |-> "xattr", cap]; or it is a comment, or      *)
(* invalid.                                                                *)
(***************************************************************************)
EXTENDS Integers, Sequences, FiniteSets

CONSTANTS
    Tables,    \* what the table may say: sequences of lines
    Trees,     \* the root file system at first: [paths -> inodes]
    Above,     \* the directories on the way to a name, the nearest last
    Plain,     \* no number
    Keep,      \* the mode -1
    Blank,     \* an owner that the line does not give
    Stranger,  \* an owner that etc/passwd does not know
    Users      \* the owners it knows; "root" runs the program

VARIABLES
    table,    \* the lines of the table
    linenum,  \* how many of them have been read
    before,   \* the root file system as it was
    fs,       \* the root file system
    file,     \* full_name, or <<>>
    buffer,   \* what the buffers for user and group hold
    ret,      \* the exit status so far
    over,     \* the program has ended, and how
    host      \* [xattrs |-> EXTENDED_ATTRIBUTES, clears |-> what Chown says]

mvars == <<table, linenum, before, fs, file, buffer, ret, over, host>>

\* What makes a tree of inodes and a table of lines: the owners and paths a line
\* gives are names that Users and the trees have, the numbers have no sign, and
\* no file has a capability before makedevs runs.
Nameable(line) ==
    {<<line.name, Plain>>}
      \cup {<<line.name, line.start + k>> : k \in IF line.count > 1 THEN 0 .. line.count - 1 ELSE {}}
IsInode(r) ==
    r = [kind |-> r.kind, owner |-> r.owner, mode |-> r.mode, caps |-> r.caps, dev |-> r.dev,
         to |-> r.to]
ASSUME DevsAssumption ==
    /\ "root" \in Users /\ Users \cap {Blank, Stranger} = {} /\ Blank # Stranger
    /\ Plain \notin Int
    /\ \A tree \in Trees :
          /\ tree = [p \in DOMAIN tree |-> tree[p]]
          /\ \A p \in DOMAIN tree : IsInode(tree[p]) /\ tree[p].caps = {}
    /\ \A lines \in Tables : lines \in Seq({lines[i] : i \in DOMAIN lines})
    /\ \A lines \in Tables : \A i \in DOMAIN lines :
          LET line == lines[i]
          IN  \/ line.is \in {"comment", "invalid"}
              \/ line.is = "xattr" /\ line = [is |-> "xattr", cap |-> line.cap]
              \/ /\ line.is = "entry" /\ line.type \in {"d", "f", "F", "r", "c", "b", "p", "x"}
                 /\ line.owner \in Users \cup {Blank, Stranger}
                 /\ line.start \in Nat /\ line.count \in Nat /\ line.dev \in Nat /\ line.inc \in Nat
                 /\ \A tree \in Trees : Nameable(line) \subseteq DOMAIN tree

Nothing == [kind |-> "none", owner |-> "root", mode |-> "none", caps |-> {}, dev |-> 0,
            to |-> <<>>]
Inode(kind, owner, mode) == [Nothing EXCEPT !.kind = kind, !.owner = owner, !.mode = mode]
Paths == DOMAIN fs
Plainly(name) == <<name, Plain>>

\* chown and chmod follow a link, out of the tree if it is absolute.
Target(f, p) == IF f[p].kind = "link" THEN f[p].to ELSE p
Exists(f, p) == Target(f, p) \in DOMAIN f /\ f[Target(f, p)].kind # "none"

\* Linux takes the set-user-ID bit and the capabilities from a file that gets
\* an owner; fakeroot does not.
Chown(f, p, owner) ==
    LET q == Target(f, p)
        given == [f[q] EXCEPT !.owner = owner]
    IN  [f EXCEPT ![q] = IF host.clears /\ @.kind = "file"
                         THEN [given EXCEPT !.mode = IF @ = "4755" THEN "755" ELSE @, !.caps = {}]
                         ELSE given]
Chmod(f, p, mode) ==
    [f EXCEPT ![Target(f, p)].mode = IF mode = Keep THEN @ ELSE mode]

\* Mutant: the other order.
SetOwnerLast(f, p, line, owner) == Chown(Chmod(f, p, line.mode), p, owner)
SetOwner(f, p, line, owner) == Chmod(Chown(f, p, owner), p, line.mode)

-----------------------------------------------------------------------------
(* One line. *)

Line == table[linenum + 1]

Reads ==
    /\ over = "no" /\ linenum < Len(table)
    /\ linenum' = linenum + 1
    /\ UNCHANGED <<table, before, host>>

Lasting == UNCHANGED <<fs, file, buffer, ret, over>>
Dies == over' = "failed" /\ UNCHANGED <<fs, file, buffer, ret>>

Comment == Reads /\ Line.is = "comment" /\ Lasting

\* Too few fields, or a number over 0xfffff.
Invalid ==
    /\ Reads /\ Line.is = "invalid"
    /\ ret' = 1
    /\ UNCHANGED <<fs, file, buffer, over>>

\* The capabilities of the file of the line before are added to.
Xattr ==
    /\ Reads /\ Line.is = "xattr"
    /\ IF host.xattrs /\ file # <<>> /\ Exists(fs, file) /\ fs[Target(fs, file)].kind = "file"
       THEN /\ fs' = [fs EXCEPT ![Target(fs, file)].caps = @ \cup {Line.cap}]
            /\ UNCHANGED <<file, buffer, ret, over>>
       ELSE Dies

\* Buffers that sscanf does not fill keep what is there: what an earlier line
\* left, nothing (which stands for who runs the program), or what is no name.
Owners ==
    IF Line.owner # Blank THEN {Line.owner}
    ELSE {buffer, "root", Stranger}

\* A line for a file: its owner is looked up first, and an unknown one ends
\* the program.
Entry(types, failed, become) ==
    /\ Reads /\ Line.is = "entry" /\ Line.type \in types
    /\ \E owner \in Owners :
          IF owner = Stranger THEN Dies
          ELSE /\ buffer' = owner
               /\ file' = Plainly(Line.name)
               /\ ret' = IF failed THEN 1 ELSE ret
               /\ fs' \in become[owner]
               /\ UNCHANGED over

\* bb_make_directory with FILEUTILS_RECUR.  A new directory with the mode -1
\* gets all bits.
OnTheWay(line) == [i \in DOMAIN Above[line.name] |-> Plainly(Above[line.name][i])]
CanMake(f, line) ==
    \A i \in DOMAIN OnTheWay(line) :
        Exists(f, OnTheWay(line)[i]) => f[OnTheWay(line)[i]].kind = "dir"
MakeDirectory(f, line) ==
    LET p == Plainly(line.name)
        parents == {OnTheWay(line)[i] : i \in DOMAIN OnTheWay(line)}
        mode(q) == IF q # p THEN "777" ELSE IF line.mode = Keep THEN "7777" ELSE line.mode
    IN  IF ~CanMake(f, line) THEN f
        ELSE [q \in DOMAIN f |-> IF q \in parents \cup {p} /\ f[q].kind = "none"
                                 THEN Inode("dir", "root", mode(q)) ELSE f[q]]

\* Nobody looks at what bb_make_directory returns.
Directory ==
    LET made == MakeDirectory(fs, Line)
        p == Plainly(Line.name)
        done == [owner \in Users |->
                    {IF Exists(made, p) THEN SetOwner(made, p, Line, owner) ELSE made}]
    IN  Entry({"d"}, ~Exists(made, p), done)

IsFile(f, p) == Exists(f, p) /\ f[Target(f, p)].kind = "file"

\* Mutant: the name of a file that is missing is not remembered.
OptionalForgotten ==
    /\ Reads /\ Line.is = "entry" /\ Line.type = "F"
    /\ ~IsFile(fs, Plainly(Line.name))
    /\ Lasting

File ==
    LET p == Plainly(Line.name)
        done == [owner \in Users |-> {IF IsFile(fs, p) THEN SetOwner(fs, p, Line, owner) ELSE fs}]
    IN  Entry({"f"}, ~IsFile(fs, p), done)

OptionalMissing ==
    LET done == [owner \in Users |-> {fs}]
    IN  Entry({"F"}, FALSE, done) /\ ~IsFile(fs, Plainly(Line.name))

OptionalFile ==
    LET p == Plainly(Line.name)
        done == [owner \in Users |-> {SetOwner(fs, p, Line, owner)}]
    IN  Entry({"F"}, FALSE, done) /\ IsFile(fs, p)

\* nftw, from the directory down, in no certain order otherwise, up to the
\* first link that leads nowhere.
Below(f, p) == {q \in DOMAIN f : f[q].kind # "none"
                                 /\ (q = p \/ \E i \in DOMAIN Above[q[1]] :
                                                 Plainly(Above[q[1]][i]) = p)}
Walks(f, p) ==
    LET all == Below(f, p)
        dead == {q \in all : ~Exists(f, q)}
        from(s) == \A q \in s, r \in all :
                      (\E i \in DOMAIN Above[q[1]] : Plainly(Above[q[1]][i]) = r) => r \in s
    IN  IF dead = {} THEN {all} ELSE {s \in SUBSET (all \ dead) : from(s) /\ {p} \ dead \subseteq s}
Recursive ==
    LET p == Plainly(Line.name)
        all == Below(fs, p)
        changed(s, owner) ==
            [q \in DOMAIN fs |-> IF \E r \in s : Target(fs, r) = q
                                 THEN SetOwner(fs, q, Line, owner)[q] ELSE fs[q]]
        done == [owner \in Users |-> {changed(s, owner) : s \in Walks(fs, p)}]
    IN  Entry({"r"}, fs[p].kind = "none" \/ \E q \in all : ~Exists(fs, q), done)

\* Mutant: one too many.
NumbersAndOne(line) == line.start .. line.start + line.count
\* A count of 1 makes one node without a number, as a count of 0 does.
Numbers(line) == line.start .. line.start + (IF line.count = 0 THEN 0 ELSE line.count - 1)
NodePath(line, i) == IF line.count > 1 THEN <<line.name, i>> ELSE Plainly(line.name)

Minor(line, i) == line.dev + (i - line.start) * line.inc

\* mknod, chown and chmod of each of the nodes; mknod takes no mode -1.
Node ==
    LET dirs == {OnTheWay(Line)[q] : q \in DOMAIN OnTheWay(Line)}
        new == {i \in Numbers(Line) : /\ fs[NodePath(Line, i)].kind = "none" /\ Line.mode # Keep
                                      /\ \A q \in dirs : fs[q].kind = "dir"}
        inode(i, owner) ==
            [Inode("node", owner, Line.mode) EXCEPT !.dev = Minor(Line, i)]
        made(owner) ==
            [p \in Paths |-> IF \E i \in new : NodePath(Line, i) = p
                             THEN inode(CHOOSE i \in new : NodePath(Line, i) = p, owner)
                             ELSE fs[p]]
        done == [owner \in Users |-> {made(owner)}]
    IN  Entry({"c", "b", "p"}, new # Numbers(Line), done)

\* A type that there is not.
Unsupported ==
    LET done == [owner \in Users |-> {fs}]
    IN  Entry({"x"}, TRUE, done)

EndOfTable ==
    /\ over = "no" /\ linenum = Len(table)
    /\ over' = IF ret = 0 THEN "done" ELSE "failed"
    /\ UNCHANGED <<table, linenum, before, fs, file, buffer, ret, host>>

-----------------------------------------------------------------------------

DevsInit ==
    /\ table \in Tables
    /\ linenum = 0
    /\ before \in Trees
    /\ fs = before
    /\ file = <<>>
    /\ buffer = Stranger
    /\ ret = 0
    /\ over = "no"
    /\ host \in [xattrs : BOOLEAN, clears : BOOLEAN]

DevsNext ==
    \/ Comment \/ Invalid \/ Xattr
    \/ Directory \/ File \/ OptionalMissing \/ OptionalFile \/ Recursive \/ Node \/ Unsupported
    \/ EndOfTable

DevsSpec == DevsInit /\ [][DevsNext]_mvars

-----------------------------------------------------------------------------
(* Properties.                                                             *)

Nodes == {"c", "b", "p"}
Seen == {l \in 1 .. linenum : table[l].is = "entry"}

\* What the usage text says that a line is about.
Documented(line) ==
    IF line.type \in Nodes /\ line.count > 1
    THEN {<<line.name, line.start + k>> : k \in 0 .. line.count - 1}
    ELSE {Plainly(line.name)}
UnderIt(line, p) ==
    line.type = "r" /\ \E i \in DOMAIN Above[p[1]] : Above[p[1]][i] = line.name
About(line, p) == p \in Documented(line) \/ UnderIt(line, p)

\* The paths that a line has the last word about.  It may come to the file by
\* a link, which leads nobody knows where.
LastWord(l) ==
    {p \in Paths : /\ About(table[l], p)
                   /\ \A m \in Seen : m > l => ~About(table[m], p)
                   /\ UnderIt(table[l], p) => before[p].kind # "none"
                   /\ fs[p].kind # "link"
                   /\ \A q \in Paths : fs[q].kind = "link" => fs[q].to # p}

\* The minor numbers of the nodes of a line are as the usage text has them:
\* the first node has the line's, and each of the others inc more.
NodesAsDocumented ==
    \A l \in Seen : table[l].type \in Nodes =>
        \A p \in Documented(table[l]) :
            /\ fs[p].kind = "node"
            /\ fs[p].dev = table[l].dev + (IF p[2] = Plain THEN 0
                                          ELSE (p[2] - table[l].start) * table[l].inc)

\* If the program reports success every line has been done: everything that a
\* line names is there with the owner and the mode of the last line that is
\* about it, a set-user-ID bit too, but for an optional file that is none.  (Not
\* so for the kind of what a line of type d names, if there was another file in
\* its place.)  Its nodes have the documented numbers.
EveryLineDone ==
    over = "done" =>
      /\ NodesAsDocumented
      /\ \A l \in DOMAIN table :
            /\ table[l].is # "invalid"
            /\ table[l].is = "entry" =>
                  \A p \in LastWord(l) :
                     \/ table[l].type = "F" /\ fs[p].kind # "file"
                     \/ /\ fs[p].kind # "none"
                        /\ table[l].owner # Blank => fs[p].owner = table[l].owner
                        /\ table[l].mode # Keep => fs[p].mode = table[l].mode

\* What a line is about, or the name it gives if capabilities follow it: those
\* do not go to the nodes that are made of the name and a number.
Named(l, p) ==
    \/ About(table[l], p)
    \/ p = Plainly(table[l].name) /\ \E c \in l + 1 .. linenum : table[c].is = "xattr"

\* Nothing changes but what a line names, the directories on the way to it,
\* and what a link leads to.
OnlyWhatIsNamed ==
    \A p \in Paths :
        fs[p] # before[p] =>
            \E l \in Seen :
                \/ Named(l, p)
                \/ \E q \in Paths : fs[q].kind = "link" /\ fs[q].to = p /\ Named(l, q)
                \/ /\ table[l].type = "d"
                   /\ \E i \in DOMAIN OnTheWay(table[l]) : OnTheWay(table[l])[i] = p

\* A capability goes to the file that the entry right above the line names,
\* and to no other.
OwnLine(l) == CHOOSE m \in Seen : m < l /\ \A k \in Seen : k < l => k <= m
CapabilityOnItsFile ==
    \A p \in Paths, cap \in UNION {fs[q].caps : q \in Paths} :
        cap \in fs[p].caps =>
            \E l \in 1 .. linenum :
                /\ table[l] = [is |-> "xattr", cap |-> cap]
                /\ LET q == Plainly(table[OwnLine(l)].name)
                   IN  q = p \/ (fs[q].kind = "link" /\ fs[q].to = p)

=============================================================================

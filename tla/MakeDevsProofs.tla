----------------------------- MODULE MakeDevsProofs -----------------------------
(***************************************************************************)
(* What holds of makedevs for every table and every tree: it changes only  *)
(* what a line names, a capability goes to the file of the line above, and *)
(* success means that every line has been done.                            *)
(***************************************************************************)
EXTENDS MakeDevs, TLAPS

IsTree(f) == f = [p \in DOMAIN f |-> f[p]] /\ \A p \in DOMAIN f : IsInode(f[p])

\* What an inode keeps for as long as it exists.
Same(r, s) == s.kind = r.kind /\ s.to = r.to /\ s.dev = r.dev

\* What SetOwner makes of an inode.
Given(r, s, line, owner) ==
    /\ IsInode(s) /\ Same(r, s)
    /\ s.owner = owner
    /\ line.mode # Keep => s.mode = line.mode
    /\ s.caps \subseteq r.caps

-----------------------------------------------------------------------------
(* The operations on a tree.                                               *)

LEMMA ChownDoes ==
    ASSUME NEW f, IsTree(f), NEW p, NEW owner, Target(f, p) \in DOMAIN f
    PROVE  LET g == Chown(f, p, owner)
               q == Target(f, p)
           IN  /\ IsTree(g) /\ DOMAIN g = DOMAIN f
               /\ \A x \in DOMAIN f : x # q => g[x] = f[x]
               /\ Same(f[q], g[q]) /\ g[q].owner = owner /\ g[q].caps \subseteq f[q].caps
<1> DEFINE g == Chown(f, p, owner)
           q == Target(f, p)
           r == f[q]
           given == [r EXCEPT !.owner = owner]
           s == IF host.clears /\ r.kind = "file"
                THEN [given EXCEPT !.mode = IF @ = "4755" THEN "755" ELSE @, !.caps = {}]
                ELSE given
<1>1. g = [f EXCEPT ![q] = s]
  BY Zenon DEF Chown
<1>2. IsInode(r)
  BY DEF IsTree
<1>3. IsInode(s) /\ Same(r, s) /\ s.owner = owner /\ s.caps \subseteq r.caps
  <2> HIDE DEF r
  <2>1. r = [kind |-> r.kind, owner |-> r.owner, mode |-> r.mode, caps |-> r.caps, dev |-> r.dev,
             to |-> r.to]
    BY <1>2 DEF IsInode
  <2>2. given = [kind |-> r.kind, owner |-> owner, mode |-> r.mode, caps |-> r.caps,
                 dev |-> r.dev, to |-> r.to]
    BY <2>1
  <2>3. s = [kind |-> r.kind, owner |-> owner, mode |-> s.mode, caps |-> s.caps,
             dev |-> r.dev, to |-> r.to] /\ s.caps \in {r.caps, {}}
    BY <2>2
  <2> HIDE DEF s
  <2>4. QED
    BY <2>3 DEF IsInode, Same
<1> HIDE DEF g, q, r, s
<1>4. DOMAIN g = DOMAIN f /\ g = [x \in DOMAIN f |-> IF x = q THEN s ELSE f[x]]
  BY <1>1 DEF IsTree
<1>5. g[q] = s /\ \A x \in DOMAIN f : x # q => g[x] = f[x]
  BY <1>4 DEF q
<1>6. IsTree(g)
  BY <1>3, <1>4 DEF IsTree
<1>7. QED
  BY <1>3, <1>4, <1>5, <1>6 DEF g, q, r
LEMMA SetOwnerDoes ==
    ASSUME NEW f, IsTree(f), NEW p, NEW line, NEW owner, Target(f, p) \in DOMAIN f, p \in DOMAIN f
    PROVE  LET g == SetOwner(f, p, line, owner)
               q == Target(f, p)
           IN  /\ IsTree(g) /\ DOMAIN g = DOMAIN f
               /\ \A x \in DOMAIN f : x # q => g[x] = f[x]
               /\ Given(f[q], g[q], line, owner)
<1> DEFINE q == Target(f, p)
           h == Chown(f, p, owner)
           g == SetOwner(f, p, line, owner)
           t == [h[q] EXCEPT !.mode = IF line.mode = Keep THEN @ ELSE line.mode]
<1>1. /\ IsTree(h) /\ DOMAIN h = DOMAIN f
      /\ \A x \in DOMAIN f : x # q => h[x] = f[x]
      /\ Same(f[q], h[q]) /\ h[q].owner = owner /\ h[q].caps \subseteq f[q].caps
  BY ChownDoes
<1>2. h[p].kind = f[p].kind /\ h[p].to = f[p].to
  BY <1>1 DEF Same
<1>3. Target(h, p) = q
  BY <1>2 DEF Target
<1>4. g = [h EXCEPT ![Target(h, p)].mode = IF line.mode = Keep THEN @ ELSE line.mode]
  BY Zenon DEF SetOwner, Chmod
<1>5. g = [h EXCEPT ![q] = t]
  <2> HIDE DEF g, h, q
  <2>1. QED
    BY <1>3, <1>4
<1>6. IsInode(t) /\ Same(h[q], t) /\ t.owner = owner /\ t.caps = h[q].caps
      /\ (line.mode # Keep => t.mode = line.mode)
  <2> DEFINE r == h[q]
  <2>1. r = [kind |-> r.kind, owner |-> r.owner, mode |-> r.mode, caps |-> r.caps, dev |-> r.dev,
             to |-> r.to] /\ r.owner = owner
    BY <1>1 DEF IsTree, IsInode
  <2> HIDE DEF r
  <2>2. [r EXCEPT !.mode = IF line.mode = Keep THEN @ ELSE line.mode] =
        [kind |-> r.kind, owner |-> owner, mode |-> IF line.mode = Keep THEN r.mode ELSE line.mode,
         caps |-> r.caps, dev |-> r.dev, to |-> r.to]
    BY <2>1
  <2>3. t = [r EXCEPT !.mode = IF line.mode = Keep THEN @ ELSE line.mode]
    BY DEF r
  <2> HIDE DEF t
  <2>4. IsInode(t) /\ Same(r, t) /\ t.owner = owner /\ t.caps = r.caps
        /\ (line.mode # Keep => t.mode = line.mode)
    BY <2>2, <2>3 DEF IsInode, Same
  <2>5. QED
    BY <2>4 DEF r
<1> HIDE DEF g, h, q, t
<1>7. DOMAIN g = DOMAIN f /\ g = [x \in DOMAIN f |-> IF x = q THEN t ELSE h[x]]
  BY <1>1, <1>5 DEF IsTree
<1>8. g[q] = t /\ \A x \in DOMAIN f : x # q => g[x] = f[x]
  BY <1>1, <1>7 DEF q
<1>9. IsTree(g)
  BY <1>1, <1>6, <1>7 DEF IsTree
<1>10. Given(f[q], g[q], line, owner)
  BY <1>1, <1>6, <1>8 DEF Given, Same
<1>11. QED
  BY <1>7, <1>8, <1>9, <1>10 DEF g, q

\* What it makes of the path itself.
LEMMA SetOwnerHere ==
    ASSUME NEW f, IsTree(f), NEW q \in DOMAIN f, NEW line, NEW owner
    PROVE  LET g == SetOwner(f, q, line, owner)
           IN  IF Target(f, q) = q THEN Given(f[q], g[q], line, owner) ELSE g[q] = f[q]
<1> DEFINE g == SetOwner(f, q, line, owner)
           h == Chown(f, q, owner)
           t == Target(f, q)
<1>1. CASE t = q
  BY <1>1, SetOwnerDoes
<1>2. CASE t # q
  <2>1. PICK s : h = [f EXCEPT ![t] = s]
    BY Zenon DEF Chown
  <2>2. g = [h EXCEPT ![Target(h, q)].mode = IF line.mode = Keep THEN @ ELSE line.mode]
    BY Zenon DEF SetOwner, Chmod
  <2> HIDE DEF g, h, t
  <2>3. DOMAIN h = DOMAIN f /\ h[q] = f[q]
    BY <1>2, <2>1 DEF IsTree
  <2>4. Target(h, q) = t
    BY <2>3 DEF Target, t
  <2>5. h = [x \in DOMAIN f |-> h[x]]
    BY <2>1, <2>3 DEF IsTree
  <2>6. g[q] = h[q]
    BY <1>2, <2>2, <2>3, <2>4, <2>5
  <2>7. QED
    BY <1>2, <2>3, <2>6 DEF g, t
<1>3. QED
  BY <1>1, <1>2

\* A field of an inode is set.
LEMMA FieldSet ==
    ASSUME NEW r, IsInode(r), NEW v
    PROVE  /\ [r EXCEPT !.kind = v] = [kind |-> v, owner |-> r.owner, mode |-> r.mode,
                                       caps |-> r.caps, dev |-> r.dev, to |-> r.to]
           /\ [r EXCEPT !.owner = v] = [kind |-> r.kind, owner |-> v, mode |-> r.mode,
                                        caps |-> r.caps, dev |-> r.dev, to |-> r.to]
           /\ [r EXCEPT !.mode = v] = [kind |-> r.kind, owner |-> r.owner, mode |-> v,
                                       caps |-> r.caps, dev |-> r.dev, to |-> r.to]
           /\ [r EXCEPT !.dev = v] = [kind |-> r.kind, owner |-> r.owner, mode |-> r.mode,
                                      caps |-> r.caps, dev |-> v, to |-> r.to]
           /\ [r EXCEPT !.caps = v] = [kind |-> r.kind, owner |-> r.owner, mode |-> r.mode,
                                       caps |-> v, dev |-> r.dev, to |-> r.to]
BY DEF IsInode

LEMMA InodeIs ==
    ASSUME NEW kind, NEW owner, NEW mode
    PROVE  LET r == Inode(kind, owner, mode)
           IN  /\ IsInode(r)
               /\ r.kind = kind /\ r.owner = owner /\ r.mode = mode /\ r.caps = {}
<1> DEFINE one == [Nothing EXCEPT !.kind = kind]
           two == [one EXCEPT !.owner = owner]
           three == [two EXCEPT !.mode = mode]
<1>1. IsInode(Nothing) /\ Nothing.caps = {}
  BY DEF IsInode, Nothing
<1>2. IsInode(one) /\ one.caps = {} /\ one.kind = kind
  BY <1>1, FieldSet DEF IsInode
<1>3. IsInode(two) /\ two.caps = {} /\ two.kind = kind /\ two.owner = owner
  <2> HIDE DEF one
  <2> QED BY <1>2, FieldSet DEF IsInode
<1>4. IsInode(three) /\ three.caps = {} /\ three.kind = kind /\ three.owner = owner
      /\ three.mode = mode
  <2> HIDE DEF two
  <2> QED BY <1>3, FieldSet DEF IsInode
<1>5. Inode(kind, owner, mode) = three
  BY Zenon DEF Inode
<1> HIDE DEF three
<1>6. QED
  BY <1>4, <1>5

\* The directories of a line that MakeDirectory makes.
LEMMA MakeDirectoryDoes ==
    ASSUME NEW f, IsTree(f), NEW line
    PROVE  LET g == MakeDirectory(f, line)
           IN  /\ IsTree(g) /\ DOMAIN g = DOMAIN f
               /\ \A x \in DOMAIN f :
                     \/ g[x] = f[x]
                     \/ /\ x = Plainly(line.name) \/ \E i \in DOMAIN OnTheWay(line) : OnTheWay(line)[i] = x
                        /\ f[x].kind = "none" /\ g[x].kind = "dir" /\ g[x].caps = {}
<1> DEFINE g == MakeDirectory(f, line)
           p == Plainly(line.name)
           parents == {OnTheWay(line)[i] : i \in DOMAIN OnTheWay(line)}
           mode(q) == IF q # p THEN "777" ELSE IF line.mode = Keep THEN "7777" ELSE line.mode
           made(q) == Inode("dir", "root", mode(q))
<1>1. CASE ~CanMake(f, line)
  BY <1>1 DEF MakeDirectory
<1>2. CASE CanMake(f, line)
  <2>1. g = [q \in DOMAIN f |-> IF q \in parents \cup {p} /\ f[q].kind = "none"
                                THEN made(q) ELSE f[q]]
    BY <1>2, Zenon DEF MakeDirectory
  <2>2. \A q : IsInode(made(q)) /\ made(q).kind = "dir" /\ made(q).caps = {}
    <3>1. ASSUME NEW m
          PROVE  IsInode(Inode("dir", "root", m)) /\ Inode("dir", "root", m).kind = "dir"
                 /\ Inode("dir", "root", m).caps = {}
      BY InodeIs
    <3>2. QED
      BY <3>1
  <2> HIDE DEF g, made
  <2>3. DOMAIN g = DOMAIN f
    BY <2>1
  <2>4. \A q \in DOMAIN f : g[q] = IF q \in parents \cup {p} /\ f[q].kind = "none"
                                  THEN made(q) ELSE f[q]
    BY <2>1
  <2>5. IsTree(g)
    BY <2>1, <2>2, <2>3, <2>4 DEF IsTree
  <2>6. \A x \in DOMAIN f :
           \/ g[x] = f[x]
           \/ /\ x = p \/ \E i \in DOMAIN OnTheWay(line) : OnTheWay(line)[i] = x
              /\ f[x].kind = "none" /\ g[x].kind = "dir" /\ g[x].caps = {}
    <3> HIDE DEF p
    <3> QED BY <2>2, <2>4
  <2>7. QED
    BY <2>3, <2>5, <2>6 DEF g
<1>3. QED
  BY <1>1, <1>2

-----------------------------------------------------------------------------
(* One line.                                                               *)

LineOK(line) ==
    \/ line.is \in {"comment", "invalid"}
    \/ line.is = "xattr" /\ line = [is |-> "xattr", cap |-> line.cap]
    \/ /\ line.is = "entry" /\ line.type \in {"d", "f", "F", "r", "c", "b", "p", "x"}
       /\ line.owner \in Users \cup {Blank, Stranger}
       /\ line.start \in Nat /\ line.count \in Nat /\ line.dev \in Nat /\ line.inc \in Nat
       /\ Nameable(line) \subseteq Paths

\* The type invariant.
DevsTypeOK ==
    /\ table \in Tables /\ linenum \in 0 .. Len(table) /\ before \in Trees
    /\ IsTree(fs) /\ DOMAIN fs = DOMAIN before
    /\ buffer \in Users \cup {Stranger}
    /\ ret \in {0, 1}
    /\ over \in {"no", "done", "failed"}

LEMMA LinesOK ==
    ASSUME DevsTypeOK
    PROVE  /\ Len(table) \in Nat /\ DOMAIN table = 1 .. Len(table)
           /\ \A l \in 1 .. Len(table) : LineOK(table[l])
<1>1. table \in Seq({table[i] : i \in DOMAIN table})
  BY DevsAssumption DEF DevsTypeOK
<1>2. Len(table) \in Nat /\ DOMAIN table = 1 .. Len(table)
  BY <1>1
<1>3. ASSUME NEW l \in DOMAIN table PROVE LineOK(table[l])
  <2>1. \/ table[l].is \in {"comment", "invalid"}
        \/ table[l].is = "xattr" /\ table[l] = [is |-> "xattr", cap |-> table[l].cap]
        \/ /\ table[l].is = "entry" /\ table[l].type \in {"d", "f", "F", "r", "c", "b", "p", "x"}
           /\ table[l].owner \in Users \cup {Blank, Stranger}
           /\ table[l].start \in Nat /\ table[l].count \in Nat
           /\ table[l].dev \in Nat /\ table[l].inc \in Nat
           /\ \A tree \in Trees : Nameable(table[l]) \subseteq DOMAIN tree
    BY DevsAssumption, Zenon DEF DevsTypeOK
  <2>2. QED
    BY <2>1 DEF LineOK, DevsTypeOK, Paths
<1>4. QED
  BY <1>2, <1>3

\* What a line may do to an inode of a path that it is about, or that a link
\* of such a path leads to: a file stays what it is, and gets no capability.
Touched(x) ==
    \/ About(Line, x)
    \/ \E q \in Paths : fs[q].kind = "link" /\ fs[q].to = x /\ About(Line, q)
Evolves(r, s) ==
    \/ r.kind # "none" /\ Same(r, s) /\ s.caps \subseteq r.caps
    \/ r.kind = "none" /\ s.kind \in {"dir", "node"} /\ s.caps = {}
OnWay(x) == Line.type = "d" /\ \E i \in DOMAIN OnTheWay(Line) : OnTheWay(Line)[i] = x

\* What a line does to the tree.
Effect(g) ==
    /\ IsTree(g) /\ DOMAIN g = DOMAIN fs
    /\ \A x \in Paths :
          \/ g[x] = fs[x]
          \/ Touched(x) /\ Evolves(fs[x], g[x])
          \/ OnWay(x) /\ fs[x].kind = "none" /\ g[x].kind = "dir" /\ g[x].caps = {}

\* What it has done if the program does not note that it failed.
Satisfied(line, r) ==
    \/ line.type = "F" /\ r.kind # "file"
    \/ /\ r.kind # "none"
       /\ line.owner # Blank => r.owner = line.owner
       /\ line.mode # Keep => r.mode = line.mode
NodesOf(line, g) ==
    line.type \in Nodes =>
        \A p \in Documented(line) :
            /\ g[p].kind = "node"
            /\ g[p].dev = line.dev + (IF p[2] = Plain THEN 0 ELSE (p[2] - line.start) * line.inc)
Achieves(g) ==
    /\ NodesOf(Line, g)
    /\ \A x \in Paths : /\ About(Line, x) /\ g[x].kind # "link"
                        /\ UnderIt(Line, x) => fs[x].kind # "none"
                        => Satisfied(Line, g[x])

\* What every entry of the table does.
Enters ==
    /\ Reads /\ Line.is = "entry"
    /\ \/ over' = "failed" /\ UNCHANGED <<fs, file, buffer, ret>>
       \/ /\ buffer' \in Users
          /\ file' = Plainly(Line.name) /\ over' = over
          /\ Effect(fs')
          /\ ret' \in {ret, 1} /\ (ret' = 0 => Achieves(fs'))

LEMMA EntryReads ==
    ASSUME DevsTypeOK, NEW types, NEW failed, NEW become, Entry(types, failed, become),
           \A owner \in Users : Line.owner \in {owner, Blank} =>
              \A g \in become[owner] : Effect(g) /\ (~failed => Achieves(g))
    PROVE  Enters
<1>1. Reads /\ Line.is = "entry"
  BY DEF Entry
<1>2. LineOK(Line)
  BY <1>1, LinesOK DEF Reads, Line, DevsTypeOK
<1>3. Line.owner \in Users \cup {Blank, Stranger}
  BY <1>1, <1>2 DEF LineOK
<1>4. PICK owner \in Owners :
          IF owner = Stranger THEN Dies
          ELSE /\ buffer' = owner /\ file' = Plainly(Line.name)
               /\ ret' = IF failed THEN 1 ELSE ret
               /\ fs' \in become[owner] /\ UNCHANGED over
  BY DEF Entry
<1>5. owner \in Users \cup {Stranger} /\ (owner # Stranger => Line.owner \in {owner, Blank})
  BY <1>3, DevsAssumption DEF Owners, DevsTypeOK
<1>6. CASE owner = Stranger
  BY <1>1, <1>4, <1>6 DEF Enters, Dies
<1>7. CASE owner # Stranger
  <2>1. owner \in Users /\ fs' \in become[owner]
    BY <1>4, <1>5, <1>7
  <2>2. Effect(fs') /\ (~failed => Achieves(fs'))
    BY <1>5, <1>7, <2>1
  <2>3. QED
    BY <1>1, <1>4, <1>7, <2>1, <2>2 DEF Enters
<1>8. QED
  BY <1>6, <1>7

LEMMA LineFacts ==
    ASSUME DevsTypeOK, Reads
    PROVE  /\ LineOK(Line)
           /\ Line.is = "entry" => Plainly(Line.name) \in Paths
<1>1. LineOK(Line)
  BY LinesOK DEF Reads, Line, DevsTypeOK
<1>2. Line.is = "entry" => Plainly(Line.name) \in Paths
  BY <1>1 DEF LineOK, Nameable, Plainly
<1>3. QED
  BY <1>1, <1>2

\* But for recursion and nodes, a line is about the path that it names.
LEMMA AboutItsName ==
    ASSUME NEW line, line.type \in {"d", "f", "F", "x"}
    PROVE  /\ line.type \notin Nodes
           /\ \A x : About(line, x) <=> x = Plainly(line.name)
           /\ \A x : ~UnderIt(line, x)
BY DEF About, Documented, UnderIt, Nodes

LEMMA AchievesItsName ==
    ASSUME NEW g, Line.type \in {"d", "f", "F", "x"},
           g[Plainly(Line.name)].kind = "link" \/ Satisfied(Line, g[Plainly(Line.name)])
    PROVE  Achieves(g)
<1>1. Line.type \notin Nodes /\ \A x : About(Line, x) => x = Plainly(Line.name)
  BY AboutItsName
<1>2. NodesOf(Line, g)
  BY <1>1 DEF NodesOf
<1>3. ASSUME NEW x \in Paths, About(Line, x), g[x].kind # "link" PROVE Satisfied(Line, g[x])
  BY <1>1, <1>3
<1>4. QED
  BY <1>2, <1>3 DEF Achieves

LEMMA NoEffect == DevsTypeOK => Effect(fs)
BY DEF Effect, DevsTypeOK

\* Who has done part of a line, and then sets the owner of a path it is about,
\* has done part of it.
LEMMA SetsOwner ==
    ASSUME DevsTypeOK, NEW f, Effect(f), NEW p \in Paths, About(Line, p), Exists(f, p), NEW owner
    PROVE  LET g == SetOwner(f, p, Line, owner)
           IN  /\ Effect(g)
               /\ g[p].kind # "link" => Given(f[p], g[p], Line, owner) /\ f[p].kind # "none"
<1> DEFINE g == SetOwner(f, p, Line, owner)
           q == Target(f, p)
<1>1. IsTree(f) /\ DOMAIN f = Paths /\ q \in Paths /\ f[q].kind # "none"
  BY DEF Effect, Exists, Paths
<1>2. /\ IsTree(g) /\ DOMAIN g = Paths
      /\ \A x \in Paths : x # q => g[x] = f[x]
      /\ Given(f[q], g[q], Line, owner)
  BY <1>1, SetOwnerDoes
<1>3. \A x \in Paths : \/ f[x] = fs[x]
                       \/ Touched(x) /\ Evolves(fs[x], f[x])
                       \/ OnWay(x) /\ fs[x].kind = "none" /\ f[x].kind = "dir" /\ f[x].caps = {}
  BY DEF Effect
<1>4. f[p].kind = "link" => fs[p].kind = "link" /\ fs[p].to = f[p].to
  BY <1>3 DEF Evolves, Same
<1>5. Touched(q)
  BY <1>4 DEF Touched, Target
<1> HIDE DEF g, q
<1>6. Evolves(fs[q], g[q])
  BY <1>1, <1>2, <1>3 DEF Evolves, Given, Same
<1>7. ASSUME NEW x \in Paths
      PROVE  \/ g[x] = fs[x]
             \/ Touched(x) /\ Evolves(fs[x], g[x])
             \/ OnWay(x) /\ fs[x].kind = "none" /\ g[x].kind = "dir" /\ g[x].caps = {}
  BY <1>2, <1>3, <1>5, <1>6
<1>8. Effect(g)
  BY <1>2, <1>7 DEF Effect, Paths
<1>9. g[p].kind # "link" => Given(f[p], g[p], Line, owner) /\ f[p].kind # "none"
  <2>1. CASE q = p
    BY <1>1, <1>2, <2>1
  <2>2. CASE q # p
    BY <1>2, <2>2 DEF Target, q
  <2>3. QED
    BY <2>1, <2>2
<1>10. QED
  BY <1>8, <1>9 DEF g

\* It has done all of a line that is about this path only.
LEMMA SetsAndAchieves ==
    ASSUME DevsTypeOK, Line.type \in {"d", "f", "F", "x"}, NEW f, Effect(f),
           Plainly(Line.name) \in Paths, Exists(f, Plainly(Line.name)),
           NEW owner, Line.owner \in {owner, Blank}
    PROVE  LET g == SetOwner(f, Plainly(Line.name), Line, owner)
           IN  Effect(g) /\ Achieves(g)
<1> DEFINE p == Plainly(Line.name)
           g == SetOwner(f, p, Line, owner)
<1>1. About(Line, p)
  BY AboutItsName
<1>2. /\ Effect(g)
      /\ g[p].kind # "link" => Given(f[p], g[p], Line, owner) /\ f[p].kind # "none"
  BY <1>1, SetsOwner
<1> HIDE DEF g
<1>3. g[p].kind = "link" \/ Satisfied(Line, g[p])
  BY <1>2 DEF Satisfied, Given, Same
<1>4. Achieves(g)
  BY <1>3, AchievesItsName
<1>5. QED
  BY <1>2, <1>4 DEF g

LEMMA FileEnters == ASSUME DevsTypeOK, File PROVE Enters
<1> DEFINE p == Plainly(Line.name)
           done == [owner \in Users |-> {IF IsFile(fs, p) THEN SetOwner(fs, p, Line, owner) ELSE fs}]
<1>1. Entry({"f"}, ~IsFile(fs, p), done)
  BY Zenon DEF File
<1>2. Line.type = "f" /\ Line.is = "entry" /\ Reads
  BY <1>1 DEF Entry
<1>3. p \in Paths /\ (IsFile(fs, p) => Exists(fs, p))
  BY <1>2, LineFacts DEF IsFile
<1>4. \A owner \in Users : done[owner] = {IF IsFile(fs, p) THEN SetOwner(fs, p, Line, owner) ELSE fs}
  OBVIOUS
<1> HIDE DEF p, done
<1>5. ASSUME NEW owner \in Users, Line.owner \in {owner, Blank}, NEW g, g \in done[owner]
      PROVE  Effect(g) /\ (~~IsFile(fs, p) => Achieves(g))
  <2>1. CASE ~IsFile(fs, p)
    BY <1>4, <1>5, <2>1, NoEffect
  <2>2. CASE IsFile(fs, p)
    <3>1. g = SetOwner(fs, p, Line, owner)
      BY <1>4, <1>5, <2>2
    <3>2. QED
      BY <1>2, <1>3, <1>5, <2>2, <3>1, NoEffect, SetsAndAchieves DEF p
  <2>3. QED
    BY <2>1, <2>2
<1>6. QED
  BY <1>1, <1>5, EntryReads

LEMMA OptionalFileEnters == ASSUME DevsTypeOK, OptionalFile PROVE Enters
<1> DEFINE p == Plainly(Line.name)
           done == [owner \in Users |-> {SetOwner(fs, p, Line, owner)}]
<1>1. Entry({"F"}, FALSE, done) /\ IsFile(fs, p)
  BY Zenon DEF OptionalFile
<1>2. Line.type = "F" /\ Line.is = "entry" /\ Reads
  BY <1>1 DEF Entry
<1>3. p \in Paths /\ Exists(fs, p)
  BY <1>1, <1>2, LineFacts DEF IsFile
<1>4. \A owner \in Users : done[owner] = {SetOwner(fs, p, Line, owner)}
  OBVIOUS
<1> HIDE DEF p, done
<1>5. ASSUME NEW owner \in Users, Line.owner \in {owner, Blank}, NEW g, g \in done[owner]
      PROVE  Effect(g) /\ (~FALSE => Achieves(g))
  <2>1. g = SetOwner(fs, p, Line, owner)
    BY <1>4, <1>5
  <2>2. QED
    BY <1>2, <1>3, <1>5, <2>1, NoEffect, SetsAndAchieves DEF p
<1>6. QED
  BY <1>1, <1>5, EntryReads

LEMMA OptionalMissingEnters == ASSUME DevsTypeOK, OptionalMissing PROVE Enters
<1> DEFINE p == Plainly(Line.name)
           done == [owner \in Users |-> {fs}]
<1>1. Entry({"F"}, FALSE, done) /\ ~IsFile(fs, p)
  BY Zenon DEF OptionalMissing
<1>2. Line.type = "F" /\ Line.is = "entry" /\ Reads
  BY <1>1 DEF Entry
<1>3. p \in Paths
  BY <1>2, LineFacts
<1>4. \A owner \in Users : done[owner] = {fs}
  OBVIOUS
<1> HIDE DEF done
<1>5. fs[p].kind # "file"
  BY <1>1, <1>3 DEF IsFile, Exists, Target, Paths
<1>6. Achieves(fs)
  <2>1. Satisfied(Line, fs[p])
    BY <1>2, <1>5 DEF Satisfied
  <2>2. QED
    BY <1>2, <2>1, AchievesItsName
<1>7. Effect(fs)
  BY NoEffect
<1>8. ASSUME NEW owner \in Users, Line.owner \in {owner, Blank}, NEW g, g \in done[owner]
      PROVE  Effect(g) /\ (~FALSE => Achieves(g))
  <2>1. g = fs
    BY <1>4, <1>8
  <2>2. QED
    BY <1>6, <1>7, <2>1
<1>9. QED
  BY <1>1, <1>8, EntryReads

LEMMA UnsupportedEnters == ASSUME DevsTypeOK, Unsupported PROVE Enters
<1> DEFINE done == [owner \in Users |-> {fs}]
<1>1. Entry({"x"}, TRUE, done)
  BY Zenon DEF Unsupported
<1>2. \A owner \in Users : done[owner] = {fs}
  OBVIOUS
<1> HIDE DEF done
<1>3. Effect(fs)
  BY NoEffect
<1>4. ASSUME NEW owner \in Users, Line.owner \in {owner, Blank}, NEW g, g \in done[owner]
      PROVE  Effect(g) /\ (~TRUE => Achieves(g))
  <2>1. g = fs
    BY <1>2, <1>4
  <2>2. QED
    BY <1>3, <2>1
<1>5. QED
  BY <1>1, <1>4, EntryReads

\* What MakeDirectory makes is what a line of type d is about, or on the way.
LEMMA MakesInEffect ==
    ASSUME DevsTypeOK, Line.type = "d", Plainly(Line.name) \in Paths
    PROVE  Effect(MakeDirectory(fs, Line))
<1> DEFINE g == MakeDirectory(fs, Line)
<1>1. /\ IsTree(g) /\ DOMAIN g = DOMAIN fs
      /\ \A x \in DOMAIN fs :
            \/ g[x] = fs[x]
            \/ /\ x = Plainly(Line.name) \/ \E i \in DOMAIN OnTheWay(Line) : OnTheWay(Line)[i] = x
               /\ fs[x].kind = "none" /\ g[x].kind = "dir" /\ g[x].caps = {}
  BY MakeDirectoryDoes DEF DevsTypeOK
<1> HIDE DEF g
<1>2. Touched(Plainly(Line.name))
  BY AboutItsName DEF Touched
<1>3. ASSUME NEW x \in Paths
      PROVE  \/ g[x] = fs[x]
             \/ Touched(x) /\ Evolves(fs[x], g[x])
             \/ OnWay(x) /\ fs[x].kind = "none" /\ g[x].kind = "dir" /\ g[x].caps = {}
  <2>1. x \in DOMAIN fs
    BY DEF Paths
  <2>2. CASE g[x] = fs[x]
    BY <2>2
  <2>3. CASE x = Plainly(Line.name) /\ fs[x].kind = "none" /\ g[x].kind = "dir" /\ g[x].caps = {}
    BY <1>2, <2>3 DEF Evolves
  <2>4. CASE /\ \E i \in DOMAIN OnTheWay(Line) : OnTheWay(Line)[i] = x
             /\ fs[x].kind = "none" /\ g[x].kind = "dir" /\ g[x].caps = {}
    BY <2>4 DEF OnWay
  <2>5. QED
    BY <1>1, <2>1, <2>2, <2>3, <2>4
<1>4. QED
  BY <1>1, <1>3 DEF Effect, g

LEMMA DirectoryEnters == ASSUME DevsTypeOK, Directory PROVE Enters
<1> DEFINE p == Plainly(Line.name)
           made == MakeDirectory(fs, Line)
           done == [owner \in Users |->
                       {IF Exists(made, p) THEN SetOwner(made, p, Line, owner) ELSE made}]
<1>1. Entry({"d"}, ~Exists(made, p), done)
  BY Zenon DEF Directory
<1>2. Line.type = "d" /\ Line.is = "entry" /\ Reads
  BY <1>1 DEF Entry
<1>3. p \in Paths
  BY <1>2, LineFacts
<1>4. \A owner \in Users :
         done[owner] = {IF Exists(made, p) THEN SetOwner(made, p, Line, owner) ELSE made}
  OBVIOUS
<1>5. Effect(made)
  BY <1>2, <1>3, MakesInEffect
<1> HIDE DEF p, made, done
<1>6. ASSUME NEW owner \in Users, Line.owner \in {owner, Blank}, NEW g, g \in done[owner]
      PROVE  Effect(g) /\ (~~Exists(made, p) => Achieves(g))
  <2>1. CASE ~Exists(made, p)
    BY <1>4, <1>5, <1>6, <2>1
  <2>2. CASE Exists(made, p)
    <3>1. g = SetOwner(made, p, Line, owner)
      BY <1>4, <1>6, <2>2
    <3>2. QED
      BY <1>2, <1>3, <1>5, <1>6, <2>2, <3>1, SetsAndAchieves DEF p
  <2>3. QED
    BY <2>1, <2>2
<1>7. QED
  BY <1>1, <1>6, EntryReads

LEMMA BelowIsAbout ==
    ASSUME Line.type = "r", NEW x \in Paths
    PROVE  /\ x \in Below(fs, Plainly(Line.name)) => About(Line, x) /\ fs[x].kind # "none"
           /\ About(Line, x) /\ fs[x].kind # "none" => x \in Below(fs, Plainly(Line.name))
<1>1. Line.type \notin Nodes
  BY DEF Nodes
<1>2. Documented(Line) = {Plainly(Line.name)}
  BY <1>1 DEF Documented
<1>3. \A i \in DOMAIN Above[x[1]] :
         Plainly(Above[x[1]][i]) = Plainly(Line.name) <=> Above[x[1]][i] = Line.name
  BY DEF Plainly
<1>4. About(Line, x) <=> \/ x = Plainly(Line.name)
                         \/ \E i \in DOMAIN Above[x[1]] : Plainly(Above[x[1]][i]) = Plainly(Line.name)
  BY <1>2, <1>3 DEF About, UnderIt
<1>5. QED
  BY <1>4 DEF Below, Paths

\* What chown and chmod of the paths s make of the tree.
Walked(s, owner) ==
    [q \in DOMAIN fs |-> IF \E r \in s : Target(fs, r) = q
                         THEN SetOwner(fs, q, Line, owner)[q] ELSE fs[q]]

\* A walk over some of the files of a directory, none of them a dead link.
LEMMA WalkDoes ==
    ASSUME DevsTypeOK, Line.type = "r",
           NEW s, s \subseteq Below(fs, Plainly(Line.name)), \A r \in s : Exists(fs, r),
           NEW owner,
           NEW g, g = Walked(s, owner)
    PROVE  /\ Effect(g)
           /\ \A x \in s : g[x].kind # "link" =>
                 Given(fs[x], g[x], Line, owner) /\ fs[x].kind # "none"
<1>1. IsTree(fs) /\ DOMAIN g = DOMAIN fs
  BY DEF DevsTypeOK, Walked
<1>2. \A q \in DOMAIN fs : g[q] = IF \E r \in s : Target(fs, r) = q
                                 THEN SetOwner(fs, q, Line, owner)[q] ELSE fs[q]
  BY DEF Walked
<1>3. \A q \in DOMAIN fs : IF Target(fs, q) = q
                           THEN Given(fs[q], SetOwner(fs, q, Line, owner)[q], Line, owner)
                           ELSE SetOwner(fs, q, Line, owner)[q] = fs[q]
  BY <1>1, SetOwnerHere
<1>4. \A q \in DOMAIN fs : g[q] = fs[q] \/ ((\E r \in s : Target(fs, r) = q)
                                            /\ Given(fs[q], g[q], Line, owner))
  BY <1>2, <1>3
<1>5. ASSUME NEW q \in Paths, NEW r \in s, Target(fs, r) = q
      PROVE  Touched(q) /\ fs[q].kind # "none"
  <2>1. r \in Paths /\ Exists(fs, r)
    BY DEF Below, Paths
  <2>2. About(Line, r)
    BY <2>1, BelowIsAbout
  <2>3. Touched(q)
    BY <1>5, <2>1, <2>2 DEF Touched, Target
  <2>4. QED
    BY <1>5, <2>1, <2>3 DEF Exists
<1>6. ASSUME NEW q \in Paths PROVE g[q] = fs[q] \/ (Touched(q) /\ Evolves(fs[q], g[q]))
  <2>1. CASE g[q] = fs[q]
    BY <2>1
  <2>2. CASE (\E r \in s : Target(fs, r) = q) /\ Given(fs[q], g[q], Line, owner)
    BY <1>5, <2>2 DEF Evolves, Given
  <2>3. QED
    BY <1>4, <2>1, <2>2 DEF Paths
<1>7. g = [p \in DOMAIN g |-> g[p]]
  BY DEF Walked
<1>8. \A q \in DOMAIN g : IsInode(g[q])
  BY <1>1, <1>4 DEF IsTree, Given
<1>9. Effect(g)
  BY <1>1, <1>6, <1>7, <1>8 DEF Effect, IsTree
<1>10. ASSUME NEW x \in s, g[x].kind # "link"
       PROVE  Given(fs[x], g[x], Line, owner) /\ fs[x].kind # "none"
  <2>1. x \in DOMAIN fs
    BY DEF Below
  <2>2. fs[x].kind # "link"
    BY <1>4, <1>10, <2>1 DEF Given, Same
  <2>3. Target(fs, x) = x
    BY <2>2 DEF Target
  <2>4. g[x] = SetOwner(fs, x, Line, owner)[x]
    BY <1>2, <2>1, <2>3
  <2>5. QED
    BY <1>3, <1>5, <2>1, <2>3, <2>4 DEF Paths
<1>11. QED
  BY <1>9, <1>10

LEMMA RecursiveEnters == ASSUME DevsTypeOK, Recursive PROVE Enters
<1> DEFINE p == Plainly(Line.name)
           all == Below(fs, p)
           done == [owner \in Users |-> {Walked(s, owner) : s \in Walks(fs, p)}]
           failed == fs[p].kind = "none" \/ \E q \in all : ~Exists(fs, q)
<1>1. Entry({"r"}, failed, done)
  BY Zenon DEF Recursive, Walked
<1>2. Line.type = "r" /\ Line.is = "entry" /\ Reads
  BY <1>1 DEF Entry
<1>3. p \in Paths
  BY <1>2, LineFacts
<1>4. \A owner \in Users : done[owner] = {Walked(s, owner) : s \in Walks(fs, p)}
  OBVIOUS
<1>5. \A s \in Walks(fs, p) : /\ s \subseteq all /\ \A r \in s : Exists(fs, r)
                              /\ ~failed => s = all
  BY DEF Walks
<1> HIDE DEF done, p
<1>6. ASSUME NEW owner \in Users, Line.owner \in {owner, Blank}, NEW g, g \in done[owner]
      PROVE  Effect(g) /\ (~failed => Achieves(g))
  <2>1. PICK s \in Walks(fs, p) : g = Walked(s, owner)
    BY <1>4, <1>6
  <2>2. /\ Effect(g)
        /\ \A x \in s : g[x].kind # "link" =>
              Given(fs[x], g[x], Line, owner) /\ fs[x].kind # "none"
    <3>1. s \subseteq Below(fs, Plainly(Line.name)) /\ \A r \in s : Exists(fs, r)
      BY <1>5, <2>1 DEF p
    <3>2. QED
      BY <1>2, <2>1, <3>1, WalkDoes
  <2>3. ASSUME ~failed PROVE Achieves(g)
    <3>1. s = all
      BY <1>5, <2>3
    <3>2. NodesOf(Line, g)
      BY <1>2 DEF NodesOf, Nodes
    <3>3. ASSUME NEW x \in Paths, About(Line, x), g[x].kind # "link",
                 UnderIt(Line, x) => fs[x].kind # "none"
          PROVE  Satisfied(Line, g[x])
      <4>1. fs[x].kind # "none"
        <5>1. CASE UnderIt(Line, x)
          BY <3>3, <5>1
        <5>2. CASE ~UnderIt(Line, x)
          <6>1. x = p
            BY <1>2, <3>3, <5>2 DEF About, Documented, Nodes, p
          <6>2. QED
            BY <2>3, <6>1
        <5>3. QED
          BY <5>1, <5>2
      <4>2. x \in s
        BY <1>2, <3>1, <3>3, <4>1, BelowIsAbout DEF p
      <4>3. Given(fs[x], g[x], Line, owner)
        BY <2>2, <3>3, <4>2
      <4>4. QED
        BY <1>6, <4>1, <4>3 DEF Satisfied, Given, Same
    <3>4. QED
      BY <3>2, <3>3 DEF Achieves
  <2>4. QED
    BY <2>2, <2>3
<1> HIDE DEF failed
<1>7. QED
  BY <1>1, <1>6, EntryReads

\* The paths of the nodes of a line, and what the usage text says of them.
LEMMA NodePaths ==
    ASSUME NEW line, line.type \in Nodes, line.start \in Nat, line.count \in Nat,
           line.dev \in Nat, line.inc \in Nat
    PROVE  /\ \A i \in Numbers(line) :
                 /\ NodePath(line, i) \in Documented(line)
                 /\ Minor(line, i) = line.dev + (IF NodePath(line, i)[2] = Plain THEN 0
                                                 ELSE (NodePath(line, i)[2] - line.start) * line.inc)
           /\ \A p \in Documented(line) : \E i \in Numbers(line) : NodePath(line, i) = p
<1>1. CASE line.count > 1
  <2>1. /\ Numbers(line) = line.start .. line.start + line.count - 1
        /\ Documented(line) = {<<line.name, line.start + k>> : k \in 0 .. line.count - 1}
        /\ \A i : NodePath(line, i) = <<line.name, i>>
    BY <1>1 DEF Numbers, Documented, NodePath
  <2>2. ASSUME NEW i \in Numbers(line)
        PROVE  /\ NodePath(line, i) \in Documented(line)
               /\ Minor(line, i) = line.dev + (IF NodePath(line, i)[2] = Plain THEN 0
                                               ELSE (NodePath(line, i)[2] - line.start) * line.inc)
    <3>1. i \in Int /\ i - line.start \in 0 .. line.count - 1 /\ line.start + (i - line.start) = i
      BY <2>1
    <3>2. NodePath(line, i) = <<line.name, i>> /\ NodePath(line, i)[2] = i
      BY <2>1
    <3>3. i # Plain
      BY <3>1, DevsAssumption
    <3>4. <<line.name, line.start + (i - line.start)>> \in Documented(line)
      BY <2>1, <3>1
    <3>5. QED
      BY <3>1, <3>2, <3>3, <3>4 DEF Minor
  <2>3. ASSUME NEW p \in Documented(line)
        PROVE  \E i \in Numbers(line) : NodePath(line, i) = p
    <3>1. PICK k \in 0 .. line.count - 1 : p = <<line.name, line.start + k>>
      BY <2>1
    <3>2. line.start + k \in Numbers(line)
      BY <2>1
    <3>3. QED
      BY <2>1, <3>1, <3>2
  <2>4. QED
    BY <2>2, <2>3
<1>2. CASE ~(line.count > 1)
  <2>1. /\ Documented(line) = {Plainly(line.name)}
        /\ \A i : NodePath(line, i) = Plainly(line.name)
    BY <1>2 DEF Documented, NodePath
  <2>2. Numbers(line) = {line.start}
    <3>1. IF line.count = 0 THEN TRUE ELSE line.count - 1 = 0
      BY <1>2
    <3>2. QED
      BY <3>1 DEF Numbers
  <2>3. Plainly(line.name)[2] = Plain
    BY DEF Plainly
  <2>4. Minor(line, line.start) = line.dev
    BY DEF Minor
  <2>5. line.dev + 0 = line.dev
    OBVIOUS
  <2>6. QED
    BY <2>1, <2>2, <2>3, <2>4, <2>5
<1>3. QED
  BY <1>1, <1>2

LEMMA NodeEnters == ASSUME DevsTypeOK, Node PROVE Enters
<1> DEFINE dirs == {OnTheWay(Line)[q] : q \in DOMAIN OnTheWay(Line)}
           new == {i \in Numbers(Line) : /\ fs[NodePath(Line, i)].kind = "none" /\ Line.mode # Keep
                                         /\ \A q \in dirs : fs[q].kind = "dir"}
           inode(i, owner) ==
               [Inode("node", owner, Line.mode) EXCEPT !.dev = Minor(Line, i)]
           made(owner) ==
               [p \in Paths |-> IF \E i \in new : NodePath(Line, i) = p
                                THEN inode(CHOOSE i \in new : NodePath(Line, i) = p, owner)
                                ELSE fs[p]]
           done == [owner \in Users |-> {made(owner)}]
<1>1. Entry(Nodes, new # Numbers(Line), done)
  BY Zenon DEF Node, Nodes
<1>2. Line.type \in Nodes /\ Line.is = "entry" /\ Reads
  BY <1>1 DEF Entry
<1>3. /\ Line.start \in Nat /\ Line.count \in Nat /\ Line.dev \in Nat /\ Line.inc \in Nat
      /\ Nameable(Line) \subseteq Paths
  BY <1>2, LineFacts DEF LineOK
<1>4. /\ \A i \in Numbers(Line) :
            /\ NodePath(Line, i) \in Documented(Line)
            /\ Minor(Line, i) = Line.dev + (IF NodePath(Line, i)[2] = Plain THEN 0
                                            ELSE (NodePath(Line, i)[2] - Line.start) * Line.inc)
      /\ \A p \in Documented(Line) : \E i \in Numbers(Line) : NodePath(Line, i) = p
  BY <1>2, <1>3, NodePaths
<1>5. Documented(Line) \subseteq Paths
  BY <1>3 DEF Documented, Nameable, Plainly
<1>6. \A owner \in Users : done[owner] = {made(owner)}
  OBVIOUS
<1>7. ASSUME NEW i, NEW owner
      PROVE  /\ IsInode(inode(i, owner)) /\ inode(i, owner).kind = "node"
             /\ inode(i, owner).owner = owner /\ inode(i, owner).mode = Line.mode
             /\ inode(i, owner).dev = Minor(Line, i) /\ inode(i, owner).caps = {}
  <2> DEFINE r == Inode("node", owner, Line.mode)
  <2>1. IsInode(r) /\ r.kind = "node" /\ r.owner = owner /\ r.mode = Line.mode /\ r.caps = {}
    BY InodeIs
  <2> HIDE DEF r
  <2>2. LET t == [r EXCEPT !.dev = Minor(Line, i)]
        IN  /\ IsInode(t) /\ t.kind = "node" /\ t.owner = owner /\ t.mode = Line.mode
            /\ t.dev = Minor(Line, i) /\ t.caps = {}
    BY <2>1, FieldSet DEF IsInode
  <2>3. QED
    BY <2>2 DEF r
<1> HIDE DEF dirs, new, inode, done
<1>8. new \subseteq Numbers(Line) /\ \A i \in new : fs[NodePath(Line, i)].kind = "none"
  BY DEF new
<1>9. ASSUME NEW owner \in Users, Line.owner \in {owner, Blank}, NEW g, g \in done[owner]
      PROVE  Effect(g) /\ (~(new # Numbers(Line)) => Achieves(g))
  <2>1. g = made(owner)
    BY <1>6, <1>9
  <2>2. \A p \in Paths :
           IF \E i \in new : NodePath(Line, i) = p
           THEN \E i \in new : NodePath(Line, i) = p /\ g[p] = inode(i, owner)
           ELSE g[p] = fs[p]
    BY <2>1
  <2>3. DOMAIN g = Paths /\ g = [p \in DOMAIN g |-> g[p]]
    BY <2>1
  <2>4. \A p \in Paths : IsInode(g[p])
    BY <1>7, <2>2 DEF DevsTypeOK, IsTree, Paths
  <2>5. ASSUME NEW p \in Paths
        PROVE  g[p] = fs[p] \/ (Touched(p) /\ Evolves(fs[p], g[p]))
    <3>1. CASE \E i \in new : NodePath(Line, i) = p
      <4>1. PICK i \in new : NodePath(Line, i) = p /\ g[p] = inode(i, owner)
        BY <2>2, <3>1
      <4>2. p \in Documented(Line) /\ fs[p].kind = "none"
        BY <1>4, <1>8, <4>1
      <4>3. QED
        BY <1>7, <4>1, <4>2 DEF Touched, About, Evolves
    <3>2. CASE ~\E i \in new : NodePath(Line, i) = p
      BY <2>2, <3>2
    <3>3. QED
      BY <3>1, <3>2
  <2>6. Effect(g)
    BY <2>3, <2>4, <2>5 DEF Effect, IsTree, Paths
  <2>7. ASSUME new = Numbers(Line) PROVE Achieves(g)
    <3>1. ASSUME NEW p \in Documented(Line)
          PROVE  \E i \in Numbers(Line) : NodePath(Line, i) = p /\ g[p] = inode(i, owner)
      BY <1>4, <1>5, <2>2, <2>7
    <3>2. NodesOf(Line, g)
      BY <1>4, <1>7, <3>1 DEF NodesOf
    <3>3. ASSUME NEW x \in Paths, About(Line, x) PROVE Satisfied(Line, g[x])
      <4>1. x \in Documented(Line)
        BY <1>2, <3>3 DEF About, UnderIt, Nodes
      <4>2. PICK i : g[x] = inode(i, owner)
        BY <3>1, <4>1
      <4>3. QED
        BY <1>7, <1>9, <4>2 DEF Satisfied
    <3>4. QED
      BY <3>2, <3>3 DEF Achieves
  <2>8. QED
    BY <2>6, <2>7
<1>10. QED
  BY <1>1, <1>9, EntryReads

-----------------------------------------------------------------------------
(* The steps of the program.                                               *)

\* A line with a capability: it ends the program, or adds to one file.
AddsCapability ==
    /\ over' = over /\ UNCHANGED <<file, buffer, ret>>
    /\ file # <<>> /\ Target(fs, file) \in Paths
    /\ IsTree(fs') /\ DOMAIN fs' = DOMAIN fs
    /\ \A x \in Paths :
          /\ x # Target(fs, file) => fs'[x] = fs[x]
          /\ Same(fs[x], fs'[x]) /\ fs'[x].owner = fs[x].owner /\ fs'[x].mode = fs[x].mode
          /\ fs'[x].caps \subseteq fs[x].caps \cup {Line.cap}

LEMMA CapabilityAdded ==
    ASSUME NEW r, IsInode(r), NEW cap, NEW t, t = [r EXCEPT !.caps = @ \cup {cap}]
    PROVE  /\ IsInode(t) /\ Same(r, t) /\ t.owner = r.owner /\ t.mode = r.mode
           /\ t.caps = r.caps \cup {cap}
<1> DEFINE caps == r.caps \cup {cap}
<1>1. t = [r EXCEPT !.caps = caps]
  OBVIOUS
<1> HIDE DEF caps
<1>2. t = [kind |-> r.kind, owner |-> r.owner, mode |-> r.mode, caps |-> caps, dev |-> r.dev,
           to |-> r.to]
  BY <1>1, FieldSet
<1>3. /\ t.kind = r.kind /\ t.owner = r.owner /\ t.mode = r.mode /\ t.caps = caps
      /\ t.dev = r.dev /\ t.to = r.to
  BY <1>2
<1>4. QED
  BY <1>2, <1>3 DEF IsInode, Same, caps

LEMMA XattrDoes ==
    ASSUME DevsTypeOK, Xattr
    PROVE  /\ Reads /\ Line = [is |-> "xattr", cap |-> Line.cap]
           /\ Dies \/ AddsCapability
<1>1. Reads /\ Line.is = "xattr"
  BY DEF Xattr
<1>2. Line = [is |-> "xattr", cap |-> Line.cap]
  BY <1>1, LineFacts DEF LineOK
<1>3. CASE host.xattrs /\ file # <<>> /\ Exists(fs, file) /\ fs[Target(fs, file)].kind = "file"
  <2> DEFINE q == Target(fs, file)
             t == [fs[q] EXCEPT !.caps = @ \cup {Line.cap}]
  <2>1. fs' = [fs EXCEPT ![Target(fs, file)].caps = @ \cup {Line.cap}]
        /\ UNCHANGED <<file, buffer, ret, over>>
    BY <1>3, Zenon DEF Xattr
  <2>2. q \in Paths /\ IsTree(fs) /\ IsInode(fs[q])
    BY <1>3 DEF Exists, Paths, DevsTypeOK, IsTree
  <2>3. /\ IsInode(t) /\ Same(fs[q], t) /\ t.owner = fs[q].owner /\ t.mode = fs[q].mode
        /\ t.caps = fs[q].caps \cup {Line.cap}
    BY <2>2, CapabilityAdded
  <2>4. fs' = [x \in DOMAIN fs |-> IF x = q THEN t ELSE fs[x]]
    BY <2>1, <2>2 DEF IsTree
  <2> HIDE DEF q, t
  <2>5. /\ DOMAIN fs' = DOMAIN fs /\ IsTree(fs')
        /\ \A x \in Paths : fs'[x] = IF x = q THEN t ELSE fs[x]
    BY <2>2, <2>3, <2>4 DEF IsTree, Paths
  <2>6. AddsCapability
    BY <1>3, <2>1, <2>2, <2>3, <2>5 DEF AddsCapability, Same, q
  <2>7. QED
    BY <1>1, <1>2, <2>6
<1>4. CASE ~(host.xattrs /\ file # <<>> /\ Exists(fs, file) /\ fs[Target(fs, file)].kind = "file")
  BY <1>1, <1>2, <1>4, Zenon DEF Xattr
<1>5. QED
  BY <1>3, <1>4

\* Every step is one of these.
LEMMA Steps ==
    ASSUME DevsTypeOK, DevsNext
    PROVE  \/ Enters
           \/ Reads /\ Line.is = "comment" /\ Lasting
           \/ Reads /\ Line.is = "invalid" /\ ret' = 1 /\ UNCHANGED <<fs, file, buffer, over>>
           \/ Reads /\ Line = [is |-> "xattr", cap |-> Line.cap] /\ (Dies \/ AddsCapability)
           \/ EndOfTable
<1>1. CASE Comment
  BY <1>1 DEF Comment
<1>2. CASE Invalid
  BY <1>2 DEF Invalid
<1>3. CASE Xattr
  BY <1>3, XattrDoes
<1>4. CASE Directory \/ File \/ OptionalMissing \/ OptionalFile \/ Recursive \/ Node \/ Unsupported
  BY <1>4, DirectoryEnters, FileEnters, OptionalMissingEnters, OptionalFileEnters,
     RecursiveEnters, NodeEnters, UnsupportedEnters
<1>5. QED
  BY <1>1, <1>2, <1>3, <1>4 DEF DevsNext

\* What no step takes back: a file stays what it is, and no link is made.
Keeps ==
    /\ table' = table /\ before' = before /\ Paths' = Paths
    /\ \A x \in Paths : /\ fs[x].kind # "none" => Same(fs[x], fs'[x])
                        /\ fs'[x].kind = "link" => fs[x].kind = "link"

LEMMA EffectKeeps ==
    ASSUME NEW g, Effect(g), NEW x \in Paths
    PROVE  /\ fs[x].kind # "none" => Same(fs[x], g[x])
           /\ g[x].kind = "link" => fs[x].kind = "link"
BY DEF Effect, Evolves, Same

LEMMA StepKeeps ==
    ASSUME DevsTypeOK, DevsNext
    PROVE  Keeps /\ DevsTypeOK'
<1>0. /\ Len(table) \in Nat /\ linenum \in 0 .. Len(table)
      /\ table \in Tables /\ before \in Trees /\ IsTree(fs) /\ DOMAIN fs = DOMAIN before
      /\ buffer \in Users \cup {Stranger} /\ ret \in {0, 1} /\ over \in {"no", "done", "failed"}
  BY LinesOK DEF DevsTypeOK
<1>1. Reads => table' = table /\ before' = before /\ linenum' \in 0 .. Len(table)
  BY <1>0 DEF Reads
<1>2. ASSUME Reads, fs' = fs, buffer' = buffer, ret' \in {0, 1}, over' \in {"no", "done", "failed"}
      PROVE  Keeps /\ DevsTypeOK'
  BY <1>0, <1>1, <1>2 DEF Keeps, DevsTypeOK, Paths, Same
<1>3. CASE Enters
  <2>1. CASE over' = "failed" /\ UNCHANGED <<fs, file, buffer, ret>>
    BY <1>0, <1>2, <1>3, <2>1 DEF Enters
  <2>2. CASE /\ buffer' \in Users
             /\ file' = Plainly(Line.name) /\ over' = over
             /\ Effect(fs')
             /\ ret' \in {ret, 1} /\ (ret' = 0 => Achieves(fs'))
    <3>1. Reads /\ IsTree(fs') /\ DOMAIN fs' = DOMAIN fs
      BY <1>3, <2>2 DEF Enters, Effect
    <3>2. \A x \in Paths : /\ fs[x].kind # "none" => Same(fs[x], fs'[x])
                           /\ fs'[x].kind = "link" => fs[x].kind = "link"
      BY <2>2, EffectKeeps
    <3>3. QED
      BY <1>0, <1>1, <2>2, <3>1, <3>2 DEF Keeps, DevsTypeOK, Paths
  <2>3. QED
    BY <1>3, <2>1, <2>2 DEF Enters
<1>4. CASE Reads /\ Line.is = "comment" /\ Lasting
  BY <1>0, <1>2, <1>4 DEF Lasting
<1>5. CASE Reads /\ Line.is = "invalid" /\ ret' = 1 /\ UNCHANGED <<fs, file, buffer, over>>
  BY <1>0, <1>2, <1>5
<1>6. CASE Reads /\ Dies
  BY <1>0, <1>2, <1>6 DEF Dies
<1>7. CASE Reads /\ AddsCapability
  BY <1>0, <1>1, <1>7 DEF AddsCapability, Keeps, DevsTypeOK, Paths, Same
<1>8. CASE EndOfTable
  BY <1>0, <1>8 DEF EndOfTable, Keeps, DevsTypeOK, Paths, Same
<1>9. QED
  BY <1>3, <1>4, <1>5, <1>6, <1>7, <1>8, Steps

LEMMA DevsInitTypeOK == DevsInit => DevsTypeOK
<1> SUFFICES ASSUME DevsInit PROVE DevsTypeOK
  OBVIOUS
<1>1. table \in Tables /\ before \in Trees /\ fs = before /\ linenum = 0
  BY DEF DevsInit
<1>2. table \in Seq({table[i] : i \in DOMAIN table})
  BY <1>1, DevsAssumption
<1>3. Len(table) \in Nat
  BY <1>2
<1>4. IsTree(fs)
  <2>1. \A p \in DOMAIN fs : IsInode(fs[p])
    BY <1>1, DevsAssumption
  <2>2. fs = [p \in DOMAIN fs |-> fs[p]]
    BY <1>1, DevsAssumption
  <2>3. QED
    BY <2>1, <2>2 DEF IsTree
<1>5. QED
  BY <1>1, <1>3, <1>4 DEF DevsInit, DevsTypeOK

-----------------------------------------------------------------------------
(* The name that full_name holds, and what has changed.                    *)

\* m is the last entry above the line l.
Last(m, l) == m \in Seen /\ m < l /\ \A k \in Seen : k < l => k <= m

\* While makedevs runs, full_name is the name that the last entry gives.
FileInv ==
    over = "no" /\ file # <<>> =>
        \E m \in Seen : Last(m, linenum + 1) /\ file = Plainly(table[m].name)

\* What a step makes of the entries that have been read.
LEMMA SeenStep ==
    ASSUME DevsTypeOK, Reads, table' = table
    PROVE  /\ linenum + 1 \in 1 .. Len(table) /\ linenum' = linenum + 1
           /\ Seen' = IF Line.is = "entry" THEN Seen \cup {linenum + 1} ELSE Seen
           /\ \A k \in Seen : k \in 1 .. linenum /\ table[k].is = "entry" /\ LineOK(table[k])
           /\ \A m, l : l \in 1 .. linenum + 1 => (Last(m, l)' <=> Last(m, l))
<1>1. linenum \in Nat /\ Len(table) \in Nat /\ linenum < Len(table) /\ linenum' = linenum + 1
  BY LinesOK DEF Reads, DevsTypeOK
<1>2. Seen' = {l \in 1 .. linenum + 1 : table[l].is = "entry"}
  BY <1>1 DEF Seen
<1>3. Seen' = IF Line.is = "entry" THEN Seen \cup {linenum + 1} ELSE Seen
  BY <1>1, <1>2 DEF Seen, Line
<1>4. \A k \in Seen : k \in 1 .. linenum /\ table[k].is = "entry" /\ LineOK(table[k])
  BY <1>1, LinesOK DEF Seen
<1>5. ASSUME NEW m, NEW l, l \in 1 .. linenum + 1
      PROVE  Last(m, l)' <=> Last(m, l)
  BY <1>1, <1>3, <1>4, <1>5 DEF Last
<1>6. QED
  BY <1>1, <1>3, <1>4, <1>5

LEMMA FileNext == DevsTypeOK /\ FileInv /\ [DevsNext]_mvars => FileInv'
<1> SUFFICES ASSUME DevsTypeOK, FileInv, DevsNext PROVE FileInv'
  BY DEF FileInv, mvars, Last, Seen
<1>0. table' = table
  BY StepKeeps DEF Keeps
<1>1. CASE Enters
  <2>1. Reads /\ Line.is = "entry"
    BY <1>1 DEF Enters
  <2>2. CASE over' = "failed"
    BY <2>2 DEF FileInv
  <2>3. CASE file' = Plainly(Line.name)
    <3>1. /\ linenum' = linenum + 1 /\ linenum \in Nat
          /\ Seen' = Seen \cup {linenum + 1} /\ \A k \in Seen : k \in 1 .. linenum
      BY <1>0, <2>1, SeenStep DEF DevsTypeOK
    <3>2. linenum + 1 < linenum' + 1 /\ \A k \in Seen' : k < linenum' + 1 => k <= linenum + 1
      BY <3>1
    <3>3. Line = table'[linenum + 1] /\ linenum + 1 \in Seen'
      BY <1>0, <3>1 DEF Line
    <3>4. QED
      BY <2>3, <3>2, <3>3 DEF FileInv, Last
  <2>4. QED
    BY <1>1, <2>2, <2>3 DEF Enters
<1>2. ASSUME Reads, Line.is # "entry", file' = file
      PROVE  FileInv'
  <2> SUFFICES ASSUME over' = "no", file # <<>>
               PROVE  \E m \in Seen' : Last(m, linenum + 1)' /\ file = Plainly(table[m].name)
    BY <1>0, <1>2 DEF FileInv
  <2>1. PICK m \in Seen : Last(m, linenum + 1) /\ file = Plainly(table[m].name)
    BY <1>2 DEF FileInv, Reads
  <2>2. /\ linenum' = linenum + 1 /\ linenum \in Nat
        /\ Seen' = Seen /\ \A k \in Seen : k \in 1 .. linenum
    BY <1>0, <1>2, SeenStep DEF DevsTypeOK
  <2>3. Last(m, linenum + 1)'
    BY <2>1, <2>2 DEF Last
  <2>4. QED
    BY <2>1, <2>2, <2>3
<1>3. CASE Reads /\ Line.is = "comment" /\ Lasting
  BY <1>2, <1>3 DEF Lasting
<1>4. CASE Reads /\ Line.is = "invalid" /\ ret' = 1 /\ UNCHANGED <<fs, file, buffer, over>>
  BY <1>2, <1>4
<1>5. CASE Reads /\ Line = [is |-> "xattr", cap |-> Line.cap] /\ (Dies \/ AddsCapability)
  <2>1. Line.is = "xattr"
    BY <1>5
  <2>2. QED
    BY <1>2, <1>5, <2>1 DEF Dies, AddsCapability
<1>6. CASE EndOfTable
  BY <1>6 DEF EndOfTable, FileInv
<1>7. QED
  BY <1>1, <1>3, <1>4, <1>5, <1>6, Steps

\* Whatever makes a line that is read a reason to change a path still does.
Reason(l, p) ==
    \/ Named(l, p)
    \/ \E q \in Paths : fs[q].kind = "link" /\ fs[q].to = p /\ Named(l, q)
    \/ table[l].type = "d" /\ \E i \in DOMAIN OnTheWay(table[l]) : OnTheWay(table[l])[i] = p

LEMMA ReasonStays ==
    ASSUME DevsTypeOK, DevsNext, NEW l \in Seen, NEW p \in Paths, Reason(l, p)
    PROVE  l \in Seen' /\ Reason(l, p)'
<1>1. Keeps /\ linenum \in Nat /\ linenum' \in {linenum, linenum + 1}
  BY StepKeeps, Steps DEF DevsTypeOK, Enters, Reads, EndOfTable
<1>2. l \in Seen'
  BY <1>1 DEF Keeps, Seen
<1>3. \A q : Named(l, q) => Named(l, q)'
  BY <1>1 DEF Named, Keeps, About, Documented, UnderIt, Seen
<1>4. \A q \in Paths : fs[q].kind = "link" => fs'[q].kind = "link" /\ fs'[q].to = fs[q].to
  BY <1>1 DEF Keeps, Same
<1>5. Reason(l, p)'
  BY <1>1, <1>3, <1>4 DEF Reason, Keeps, OnTheWay
<1>6. QED
  BY <1>2, <1>5

LEMMA NamedNext ==
    ASSUME DevsTypeOK, FileInv, OnlyWhatIsNamed, DevsNext
    PROVE  OnlyWhatIsNamed'
<1>1. Keeps /\ linenum \in Nat
  BY StepKeeps DEF DevsTypeOK
<1>2. \A p \in Paths : fs[p] # before[p] => \E l \in Seen : Reason(l, p)
  BY DEF OnlyWhatIsNamed, Reason
<1>3. SUFFICES ASSUME NEW p \in Paths, fs'[p] # before[p]
               PROVE  \E l \in Seen' : Reason(l, p)'
  BY <1>1 DEF OnlyWhatIsNamed, Reason, Keeps
<1>4. CASE fs'[p] = fs[p]
  BY <1>2, <1>3, <1>4, ReasonStays
<1>5. ASSUME Enters, fs'[p] # fs[p] PROVE \E l \in Seen' : Reason(l, p)'
  <2>1. Reads /\ Line.is = "entry" /\ Effect(fs')
    BY <1>5 DEF Enters
  <2>2. PICK n \in Nat : n = linenum + 1 /\ n \in Seen' /\ table'[n] = Line
    BY <1>1, <2>1, SeenStep DEF Keeps, Line
  <2>3. \A q : About(Line, q) => Named(n, q)'
    BY <2>2 DEF Named, About, Documented, UnderIt
  <2>4. Touched(p) \/ OnWay(p)
    BY <1>5, <2>1 DEF Effect
  <2>5. CASE Touched(p)
    BY <1>1, <2>2, <2>3, <2>5 DEF Touched, Reason, Keeps, Same
  <2>6. CASE OnWay(p)
    BY <2>2, <2>6 DEF OnWay, Reason, OnTheWay
  <2>7. QED
    BY <2>4, <2>5, <2>6
<1>6. ASSUME Reads, Line = [is |-> "xattr", cap |-> Line.cap], AddsCapability, fs'[p] # fs[p]
      PROVE \E l \in Seen' : Reason(l, p)'
  <2>1. p = Target(fs, file) /\ file # <<>>
    BY <1>6 DEF AddsCapability
  <2>2. PICK m \in Seen : file = Plainly(table[m].name)
    BY <1>6, <2>1 DEF FileInv, Reads
  <2>3. Line.is = "xattr"
    BY <1>6
  <2>4. /\ linenum' = linenum + 1 /\ m \in 1 .. linenum /\ m \in Seen'
        /\ table'[linenum + 1].is = "xattr" /\ LineOK(table[m]) /\ table[m].is = "entry"
    BY <1>1, <1>6, <2>3, SeenStep DEF Keeps, Line
  <2>5. linenum + 1 \in m + 1 .. linenum'
    BY <1>1, <2>4
  <2>6. Named(m, file)'
    <3>1. \E c \in m + 1 .. linenum' : table'[c].is = "xattr"
      BY <2>4, <2>5
    <3>2. file' = file /\ file' = Plainly(table'[m].name)
      BY <1>1, <1>6, <2>2 DEF AddsCapability, Keeps
    <3>3. QED
      BY <3>1, <3>2 DEF Named, Plainly
  <2>7. file \in Paths /\ file' = file
    BY <1>6, <2>2, <2>4 DEF LineOK, Nameable, Plainly, AddsCapability
  <2>8. p = file \/ (fs[file].kind = "link" /\ fs[file].to = p)
    BY <2>1 DEF Target
  <2>9. Reason(m, p)'
    BY <1>1, <2>6, <2>7, <2>8 DEF Reason, Keeps, Same
  <2>10. QED
    BY <2>4, <2>9
<1>7. CASE fs' # fs
  BY <1>4, <1>5, <1>6, <1>7, Steps DEF Lasting, EndOfTable, Dies
<1>8. QED
  BY <1>4, <1>7

-----------------------------------------------------------------------------
(* Capabilities.                                                           *)

\* The line l gives cap, and the entry right above it names p, or a link to p.
Gives(l, cap, p) ==
    /\ table[l] = [is |-> "xattr", cap |-> cap]
    /\ \E m \in Seen :
          /\ Last(m, l)
          /\ LET q == Plainly(table[m].name)
             IN  q = p \/ (fs[q].kind = "link" /\ fs[q].to = p)

CapabilityInv == \A p \in Paths : \A cap \in fs[p].caps : \E l \in 1 .. linenum : Gives(l, cap, p)

LEMMA GivesStays ==
    ASSUME DevsTypeOK, DevsNext, NEW l \in 1 .. linenum, NEW cap, NEW p, Gives(l, cap, p)
    PROVE  l \in 1 .. linenum' /\ Gives(l, cap, p)'
<1>1. Keeps /\ linenum \in Nat
  BY StepKeeps DEF DevsTypeOK
<1>2. PICK m \in Seen :
         /\ Last(m, l)
         /\ LET q == Plainly(table[m].name)
            IN  q = p \/ (fs[q].kind = "link" /\ fs[q].to = p)
  BY DEF Gives
<1>3. l \in 1 .. linenum' /\ m \in Seen' /\ Last(m, l)'
  <2>1. CASE Reads
    <3>1. Last(m, l)'
      BY <1>1, <1>2, <2>1, SeenStep DEF Keeps
    <3>2. QED
      BY <1>1, <2>1, <3>1, SeenStep DEF Keeps, Last
  <2>2. CASE EndOfTable
    BY <1>2, <2>2 DEF EndOfTable, Last, Seen
  <2>3. QED
    BY <2>1, <2>2, Steps DEF Enters
<1>4. Plainly(table[m].name) \in Paths
  <2>1. m \in 1 .. Len(table) /\ table[m].is = "entry"
    BY <1>1, LinesOK DEF Seen, DevsTypeOK
  <2>2. QED
    BY <2>1, LinesOK DEF LineOK, Nameable, Plainly
<1>5. LET q == Plainly(table[m].name)
      IN  q = p \/ (fs'[q].kind = "link" /\ fs'[q].to = p)
  BY <1>1, <1>2, <1>4 DEF Keeps, Same
<1>6. table'[l] = [is |-> "xattr", cap |-> cap]
  BY <1>1 DEF Gives, Keeps
<1>7. QED
  BY <1>1, <1>3, <1>5, <1>6 DEF Gives, Keeps, Plainly

LEMMA CapabilityNext ==
    ASSUME DevsTypeOK, FileInv, CapabilityInv, DevsNext
    PROVE  CapabilityInv'
<1>1. Keeps /\ linenum \in Nat /\ Len(table) \in Nat
  BY StepKeeps, LinesOK DEF DevsTypeOK
<1>2. SUFFICES ASSUME NEW p \in Paths, NEW cap \in fs'[p].caps
               PROVE  \E l \in 1 .. linenum' : Gives(l, cap, p)'
  BY <1>1 DEF CapabilityInv, Keeps
<1>3. CASE cap \in fs[p].caps
  <2>1. PICK l \in 1 .. linenum : Gives(l, cap, p)
    BY <1>3 DEF CapabilityInv
  <2>2. QED
    BY <2>1, GivesStays
<1>4. CASE cap \notin fs[p].caps
  <2>1. CASE Enters
    <3>1. fs' = fs \/ Effect(fs')
      BY <2>1 DEF Enters
    <3>2. fs'[p].caps \subseteq fs[p].caps
      BY <3>1 DEF Effect, Evolves
    <3>3. QED
      BY <1>4, <3>2
  <2>2. CASE Reads /\ Line = [is |-> "xattr", cap |-> Line.cap] /\ AddsCapability
    <3>1. p = Target(fs, file) /\ file # <<>> /\ cap = Line.cap
      BY <1>2, <1>4, <2>2 DEF AddsCapability
    <3>2. PICK m \in Seen : Last(m, linenum + 1) /\ file = Plainly(table[m].name)
      BY <2>2, <3>1 DEF FileInv, Reads
    <3>3. PICK l \in 1 .. linenum' : l = linenum + 1 /\ linenum' = linenum + 1
      BY <1>1, <2>2 DEF Reads
    <3>4. l \in 1 .. linenum + 1 /\ Last(m, l)
      BY <1>1, <3>2, <3>3
    <3>5. Last(m, l)'
      BY <1>1, <2>2, <3>4, SeenStep DEF Keeps
    <3>6. table'[l] = [is |-> "xattr", cap |-> cap]
      BY <1>1, <2>2, <3>1, <3>3 DEF Line, Keeps
    <3>7. table[m].is = "entry" /\ m \in 1 .. Len(table)
      BY <1>1 DEF Seen, DevsTypeOK
    <3>8. file \in Paths
      BY <3>2, <3>7, LinesOK DEF LineOK, Nameable, Plainly
    <3>9. p = file \/ (fs'[file].kind = "link" /\ fs'[file].to = p)
      BY <1>1, <3>1, <3>8 DEF Target, Keeps, Same
    <3>10. LET q == Plainly(table'[m].name)
           IN  q = p \/ (fs'[q].kind = "link" /\ fs'[q].to = p)
      BY <1>1, <3>2, <3>9 DEF Keeps
    <3>11. m \in Seen'
      BY <3>5 DEF Last
    <3>12. Gives(l, cap, p)'
      BY <3>5, <3>6, <3>10, <3>11 DEF Gives, Plainly
    <3>13. QED
      BY <3>12
  <2>3. CASE fs' = fs
    BY <1>2, <1>4, <2>3
  <2>4. QED
    BY <2>1, <2>2, <2>3, Steps DEF Lasting, EndOfTable, Dies
<1>5. QED
  BY <1>3, <1>4

LEMMA CapabilityFollows == DevsTypeOK /\ CapabilityInv => CapabilityOnItsFile
<1> SUFFICES ASSUME DevsTypeOK, CapabilityInv,
                    NEW p \in Paths, NEW cap \in UNION {fs[q].caps : q \in Paths}, cap \in fs[p].caps
             PROVE  \E l \in 1 .. linenum :
                       /\ table[l] = [is |-> "xattr", cap |-> cap]
                       /\ LET q == Plainly(table[OwnLine(l)].name)
                          IN  q = p \/ (fs[q].kind = "link" /\ fs[q].to = p)
  BY DEF CapabilityOnItsFile
<1>1. PICK l \in 1 .. linenum : Gives(l, cap, p)
  BY DEF CapabilityInv
<1>2. PICK m \in Seen : /\ Last(m, l)
                        /\ LET q == Plainly(table[m].name)
                           IN  q = p \/ (fs[q].kind = "link" /\ fs[q].to = p)
  BY <1>1 DEF Gives
<1>3. Seen \subseteq Int
  BY DEF Seen, DevsTypeOK
<1>4. /\ OwnLine(l) \in Seen /\ OwnLine(l) < l
      /\ \A k \in Seen : k < l => k <= OwnLine(l)
  BY <1>2 DEF OwnLine, Last
<1>5. OwnLine(l) = m
  <2>1. OwnLine(l) <= m /\ m <= OwnLine(l)
    BY <1>2, <1>4 DEF Last
  <2>2. OwnLine(l) \in Int /\ m \in Int
    BY <1>3, <1>4
  <2>3. \A i, j \in Int : i <= j /\ j <= i => i = j
    OBVIOUS
  <2>4. QED
    BY <2>1, <2>2, <2>3
<1>6. QED
  BY <1>1, <1>2, <1>5 DEF Gives

-----------------------------------------------------------------------------
(* What success means.                                                     *)

\* What was there is still there.
AliveInv == \A p \in Paths : before[p].kind # "none" => fs[p].kind # "none"

LEMMA AliveNext == ASSUME DevsTypeOK, AliveInv, DevsNext PROVE AliveInv'
BY StepKeeps DEF AliveInv, Keeps, Same

\* A line has been done.
LineDone(l) ==
    /\ table[l].is # "invalid"
    /\ table[l].is = "entry" =>
          /\ NodesOf(table[l], fs)
          /\ \A p \in LastWord(l) : Satisfied(table[l], fs[p])

\* The inductive invariant: while nothing has failed, every line that has been
\* read is done, for what no later line is about.
DoneInv ==
    /\ ret = 0 /\ over # "failed" => \A l \in 1 .. linenum : LineDone(l)
    /\ over = "done" => ret = 0 /\ linenum = Len(table)

\* The nodes of a line stay, with their numbers.
LEMMA NodesStay ==
    ASSUME DevsTypeOK, DevsNext, NEW l \in 1 .. Len(table), table[l].is = "entry",
           NodesOf(table[l], fs)
    PROVE  NodesOf(table[l], fs)'
<1>1. Keeps
  BY StepKeeps
<1>2. Documented(table[l]) \subseteq Paths
  BY LinesOK DEF LineOK, Nameable, Documented, Plainly
<1>3. \A p \in Paths : fs[p].kind = "node" => fs'[p].kind = "node" /\ fs'[p].dev = fs[p].dev
  BY <1>1 DEF Keeps, Same
<1>4. table' = table
  BY <1>1 DEF Keeps
<1>5. QED
  BY <1>2, <1>3, <1>4 DEF NodesOf, Documented

\* What a line has the last word about after a step it had it about before.
LEMMA LastWordStays ==
    ASSUME DevsTypeOK, DevsNext, NEW l \in 1 .. linenum, NEW p \in Paths, p \in LastWord(l)'
    PROVE  /\ p \in LastWord(l)
           /\ Reads /\ Line.is = "entry" => ~Touched(p)
<1>1. Keeps
  BY StepKeeps
<1>2. Seen \subseteq Seen'
  <2>1. CASE Reads
    BY <1>1, <2>1, SeenStep DEF Keeps
  <2>2. CASE EndOfTable
    BY <2>2 DEF EndOfTable, Seen
  <2>3. QED
    BY <2>1, <2>2, Steps DEF Enters
<1>3. /\ About(table[l], p)
      /\ \A m \in Seen' : m > l => ~About(table[m], p)
      /\ UnderIt(table[l], p) => before[p].kind # "none"
      /\ fs'[p].kind # "link"
      /\ \A q \in Paths : fs'[q].kind = "link" => fs'[q].to # p
  BY <1>1 DEF LastWord, Keeps, About, Documented, UnderIt
<1>4. \A q \in Paths : fs[q].kind = "link" => fs'[q].kind = "link" /\ fs'[q].to = fs[q].to
  BY <1>1 DEF Keeps, Same
<1>5. p \in LastWord(l)
  BY <1>2, <1>3, <1>4 DEF LastWord
<1>6. ASSUME Reads, Line.is = "entry" PROVE ~Touched(p)
  <2>1. linenum + 1 \in Seen' /\ linenum + 1 > l
    BY <1>1, <1>6, SeenStep DEF Keeps, DevsTypeOK
  <2>2. ~About(Line, p)
    BY <1>3, <2>1 DEF Line
  <2>3. \A q \in Paths : fs[q].kind = "link" => fs[q].to # p
    BY <1>3, <1>4
  <2>4. QED
    BY <2>2, <2>3 DEF Touched
<1>7. QED
  BY <1>5, <1>6

\* A step that does not fail leaves done what was done.
LEMMA DoneStays ==
    ASSUME DevsTypeOK, DevsNext, NEW l \in 1 .. linenum, LineDone(l)
    PROVE  LineDone(l)'
<1>1. Keeps /\ linenum \in 0 .. Len(table) /\ Len(table) \in Nat
  BY StepKeeps, LinesOK DEF DevsTypeOK
<1>2. table'[l] = table[l] /\ table[l].is # "invalid"
  BY <1>1 DEF Keeps, LineDone
<1>3. ASSUME table[l].is = "entry" PROVE NodesOf(table[l], fs)'
  BY <1>1, <1>3, NodesStay DEF LineDone
<1>4. ASSUME table[l].is = "entry", NEW p \in LastWord(l)'
      PROVE  Satisfied(table[l], fs'[p])
  <2>1. p \in Paths
    BY <1>1 DEF LastWord, Keeps
  <2>2. /\ p \in LastWord(l)
        /\ Reads /\ Line.is = "entry" => ~Touched(p)
    BY <2>1, LastWordStays
  <2>3. Satisfied(table[l], fs[p])
    BY <1>4, <2>2 DEF LineDone
  <2>4. CASE fs'[p] = fs[p]
    BY <2>3, <2>4
  <2>5. CASE fs[p].kind = "none" /\ fs'[p].kind = "dir"
    BY <2>3, <2>5 DEF Satisfied
  <2>6. CASE Same(fs[p], fs'[p]) /\ fs'[p].owner = fs[p].owner /\ fs'[p].mode = fs[p].mode
    BY <2>3, <2>6 DEF Satisfied, Same
  <2>7. CASE Enters
    BY <2>1, <2>2, <2>4, <2>5, <2>7 DEF Enters, Effect
  <2>8. CASE Reads /\ AddsCapability
    BY <2>1, <2>6, <2>8 DEF AddsCapability
  <2>9. CASE fs' = fs
    BY <2>4, <2>9
  <2>10. QED
    BY <2>7, <2>8, <2>9, Steps DEF Lasting, EndOfTable, Dies
<1>5. QED
  BY <1>2, <1>3, <1>4 DEF LineDone

LEMMA DoneNext ==
    ASSUME DevsTypeOK, AliveInv, DoneInv, DevsNext
    PROVE  DoneInv'
<1>1. /\ Keeps /\ linenum \in 0 .. Len(table) /\ Len(table) \in Nat
      /\ ret \in {0, 1} /\ over \in {"no", "done", "failed"}
  BY StepKeeps, LinesOK DEF DevsTypeOK
<1>2. CASE EndOfTable
  <2>1. /\ over = "no" /\ linenum = Len(table) /\ over' = IF ret = 0 THEN "done" ELSE "failed"
        /\ UNCHANGED <<table, linenum, ret>>
    BY <1>2 DEF EndOfTable
  <2>2. ASSUME ret = 0 PROVE \A l \in 1 .. linenum : LineDone(l)'
    BY <2>1, <2>2, DoneStays DEF DoneInv
  <2>3. QED
    BY <2>1, <2>2 DEF DoneInv
<1>3. CASE Reads
  <2>1. /\ over = "no" /\ linenum' = linenum + 1 /\ table' = table
    BY <1>3 DEF Reads
  <2>2. over' # "done"
    BY <1>3, <2>1, Steps DEF Enters, Lasting, AddsCapability, Dies, EndOfTable
  <2>3. SUFFICES ASSUME ret' = 0, over' # "failed"
                 PROVE  \A l \in 1 .. linenum + 1 : LineDone(l)'
    BY <2>1, <2>2 DEF DoneInv
  <2>4. ret = 0
    BY <1>1, <1>3, <2>3, Steps DEF Enters, Lasting, AddsCapability, Dies, EndOfTable
  <2>5. \A l \in 1 .. linenum : LineDone(l)'
    BY <2>1, <2>4, DoneStays DEF DoneInv
  <2>6. PICK n \in 1 .. linenum + 1 : n = linenum + 1 /\ table'[n] = Line
    BY <1>1, <2>1 DEF Line
  <2>7. Line.is # "invalid"
    <3>1. CASE Enters
      BY <3>1 DEF Enters
    <3>2. CASE Line = [is |-> "xattr", cap |-> Line.cap]
      BY <3>2
    <3>3. QED
      BY <1>3, <2>1, <2>3, <3>1, <3>2, Steps DEF EndOfTable
  <2>8. ASSUME Line.is = "entry"
        PROVE  /\ NodesOf(Line, fs')
               /\ \A p \in LastWord(n)' : Satisfied(Line, fs'[p])
    <3>1. Achieves(fs')
      <4>1. CASE Enters
        BY <2>1, <2>3, <4>1 DEF Enters
      <4>2. CASE Line = [is |-> "xattr", cap |-> Line.cap]
        BY <2>8, <4>2
      <4>3. QED
        BY <1>3, <2>1, <2>3, <2>8, <4>1, <4>2, Steps DEF EndOfTable
    <3>2. ASSUME NEW p \in LastWord(n)' PROVE Satisfied(Line, fs'[p])
      <4>1. /\ p \in Paths /\ About(Line, p) /\ fs'[p].kind # "link"
            /\ UnderIt(Line, p) => before[p].kind # "none"
        BY <1>1, <2>6 DEF LastWord, Keeps, About, Documented, UnderIt
      <4>2. UnderIt(Line, p) => fs[p].kind # "none"
        BY <4>1 DEF AliveInv
      <4>3. QED
        BY <3>1, <4>1, <4>2 DEF Achieves
    <3>3. QED
      BY <3>1, <3>2 DEF Achieves
  <2>9. LineDone(n)'
    BY <2>6, <2>7, <2>8 DEF LineDone, NodesOf, Documented
  <2>10. QED
    BY <1>1, <2>5, <2>6, <2>9
<1>4. QED
  BY <1>2, <1>3, Steps DEF Enters

LEMMA DoneMeansDone == DevsTypeOK /\ DoneInv => EveryLineDone
<1> SUFFICES ASSUME DevsTypeOK, DoneInv, over = "done"
             PROVE  /\ NodesAsDocumented
                    /\ \A l \in DOMAIN table :
                          /\ table[l].is # "invalid"
                          /\ table[l].is = "entry" =>
                                \A p \in LastWord(l) :
                                   \/ table[l].type = "F" /\ fs[p].kind # "file"
                                   \/ /\ fs[p].kind # "none"
                                      /\ table[l].owner # Blank => fs[p].owner = table[l].owner
                                      /\ table[l].mode # Keep => fs[p].mode = table[l].mode
  BY Zenon DEF EveryLineDone
<1>1. /\ DOMAIN table = 1 .. linenum
      /\ \A l \in 1 .. linenum : LineDone(l)
  BY LinesOK DEF DoneInv
<1>2. NodesAsDocumented
  BY <1>1 DEF NodesAsDocumented, LineDone, NodesOf, Seen
<1>3. QED
  BY <1>1, <1>2 DEF LineDone, Satisfied

-----------------------------------------------------------------------------
(* The theorems.                                                           *)

\* The inductive invariant of all of them.
DevsInv == DevsTypeOK /\ FileInv /\ OnlyWhatIsNamed /\ CapabilityInv /\ AliveInv /\ DoneInv

LEMMA DevsInitInv == DevsInit => DevsInv
<1> SUFFICES ASSUME DevsInit PROVE DevsInv
  OBVIOUS
<1>1. /\ linenum = 0 /\ before \in Trees /\ fs = before /\ file = <<>> /\ ret = 0 /\ over = "no"
  BY DEF DevsInit
<1>2. \A p \in Paths : fs[p].caps = {}
  BY <1>1, DevsAssumption DEF Paths
<1>3. FileInv /\ OnlyWhatIsNamed /\ AliveInv
  BY <1>1 DEF FileInv, OnlyWhatIsNamed, AliveInv
<1>4. CapabilityInv
  BY <1>2 DEF CapabilityInv
<1>5. DoneInv
  BY <1>1 DEF DoneInv
<1>6. QED
  BY <1>3, <1>4, <1>5, DevsInitTypeOK DEF DevsInv

LEMMA DevsNextInv == DevsInv /\ [DevsNext]_mvars => DevsInv'
<1>1. ASSUME DevsInv, DevsNext PROVE DevsInv'
  BY <1>1, StepKeeps, FileNext, NamedNext, CapabilityNext, AliveNext, DoneNext DEF DevsInv
<1>2. ASSUME DevsInv, UNCHANGED mvars PROVE DevsInv'
  <2>1. UNCHANGED <<table, linenum, before, fs, file, buffer, ret, over>>
    BY <1>2 DEF mvars
  <2>2. DevsTypeOK' /\ AliveInv'
    BY <1>2, <2>1 DEF DevsInv, DevsTypeOK, AliveInv, Paths
  <2>3. FileInv'
    BY <1>2, FileNext DEF DevsInv
  <2>4. OnlyWhatIsNamed'
    BY <1>2, <2>1 DEF DevsInv, OnlyWhatIsNamed, Paths, Seen, Named, About, Documented, UnderIt,
                      OnTheWay
  <2>5. CapabilityInv'
    BY <1>2, <2>1 DEF DevsInv, CapabilityInv, Gives, Paths, Seen, Last
  <2>6. DoneInv'
    <3>1. \A l : LastWord(l)' = LastWord(l)
      BY <2>1 DEF LastWord, Paths, Seen, About, Documented, UnderIt
    <3>2. \A l : LineDone(l)' <=> LineDone(l)
      BY <2>1, <3>1 DEF LineDone, NodesOf, Documented
    <3>3. QED
      BY <1>2, <2>1, <3>2 DEF DevsInv, DoneInv
  <2>7. QED
    BY <2>2, <2>3, <2>4, <2>5, <2>6 DEF DevsInv
<1>3. QED
  BY <1>1, <1>2

\* The lines that main of makedevs.c reads leave a tree of inodes on the paths
\* that there were, with a user in the buffers that is known, whatever the
\* table says.
THEOREM DevsTypeCorrect == DevsSpec => []DevsTypeOK
<1>1. DevsInv => DevsTypeOK
  BY DEF DevsInv
<1>2. QED
  BY <1>1, DevsInitInv, DevsNextInv, PTL DEF DevsSpec

\* Whatever the table and the root file system, the program (main, with
\* bb_make_directory, recursive, mknod, chown and bb_set_xattr) changes nothing but
\* what a line names, what a link at such a path leads to, and the directories
\* on the way to it that it makes.
THEOREM DevsOnlyWhatIsNamed == DevsSpec => []OnlyWhatIsNamed
<1>1. DevsInv => OnlyWhatIsNamed
  BY DEF DevsInv
<1>2. QED
  BY <1>1, DevsInitInv, DevsNextInv, PTL DEF DevsSpec

\* Whatever the table, full_name is that of the entry right above a line of
\* capabilities when bb_set_xattr gets it, and chown never moves them.
THEOREM DevsCapabilityOnItsFile == DevsSpec => []CapabilityOnItsFile
<1>1. DevsInv => CapabilityOnItsFile
  BY CapabilityFollows DEF DevsInv
<1>2. QED
  BY <1>1, DevsInitInv, DevsNextInv, PTL DEF DevsSpec

\* Whatever the table, makedevs ends with EXIT_SUCCESS only if every line has
\* been done (every branch of the loop of main that fails sets ret), and a later
\* line takes back only what it is about.
THEOREM DevsEveryLineDone == DevsSpec => []EveryLineDone
<1>1. DevsInv => EveryLineDone
  BY DoneMeansDone DEF DevsInv
<1>2. QED
  BY <1>1, DevsInitInv, DevsNextInv, PTL DEF DevsSpec

=============================================================================

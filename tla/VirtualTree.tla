------------------------------ MODULE VirtualTree ------------------------------
(***************************************************************************)
(* The tree of virtual directories that class VFS builds from vfs.cfg, and *)
(* the directories of the disk that it refers to.                          *)
(*                                                                         *)
(* A path of the disk is the sequence of its names; the root is <<>>.  A   *)
(* path that does not begin with a slash begins with "." here (an absolute *)
(* one never does).  A node is named by its virtual path, the root by      *)
(* <<>>.  Only directories that can be entered have entries in Directory.  *)
(***************************************************************************)
EXTENDS Naturals, SequencesExt, Functions

CONSTANTS Directory,  \* the directories of the disk
          Closed,     \* those of them that the process may not enter
          Link,       \* symbolic links: where each leads
          Begins      \* pairs of names, the first a proper beginning of the second

Empty == ""           \* the empty string
NoDir == <<Empty>>    \* no directory

ASSUME DiskAssumption ==
  /\ Directory \cup {NoDir} \subseteq Seq(STRING)
  /\ <<>> \in Directory /\ Closed \subseteq Directory /\ NoDir \notin Directory
  /\ \A d \in Directory : d # <<>> => Front(d) \in Directory \ Closed
  /\ DOMAIN Link \cap Directory = {}
  /\ \A l \in DOMAIN Link : Front(l) \in Directory \ Closed /\ Link[l] \in Directory

Right == {"read", "write"}
NoUser == "none"

-----------------------------------------------------------------------------
(***************************************************************************)
(* The kernel's view: names, links, chdir().                               *)
(***************************************************************************)
Step(d, s) ==
  IF d = NoDir THEN NoDir
  ELSE CASE s = "."  -> d
         [] s = ".." -> IF d = <<>> THEN d ELSE Front(d)
         [] OTHER    -> LET e == Append(d, s)
                        IN  IF e \in DOMAIN Link THEN Link[e]
                            ELSE IF e \in Directory THEN e ELSE NoDir

Resolve(d, names) ==
  LET go[i \in 0..Len(names)] == IF i = 0 THEN d ELSE Step(go[i - 1], names[i])
  IN  go[Len(names)]

CanEnter(d) == d \in Directory \ Closed

\* string::find() = 0 on the written paths: "/pub" begins "/public" as well.
StringPrefix(p, q) ==
  \/ p = <<>>
  \/ /\ Len(p) <= Len(q)
     /\ Front(p) = SubSeq(q, 1, Len(p) - 1)
     /\ Last(p) = q[Len(p)] \/ <<Last(p), q[Len(p)]>> \in Begins

-----------------------------------------------------------------------------
(***************************************************************************)
(* Loading vfs.cfg.  A configuration has the directory of the root and the *)
(* lines, each [phys, virt, user, urights, orights], or Wrong for one that *)
(* does not parse.  The names of phys may be links.                        *)
(***************************************************************************)
ConfigLine == [phys : Seq(STRING), virt : Seq(STRING), user : STRING,
               urights : SUBSET Right, orights : SUBSET Right]
Configuration == [root : Seq(STRING), lines : Seq(ConfigLine)]

Wrong == [phys |-> NoDir, virt |-> <<>>, user |-> NoUser, urights |-> {}, orights |-> {}]

\* The root's owner and rights are never set: junk is what the memory holds.
Root(phys, junk) ==
  [v \in {<<>>} |-> [phys |-> phys, user |-> Empty, urights |-> {}, orights |-> junk, nth |-> 0]]

Relative(path) == path # <<>> /\ Head(path) = "."

\* CheckDir(): the resolved path, and the working directory that it leaves behind.
\* A relative path (-3) and a directory that may not be opened (-2) are reported, but
\* accepted as they are written: only a build with DEBUG refuses the former.
CheckDir(path, cwd) ==
  LET d == Resolve(<<>>, path)
  IN  IF Relative(path) THEN [ok |-> TRUE, path |-> path, cwd |-> cwd]
      ELSE IF d = NoDir THEN [ok |-> FALSE, path |-> path, cwd |-> cwd]
      ELSE IF d \in Closed THEN [ok |-> TRUE, path |-> path, cwd |-> cwd]
      ELSE [ok |-> TRUE, path |-> d, cwd |-> d]

\* Mutant of AddDirectory: the last line that passes through a node sets its rights.
AddDirectoryLast(t, line, phys, n) ==
  LET above == {SubSeq(line.virt, 1, i) : i \in 1..Len(line.virt)}
      new == [v \in above |->
                [phys |-> IF v = line.virt THEN phys
                          ELSE IF v \in DOMAIN t THEN t[v].phys ELSE NoDir,
                 user |-> line.user, urights |-> line.urights, orights |-> line.orights,
                 nth |-> IF v \in DOMAIN t THEN t[v].nth ELSE n]]
  IN  new @@ t

\* Line n makes the nodes that are missing on the way to its directory and gives
\* them its rights; a node that was on the way of an earlier line keeps what it has.
AddDirectory(t, line, phys, n) ==
  LET above == {SubSeq(line.virt, 1, i) : i \in 1..Len(line.virt)}
      NewNode(v) == [phys |-> IF v = line.virt THEN phys ELSE NoDir,
                     user |-> line.user, urights |-> line.urights, orights |-> line.orights,
                     nth |-> n]
  IN  IF line.virt \in DOMAIN t THEN [t EXCEPT ![line.virt].phys = phys]
      ELSE [v \in DOMAIN t \cup above |-> IF v \in DOMAIN t THEN t[v] ELSE NewNode(v)]

\* One pass of the loop over the lines; r is what was loaded so far.  The final slash
\* of a physical directory is cut off, and nothing is left of "/".
ReadLine(r, line, n) ==
  LET dir == IF line.phys = <<>> THEN [ok |-> TRUE, path |-> NoDir, cwd |-> r.cwd]
                                 ELSE CheckDir(line.phys, r.cwd)
      taken == line.virt \in DOMAIN r.tree /\ r.tree[line.virt].phys # NoDir
  IN  IF ~r.ok THEN r
      ELSE IF ~dir.ok \/ line.virt = <<>> \/ taken
        THEN [r EXCEPT !.ok = FALSE, !.cwd = dir.cwd]
        ELSE [ok |-> TRUE, cwd |-> dir.cwd, tree |-> AddDirectory(r.tree, line, dir.path, n)]

\* What is left when the loop ends or gives up: an error keeps the nodes made before,
\* and an error in the first line, or a file that is not there, leaves no tree.
LoadConfigFile(config, cwd, junk) ==
  LET root == CheckDir(config.root, cwd)
      load[n \in 0..Len(config.lines)] ==
        IF n > 0 THEN ReadLine(load[n - 1], config.lines[n], n)
        ELSE [ok |-> root.ok, cwd |-> root.cwd,
              tree |-> IF root.ok THEN Root(root.path, junk) ELSE <<>>]
  IN  load[Len(config.lines)]

-----------------------------------------------------------------------------
(***************************************************************************)
(* The order of the nodes in memory, which DirSecurityCheck() follows:     *)
(* a node before those below it, children in the order of their creation.  *)
(***************************************************************************)
Before(t, v, w) ==
  \/ IsStrictPrefix(v, w)
  \/ \E i \in 1..Len(v) :
       /\ i <= Len(w)
       /\ SubSeq(v, 1, i - 1) = SubSeq(w, 1, i - 1)
       /\ t[SubSeq(v, 1, i)].nth < t[SubSeq(w, 1, i)].nth

Owners(t, dir) ==
  {v \in DOMAIN t : t[v].phys # NoDir /\ StringPrefix(t[v].phys, dir)}

\* The first node whose directory begins the written path dir.
DirSecurityCheck(t, dir) ==
  CHOOSE v \in Owners(t, dir) : \A w \in Owners(t, dir) \ {v} : Before(t, v, w)
================================================================================

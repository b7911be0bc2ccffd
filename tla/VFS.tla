---------------------------------- MODULE VFS ----------------------------------
(***************************************************************************)
(* Class VFS in one session: where the user is in the virtual tree, how    *)
(* paths are followed, and whose rights RETR, STOR and LIST look at.       *)
(*                                                                         *)
(* A path is the sequence of its parts as CutPathIntoParts makes it: "/"   *)
(* first if it is absolute, and "" between two slashes.  A place is the    *)
(* record of current_node, current_dir and the process's working directory *)
(* (which getcwd() tells and the database's stat() starts from).  What is  *)
(* in the directories does not change.                                     *)
(***************************************************************************)
EXTENDS VirtualTree

CONSTANTS User,      \* those who may log in
          File,      \* the files of the disk
          Record,    \* the database: owner and rights of some files and directories
          Configs,   \* what vfs.cfg may hold
          Paths,     \* directories that the client names
          FilePaths, \* files that the client names
          Faults     \* "connect" if the data connection of LIST may fail

ASSUME VFSAssumption ==
  /\ Configs \subseteq Configuration
  /\ \A p \in Paths \cup FilePaths :
       p \in Seq(STRING) \ {<<>>} /\ p[1] # Empty /\ \A i \in 2..Len(p) : p[i] # "/"
  /\ \A d \in Directory \cup File : ToSet(d) \cap {".", "..", "/", Empty} = {}
  /\ \A f \in File : Front(f) \in Directory \ Closed /\ f \notin Directory \cup DOMAIN Link
  /\ Empty \notin User
  /\ Faults \subseteq {"connect"}

VARIABLES tree,   \* the nodes
          config, \* the contents of vfs.cfg that were loaded last
          junk,   \* the uninitialized rights of the root
          at,     \* the place
          user,   \* ftp_user_name while somebody is logged in, else ""
          phase,  \* "server" before the fork, then "session"
          reply   \* the outcome of the last command

vars == <<tree, config, junk, at, user, phase, reply>>

Here == <<".">>   \* current_dir of a place that is a node
Default == [user |-> NoUser, urights |-> {"read"}, orights |-> {"read"}]

-----------------------------------------------------------------------------
Phys(p) == tree[p.node].phys

\* The directory where the user is, NoDir in a node without one.
Where(p) == IF p.dir = Here THEN Phys(p) ELSE p.dir

\* A directory at the beginning of a longer path: "" and "/" come to the same.
Text(d) == IF d = NoDir THEN <<>> ELSE d

\* What a name in directory d stands for (stat); what the database knows of it.
Target(d, s) == IF Append(d, s) \in File THEN Append(d, s) ELSE Step(d, s)
Info(x) == IF x \in DOMAIN Record THEN Record[x] ELSE Default

Has(info, right) == (info.user = user /\ right \in info.urights) \/ right \in info.orights

\* What has no record may be entered.
Refused(x) == x \in DOMAIN Record /\ ~Has(Record[x], "read")

Done(p) == [ret |-> 1, at |-> p]
Fail(p, code) == [ret |-> code, at |-> p]

\* Mutant of Chdir: the call is expected to succeed.
ChdirBlind(p, d) == [p EXCEPT !.cwd = d]

Chdir(p, d) == IF CanEnter(d) THEN [p EXCEPT !.cwd = d] ELSE p

\* Goes to a node, and to its directory if that is possible.
Enter(p, node) == Chdir([p EXCEPT !.node = node], tree[node].phys)

\* Mutant of Refresh: only the node's directory is entered.
RefreshNode(p) == Chdir(p, Phys(p))

\* SimpleCd("."): back to where the user is, in two steps below a node.  Under the
\* root directory of the disk the rest of the path loses its first letter.
Refresh(p) ==
  IF Phys(p) = NoDir THEN p
  ELSE IF p.dir = Here \/ Phys(p) = <<>> \/ ~IsPrefix(Phys(p), p.dir) THEN Chdir(p, Phys(p))
  ELSE Chdir(Chdir(p, Phys(p)), p.dir)

\* Mutant of PhysicalCd: back in the node's directory it is not noticed.
PhysicalCdUnnoticed(p, s) ==
  LET to == Step(p.cwd, s)
  IN  IF Refused(Target(p.cwd, s)) THEN Fail(p, -2)
      ELSE IF ~CanEnter(to) THEN Fail(p, -3)
      ELSE Done([p EXCEPT !.cwd = to, !.dir = to])

\* A name that is no node: one directory further on the disk.
PhysicalCd(p, s) ==
  LET to == Step(p.cwd, s)
  IN  IF Refused(Target(p.cwd, s)) THEN Fail(p, -2)
      ELSE IF ~CanEnter(to) THEN Fail(p, -3)
      ELSE Done([p EXCEPT !.cwd = to,
                          !.dir = IF s = ".." /\ to = Phys(p) THEN Here ELSE to])

SimpleCd(p, s) ==
  CASE s = ".." /\ p.dir = Here ->
         IF p.node = <<>> THEN Fail(p, -5) ELSE Done([p EXCEPT !.node = Front(@)])
    [] s = "." -> Done(Refresh(p))
    [] s = "/" -> Done(Enter([p EXCEPT !.dir = Here], <<>>))
    [] s \notin {"..", ".", "/"} /\ p.dir = Here /\ Append(p.node, s) \in DOMAIN tree ->
         IF Has(tree[Append(p.node, s)], "read") THEN Done(Enter(p, Append(p.node, s)))
                                                 ELSE Fail(p, -2)
    [] s \notin {"..", ".", "/"} /\ p.dir = Here /\ Append(p.node, s) \notin DOMAIN tree ->
         IF Phys(p) = NoDir THEN Fail(p, -3)
         ELSE IF ~CanEnter(Phys(p)) THEN Fail(p, -1)
         ELSE PhysicalCd([p EXCEPT !.cwd = Phys(p)], s)
    [] OTHER -> PhysicalCd(p, s)

\* Mutant of FollowLink: the place is admitted, but the node is not changed.
FollowLinkInPlace(r) ==
  LET p == r.at
  IN  IF r.ret # 1 \/ p.dir = Here \/ Owners(tree, p.dir) # {} THEN r ELSE Fail(p, -6)

\* After each part: whoever came through a link below another node belongs there.
FollowLink(r) ==
  LET p == r.at
      owner == DirSecurityCheck(tree, p.dir)
  IN  IF r.ret # 1 \/ p.dir = Here \/ StringPrefix(Text(Phys(p)), p.dir) THEN r
      ELSE IF Owners(tree, p.dir) = {} THEN Fail(p, -6)
      ELSE Done([p EXCEPT !.node = owner,
                          !.dir = IF @ = tree[owner].phys THEN Here ELSE @])

\* Mutant of Return: the working directory is forgotten.
ReturnInName(p, cwd) == [p EXCEPT !.cwd = cwd]

\* Leaves a place for the one before; chdir(".") leads nowhere.
Return(p, cwd) ==
  IF p.dir = Here THEN [p EXCEPT !.cwd = cwd] ELSE Chdir([p EXCEPT !.cwd = cwd], p.dir)

CutPathIntoParts(path) == IF path # <<>> /\ Last(path) = Empty THEN Front(path) ELSE path
BadPath(path) == Empty \in ToSet(CutPathIntoParts(path))

\* One part of a path, unless an earlier one failed; from place p along all of them.
Go(r, s) == IF r.ret # 1 THEN r ELSE FollowLink(SimpleCd(r.at, s))
Walked(p, parts) ==
  LET go[i \in 0..Len(parts)] == IF i = 0 THEN Done(p) ELSE Go(go[i - 1], parts[i])
  IN  go[Len(parts)]

\* After a failure the user is back at p.
Arrived(p, r) == IF r.ret = 1 THEN r ELSE Fail(Return(p, r.at.cwd), r.ret)

\* Mutant of ChangeDir: a failure leaves the user on the way.
ChangeDirHalfway(p, path) ==
  IF BadPath(path) THEN Fail(p, -6) ELSE Walked(p, CutPathIntoParts(path))

ChangeDir(p, path) ==
  IF BadPath(path) THEN Fail(p, -6) ELSE Arrived(p, Walked(p, CutPathIntoParts(path)))

\* Mutant of CurrentDir: below a node only the directory is shown.
CurrentDirOfDisk(p) ==
  IF p.dir = Here THEN <<"/">> \o p.node
  ELSE <<"/">> \o SubSeq(p.dir, Len(Text(Phys(p))) + 1, Len(p.dir))

\* The virtual path of a place, which PWD shows.  "?" stands for the letters that are
\* left of a directory whose name only begins like the node's.  (Where no letter is left,
\* below the root, PWD shows none; CutPathIntoParts takes that for "/".)
CurrentDir(p) ==
  LET d == Text(Phys(p))
      rest == IF p.dir = Here THEN <<>>
              ELSE IF IsPrefix(d, p.dir) THEN SubSeq(p.dir, Len(d) + 1, Len(p.dir))
              ELSE <<"?">>
  IN  IF p.node = <<>> /\ rest # <<>> /\ (d = <<>> \/ ~IsPrefix(d, p.dir)) THEN rest
      ELSE <<"/">> \o p.node \o rest

-----------------------------------------------------------------------------
(***************************************************************************)
(* Physical paths and the rights of what they name.                        *)
(***************************************************************************)
\* One name further: as far as the parts name nodes the walk is virtual; what follows is
\* kept as it is.
Further(w, s) ==
  IF w.rest # <<>> THEN [w EXCEPT !.rest = Append(@, s)]
  ELSE CASE s = "."  -> w
         [] s = ".." -> IF w.node = <<>> THEN w ELSE [w EXCEPT !.node = Front(@)]
         [] OTHER    -> IF Append(w.node, s) \in DOMAIN tree
                        THEN [w EXCEPT !.node = Append(@, s)]
                        ELSE [w EXCEPT !.rest = <<s>>]
Along(node, parts) ==
  LET go[i \in 0..Len(parts)] ==
        IF i = 0 THEN [node |-> node, rest |-> <<>>] ELSE Further(go[i - 1], parts[i])
  IN  go[Len(parts)]
Walk(node, parts) ==
  LET end == Along(node, parts) IN Text(tree[end.node].phys) \o end.rest

\* Mutant of ConvertToPhysicalPath: a relative path always starts at the node.
ConvertFromNode(p, path) ==
  LET parts == CutPathIntoParts(path)
  IN  IF BadPath(path) THEN <<>>
      ELSE IF Head(parts) = "/" THEN Walk(<<>>, Tail(parts))
      ELSE Walk(p.node, parts)

ConvertToPhysicalPath(p, path) ==
  LET parts == CutPathIntoParts(path)
  IN  IF BadPath(path) THEN <<>>
      ELSE IF Head(parts) = "/" THEN Walk(<<>>, Tail(parts))
      ELSE IF p.dir = Here THEN Walk(p.node, parts)
      ELSE p.dir \o parts

\* The part of a path before its last slash; "." if there is none.
Dirname(path) == IF Len(path) = 1 THEN <<".">> ELSE Front(path)

\* What fopen() makes of a physical path.
Opened(text) ==
  LET d == Resolve(<<>>, Front(text))
  IN  IF d = NoDir \/ ~CanEnter(d) THEN NoDir ELSE Target(d, Last(text))

\* Where the record is looked up is told by the working directory, and the file's
\* name by the conversion of its path.  r is where its directory leads.
InfoFrom(p, path, r) ==
  IF r.ret # 1 THEN [ret |-> r.ret, at |-> r.at, key |-> NoDir, path |-> <<>>]
  ELSE [ret |-> 1, at |-> Return(p, r.at.cwd), key |-> Target(r.at.cwd, Last(path)),
        path |-> Append(IF Len(path) = 1 THEN Text(Where(p))
                        ELSE ConvertToPhysicalPath(p, Dirname(path)),
                        Last(path))]

GetFileInfo(p, path) == InfoFrom(p, path, ChangeDir(p, Dirname(path)))

\* The rights to write, by a node or by a record; the user is back at p.
NodeRights(p, node) == [ok |-> Has(tree[node], "write"), checked |-> tree[node].phys, at |-> p]
KeyRights(p, info) ==
  [ok |-> Has(Info(info.key), "write"), checked |-> info.key, at |-> Return(p, info.at.cwd)]

\* The directory of name s as seen from there, which is the place above it.
RightsFrom(p, there, s, short) ==
  LET child == Append(there.node, s)
  IN  IF child \in DOMAIN tree /\ (short \/ there.dir = Here)
      THEN [NodeRights(IF short THEN p ELSE Return(p, there.cwd), child)
              EXCEPT !.ok = @ /\ tree[child].phys # NoDir]
      ELSE KeyRights(p, GetFileInfo(there, <<s>>))

\* Mutant of AllowedToWriteToDir: the last name is looked for in the current place.
AllowedToWriteNearby(p, path) ==
  LET dir == CutPathIntoParts(path)
  IN  CASE dir = <<"/">> -> NodeRights(p, <<>>)
        [] dir = Here /\ p.dir = Here -> NodeRights(p, p.node)
        [] OTHER -> RightsFrom(p, p, Last(dir), TRUE)

\* May the user write into a directory?  checked is the one whose rights were looked at.
AllowedToWriteToDir(p, path) ==
  LET dir == CutPathIntoParts(path)
      short == Len(dir) = 1
  IN  CASE dir = <<"/">> -> NodeRights(p, <<>>)
        [] dir = Here /\ p.dir = Here -> NodeRights(p, p.node)
        [] dir # <<"/">> /\ ~(dir = Here /\ p.dir = Here) ->
             RightsFrom(p, IF short THEN p ELSE ChangeDir(p, Front(dir)).at, Last(dir), short)

\* The entries that NextFile() takes from the disk, and what the database says of them.
Entries(d) == {x \in Directory \cup DOMAIN Link \cup File : x # <<>> /\ Front(x) = d}
Listing(p) ==
  IF CanEnter(Where(p))
  THEN [s \in {Last(x) : x \in Entries(Where(p))} |-> Info(Target(Where(p), s))]
  ELSE <<>>

\* IsDir() asks for a node or a directory; it goes to the place above, r, and returns.
IsDirFrom(p, s, r) ==
  IF r.ret # 1 THEN [ok |-> FALSE, at |-> r.at]
  ELSE [at |-> Return(p, r.at.cwd),
        ok |-> Append(r.at.node, s) \in DOMAIN tree \/ Step(r.at.cwd, s) # NoDir]

IsDir(p, path) ==
  LET dir == CutPathIntoParts(path)
  IN  IF dir \in {<<"/">>, Here} THEN [ok |-> TRUE, at |-> p]
      ELSE IsDirFrom(p, Last(dir), ChangeDir(p, IF Len(dir) = 1 THEN <<".">> ELSE Front(dir)))

-----------------------------------------------------------------------------
(***************************************************************************)
(* The server before it forks.                                             *)
(***************************************************************************)
Start(loaded) == [node |-> <<>>, dir |-> Here, cwd |-> loaded.cwd]

\* VFS::VFS(): a file with an error is refused.
Init ==
  /\ config \in Configs /\ junk \in {{}, {"write"}}
  /\ LET loaded == LoadConfigFile(config, <<>>, junk)
     IN  loaded.ok /\ tree = loaded.tree /\ at = Start(loaded)
  /\ user = Empty /\ phase = "server" /\ reply = 220

\* SIGHUP: the old tree is gone whatever the new file holds.
ReloadConfigFile ==
  /\ phase = "server"
  /\ config' \in Configs /\ junk' \in {{}, {"write"}}
  /\ LET loaded == LoadConfigFile(config', at.cwd, junk')
     IN  tree' = loaded.tree /\ at' = Start(loaded)
  /\ UNCHANGED <<user, phase, reply>>

\* No node has a directory that depends on the working directory of the process: "U
\* fyzickych adresaru je nutne zadavat absolutni cestu" (user_manual.rtf:84), and the
\* message "relativni cesta neni povolena" (VFS.cpp:208, 299).
AbsoluteOnly == \A v \in DOMAIN tree : ~Relative(tree[v].phys)

\* A child with the parent's tree.  Two sessions are not followed here: one without a root,
\* whose current_node is dangling, and one with a relative directory.
Fork ==
  /\ phase = "server" /\ DOMAIN tree # {} /\ AbsoluteOnly
  /\ phase' = "session"
  /\ UNCHANGED <<tree, config, junk, at, user, reply>>

(***************************************************************************)
(* The commands of a session.                                              *)
(***************************************************************************)
Stay == UNCHANGED <<tree, config, junk, user, phase>>
Answer(ok, yes, no) == reply' = IF ok THEN yes ELSE no
LoggedIn == phase = "session" /\ user # Empty

\* REIN, and USER while somebody is logged in.
Frein ==
  /\ phase = "session" /\ user # Empty
  /\ user' = Empty /\ reply' = 220
  /\ at' = ChangeDir(at, <<"/">>).at
  /\ UNCHANGED <<tree, config, junk, phase>>

Fpass(u) ==
  /\ phase = "session" /\ user = Empty
  /\ user' = u /\ reply' = 230
  /\ UNCHANGED <<tree, config, junk, at, phase>>

Moved(r) == at' = r.at /\ Answer(r.ret = 1, 250, 550)

Fcwd(path) == LoggedIn /\ Stay /\ Moved(ChangeDir(at, path))

Fcdup == LoggedIn /\ Stay /\ Moved(ChangeDir(at, <<"..">>))

\* LIST of a directory goes there, and back by the virtual path; of a file it asks
\* GetFileInfo().
ListFile(info) == at' = info.at /\ Answer(info.ret = 1 /\ Opened(info.path) \in File, 226, 450)
ListDir(r) ==
  IF r.ret = 1 THEN at' = ChangeDir(r.at, CurrentDir(at)).at /\ reply' = 226
  ELSE at' = r.at /\ reply' = 450

Flist(path) ==
  /\ LoggedIn /\ Stay
  /\ \E dir \in {IsDir(at, path)} :
       IF dir.ok THEN ListDir(ChangeDir(dir.at, path)) ELSE ListFile(GetFileInfo(dir.at, path))

\* The data connection cannot be made or is lost: LIST returns from where it is.
FlistFails(path) ==
  /\ "connect" \in Faults /\ LoggedIn /\ Stay
  /\ \E dir \in {IsDir(at, path)} : \E r \in {ChangeDir(dir.at, path)} :
       dir.ok /\ r.ret = 1 /\ at' = r.at /\ reply' = 426

\* What RETR does with a path: whose record is looked at, and the file it sends.
Permitted(info) ==
  /\ info.ret = 1
  /\ \/ Has(Info(info.key), "read")
     \/ Info(info.key).user = "anonymous" /\ "read" \in Info(info.key).urights
RetrievalOf(info) ==
  [checked |-> info.key, at |-> info.at,
   used |-> IF Permitted(info) THEN Opened(info.path) ELSE NoDir]
Retrieval(p, path) == RetrievalOf(GetFileInfo(p, path))

\* The same of STOR and its directory.
StorageIn(into, rights) ==
  [checked |-> rights.checked, at |-> rights.at,
   used |-> IF rights.ok /\ CanEnter(into) THEN into ELSE NoDir]
Storage(p, path) ==
  LET dir == IF Len(path) = 1 THEN <<".">> ELSE Front(path)
  IN  StorageIn(Resolve(<<>>, ConvertToPhysicalPath(p, dir)), AllowedToWriteToDir(p, dir))

Fretr(path) ==
  /\ LoggedIn /\ Stay
  /\ \E x \in {Retrieval(at, path)} : at' = x.at /\ Answer(x.used \in File, 226, 550)

Fstor(path) ==
  /\ LoggedIn /\ Stay
  /\ \E x \in {Storage(at, path)} : at' = x.at /\ Answer(x.used # NoDir, 226, 553)

Next ==
  \/ ReloadConfigFile \/ Fork \/ Frein \/ Fcdup
  \/ \E u \in User : Fpass(u)
  \/ \E path \in Paths : Fcwd(path) \/ Flist(path) \/ FlistFails(path)
  \/ \E path \in FilePaths : Fretr(path) \/ Fstor(path)

Spec == Init /\ [][Next]_vars

-----------------------------------------------------------------------------
\* The tree is closed upwards, the place is in it, and every part has its type.
TypeOK ==
  /\ \A v \in DOMAIN tree :
       /\ tree[v].orights \subseteq Right /\ tree[v].urights \subseteq Right
       /\ v # <<>> => Front(v) \in DOMAIN tree
  /\ DOMAIN tree # {} => at.node \in DOMAIN tree
  /\ at.dir \in Directory \cup {Here} /\ at.cwd \in Directory
  /\ user \in User \cup {Empty} /\ phase \in {"server", "session"} /\ junk \subseteq Right

-----------------------------------------------------------------------------
(***************************************************************************)
(* The tree against vfs.cfg, read without the program's order of doing it. *)
(***************************************************************************)
Lines(v, k) == {n \in 1..k : IsPrefix(v, config.lines[n].virt)}
Given(v, k) == {n \in 1..k : config.lines[n].virt = v}

DirOf(n) ==
  LET p == config.lines[n].phys
  IN  IF p = <<>> THEN NoDir
      ELSE IF Relative(p) \/ Resolve(<<>>, p) \in Closed THEN p ELSE Resolve(<<>>, p)

FirstOf(S) == CHOOSE n \in S : \A m \in S : n <= m
LastOf(S) == CHOOSE n \in S : \A m \in S : m <= n

HasRights(v, n) ==
  /\ tree[v].user = config.lines[n].user /\ tree[v].urights = config.lines[n].urights
  /\ tree[v].orights = config.lines[n].orights

\* The tree of the first k lines: a node has the directory of the line that names it,
\* and the rights of that line if no line before it passed through the node.  (If one
\* did, the code leaves the node its rights, and the manual, user_manual.rtf:63-79, gives
\* it those of its own line; neither is asserted.)  A node that no line
\* names, of which vfs.cfg says nothing, has the rights of the first one below it.
Described(k) ==
  /\ DOMAIN tree = {<<>>} \cup
       UNION {{SubSeq(v, 1, i) : i \in 1..Len(v)} : v \in {config.lines[n].virt : n \in 1..k}}
  /\ \A v \in DOMAIN tree \ {<<>>} :
       /\ tree[v].phys = IF Given(v, k) = {} THEN NoDir ELSE DirOf(LastOf(Given(v, k)))
       /\ Given(v, k) = {} \/ config.lines[FirstOf(Lines(v, k))].virt = v
            => HasRights(v, FirstOf(Lines(v, k)))

Mistaken(n) ==
  \/ config.lines[n].virt = <<>>
  \/ DirOf(n) = NoDir /\ config.lines[n].phys # <<>>
  \/ \E m \in Given(config.lines[n].virt, n - 1) : DirOf(m) # NoDir

\* Whatever is reloaded, the tree is the one that vfs.cfg describes as far as its first
\* mistake, and no tree at all only without the first line (VFS.cpp:162-371, 484-499).
TreeAsConfigured ==
  IF DOMAIN tree = {} THEN ~Relative(config.root) /\ Resolve(<<>>, config.root) = NoDir
  ELSE \E k \in 0..Len(config.lines) :
         Described(k) /\ (k < Len(config.lines) => Mistaken(k + 1))

-----------------------------------------------------------------------------
\* A directory of the disk where the user is begins like the directory of the current
\* node: the program's own check in CurrentDir (VFS.cpp:817-824).
NodeOwnsDir == at.dir # Here => Phys(at) # NoDir /\ StringPrefix(Phys(at), at.dir)

\* What SimpleCd(".") finds again from the node (VFS.cpp:626-642): not a directory whose
\* name only begins like the node's, and none below a "/" that is shared.
FoundAgain(p) == p.dir = Here \/ (Phys(p) # <<>> /\ IsPrefix(Phys(p), p.dir))

\* Below a node the process is in the directory that current_dir names, whatever
\* detours a command made: the check in CurrentPhysicalDir (VFS.cpp:855-862).
DirIsCwd == at.dir # Here /\ FoundAgain(at) => at.cwd = at.dir

\* current_node, current_dir and the working directory tell the same place.
PlaceConsistent == NodeOwnsDir /\ DirIsCwd

\* LIST, which looks records up by absolute name, and RETR, SIZE and DELE, which do it
\* from the working directory, agree on the rights of every entry.
ListAgreesWithGet ==
  LoggedIn /\ FoundAgain(at) => \A s \in DOMAIN Listing(at) : \A info \in {GetFileInfo(at, <<s>>)} :
    info.ret = 1 /\ Info(info.key) = Listing(at)[s]

\* A place that PWD has a path for: a node, or a directory below the node's own that no
\* virtual directory of the same name hides.  (Links lead into hidden directories, and
\* back to the node's.)
OnPath(p) ==
  \/ p.dir = Here
  \/ /\ FoundAgain(p) /\ p.dir # Phys(p)
     /\ Append(p.node, p.dir[Len(Phys(p)) + 1]) \notin DOMAIN tree

\* PWD shows where the user is: if CWD follows its answer at all, it leads to the same
\* node and directory (it does not where a link led past a directory that the user may
\* not read), and CDUP to a place that PWD has a path for as well, so that from the
\* directory of a node, which has the node's path, the nodes below it are found.
Back == ChangeDir(at, CurrentDir(at))
Same(p, q) == p.node = q.node /\ p.dir = q.dir
RoundTrip ==
  LoggedIn /\ OnPath(at) =>
    /\ \A back \in {Back} : back.ret = 1 => Same(back.at, at)
    /\ \A up \in {ChangeDir(at, <<"..">>)} : up.ret = 1 => OnPath(up.at)

\* Do all these parts name nodes, as the conversion of the path takes them?
OnNodes(p, parts) ==
  IF parts # <<>> /\ Head(parts) = "/" THEN Along(<<>>, Tail(parts)).rest = <<>>
  ELSE p.dir = Here /\ Along(p.node, parts).rest = <<>>

\* A way on which the conversion of its path keeps up with the walk: no "." at a place that
\* is not found again, and no start from one; from a directory of the disk no link or ".."
\* back to a node and on from there to another one; at its end no step up from a node.
Straight(p, parts) ==
  /\ Empty \notin ToSet(parts)
  /\ \A i \in 1..Len(parts) : \A q \in {Walked(p, SubSeq(parts, 1, i - 1)).at} :
       /\ parts[i] = "." \/ (i = 1 /\ parts[i] # "/") => FoundAgain(q)
       /\ q.dir = Here /\ (parts[i] = ".." \/ Append(q.node, parts[i]) \in DOMAIN tree)
            => OnNodes(p, SubSeq(parts, 1, i - 1))
  /\ Last(parts) = ".." => Walked(p, Front(parts)).at.dir # Here

\* The file that RETR sends is the one whose record was looked at, by whatever links and
\* nodes its path leads, if the way is straight and its directory is on a disk.
RetrSendsChecked ==
  LoggedIn => \A path \in FilePaths :
    \A x \in {Retrieval(at, path)}, dir \in {ChangeDir(at, Dirname(path)).at} :
      x.used \in File /\ Where(dir) # NoDir /\ Straight(at, CutPathIntoParts(Dirname(path)))
        => x.checked = x.used

\* STOR writes into the directory whose rights it looked at, if the way is straight, the
\* directory above can be reached (the failure is not looked at, VFS.cpp:1335), is found
\* again (by the "." of VFS.cpp:1363) and is a node's parent or on a disk, and no
\* virtual directory of the node is taken for one of the disk (VFS.cpp:1302).
StorWritesChecked ==
  LoggedIn => \A path \in FilePaths :
    \A x \in {Storage(at, path)}, dir \in {CutPathIntoParts(Dirname(path))} :
      LET above == ChangeDir(at, Front(dir))
          virtual == Append(above.at.node, Last(dir)) \in DOMAIN tree
          mistaken == virtual /\ Len(dir) = 1 /\ at.dir # Here
      IN  /\ x.used # NoDir /\ x.checked # NoDir
          /\ Straight(at, dir) /\ above.ret = 1
          /\ \/ dir = <<"/">>
             \/ FoundAgain(above.at) /\ (virtual \/ Where(above.at) # NoDir)
          /\ ~mistaken
          => x.checked = x.used

\* Only CWD and CDUP that were answered with 250, and REIN, move the user: not the queries,
\* not a LIST that is sent, and no command that failed on its way ("Pokud nelze vejit do
\* noveho adresare, zustane na puvodnim miste", VFS.cpp:734).  A LIST whose data
\* connection fails (426) stays where it is.
StaysPut ==
  [][~Same(at', at) /\ LoggedIn /\ Back.ret = 1 /\ OnPath(at)
     => reply' \in {220, 250, 426}]_vars

-----------------------------------------------------------------------------
(***************************************************************************)
(* What makes TypeOK and PlaceConsistent inductive.                        *)
(***************************************************************************)
Node == [phys : Seq(STRING), user : STRING, urights : SUBSET Right, orights : SUBSET Right,
         nth : Nat]

\* A tree, of which DirSecurityCheck() finds the first node: brothers differ in their age.
TreeOK(t) ==
  /\ t \in [DOMAIN t -> Node] /\ IsFiniteSet(DOMAIN t)
  /\ \A v \in DOMAIN t : v \in Seq(STRING) /\ (v # <<>> => Front(v) \in DOMAIN t)
  /\ DOMAIN t # {} => <<>> \in DOMAIN t
  /\ \A v, w \in DOMAIN t \ {<<>>} : Front(v) = Front(w) /\ t[v].nth = t[w].nth => v = w

\* A place on the way: it has a node, whose directory begins like the one that was entered.
PlaceOK(p) ==
  /\ p \in [node : DOMAIN tree, dir : (Directory \ Closed) \cup {Here}, cwd : Directory]
  /\ p.dir # Here => Phys(p) # NoDir /\ StringPrefix(Phys(p), p.dir)

PlaceInv ==
  /\ TypeOK /\ TreeOK(tree) /\ config \in Configs /\ DirIsCwd
  /\ IF phase = "server" THEN at \in [node : {<<>>}, dir : {Here}, cwd : Directory]
                         ELSE PlaceOK(at)
================================================================================

# smallFTPd in TLA+

Specifications of smallFTPd, an FTP server for Unix that shows its users a
virtual directory tree and remembers who uploaded what.  Paths below are
relative to the repository's `src/` directory unless they begin with `src/src/`;
line numbers belong to the commit that the modules were written from.

    tlc -workers 2 -config DirectoryDatabase_safety.cfg MCDirectoryDatabase
    tlapm DirectoryDatabaseProofs.tla

## 1. The system

One process, the *parent server*, listens on the control port and forks a
*child* for every connection.  The child runs `main()`'s inner loop: read a
command, call the function `f<command>` of it, reply.  Everything a child knows
is in global variables, copied by `fork()`.  The processes share nothing in
memory; they meet in files (the database, its lock file, the pid file, the deny
list, vfs.cfg, the transferred files themselves) and in signals.

| Component | State | Operations | Meets |
|---|---|---|---|
| **Database of owners**, `DirectoryDatabase.cpp` | a gdbm file i-node -> owner and rights; a lock file; per object `locked`, `num_of_deleted_items` | constructor, `PutFileInfo`, `GetFileInfo`, `DeleteFileInfo`, `LockDatabase`, `UnlockDatabase` | every child, through the lock file; called by the VFS |
| **File commands**, `ftpcommands.cpp` | the real files; `rename_from`, `rename_from_info`, `current_user` | RETR, STOR, APPE, STOU, DELE, MKD, RMD, RNFR, RNTO | file system and database, which must agree |
| **Server process**, `smallFTPd.cpp`, `signaly.cpp` | `finish`, `reload_config_file`, `ip_deny_list`, `parent`, `run`; pid file, deny list, vfs.cfg | main loop, fork, handlers of SIGCHLD, SIGHUP, SIGTERM; DENYIP, FINISH | parent and children, by signals and files |
| **Session**, `network.cpp`, `ftpcommands.cpp`, `signaly.cpp` | `passive`, `restart`, `ftp_abort`, the data sockets, descriptors | PASV, PORT, REST, transfers, ABOR (SIGURG) | the client; the handler of SIGURG runs inside a transfer |
| **Virtual filesystem**, `VFS*.cpp` | a tree of virtual directories with rights, the current directory | CWD, CDUP, PWD, `DirSecurityCheck`, `AllowedToWriteToDir`, LIST's filter | used by every file command |
| **Configuration** | users, deny list, vfs.cfg | `LoadAccountFile`, `LoadIPDenyList`, `ReloadConfigFile` | read at start and on SIGHUP |
| **Login** | `current_user`, `logged_in` | USER, PASS, REIN | gates every other command |
| **Commands and replies**, `pomocne.cpp`, `network.cpp` | none | `CutIntoParts`, `ParseCommand`, `ClientRequest`, `FTPReply` | one `read()` is one command |
| **Conversions**, `pomocne.cpp` | the CR held back between two blocks | `LF2CRLF`, `CRLF2LF`, `EraseEOR` | the loops of RETR, STOR |
| **TLS**, `security.cpp` | two OpenSSL connections | AUTH, PBSZ, PROT | control and data connection |
| **Information commands** | none | LIST's lines, SIZE, MDTM, STAT, HELP, SITE | |

### What is hard

* *Concurrency.*  Several children work on one database and one file system; the
  lock is a file, and the key of a record is read before the lock is taken.
  Signal handlers run between any two steps of `main()`.
* *Failure.*  Any system or gdbm call may fail, and each error path closes and
  unlocks by hand; a process may be killed with the lock in its hands.
* *Ordering.*  DELE and RMD delete the record before the file, RNTO changes the
  names and the record in four steps, `reload_config_file` is reset after the
  reload, `parent` after the fork.
* *Leftovers.*  `passive`, `restart`, `ftp_abort` and `rename_from` are globals
  that one command leaves to the next.
* *Detours.*  Records are looked up relative to the working directory; every query of
  the VFS changes it, `current_node` and `current_dir`, and has to come back from
  wherever a link, a closed directory or a missing name stopped it.
* *Boundaries.*  Line ends are converted block by block, and transfers resume in the
  middle of what an earlier one left.
* *Limits.*  Descriptors, zombies, and the `LOCKING_TIMEOUT` attempts for the lock.

`PROJECT.json` lists every such hazard at its line with the properties that
would catch it.

## 2. Modules

    FileInfoStore           what the database promises: atomic calls
       ^ refines
    DirectoryDatabase       lock file, retries, gdbm, crashes
       DirectoryDatabaseProofs
       MCDirectoryDatabase          instance for TLC
    FileCommands            sessions, files, i-nodes and records
       FileCommandsProofs           types; records when commands overlap
       FileOwnersProofs             files, records and readers when they do not
       MCFileCommands
    Server                  parent, children, signals, shared files
       ServerProofs
       MCServer
    Session                 one child's globals, sockets, ABOR
       SessionProofs
       MCSession
    VirtualTree             the disk, links, and the tree of vfs.cfg
    VFS                     where a session is in it, and whose rights count
       VFSProofs
       MCVFS
    Transfer                the bytes of STOR, APPE and RETR
       TransferProofs
       MCTransfer
    SequenceProofs          induction and recursion over sequences, for the last two

`FileCommands` uses the three database calls as `FileInfoStore` has them: one
atomic step each, which may fail.  That `DirectoryDatabase` implements
`FileInfoStore` is what justifies it.  `VFS` EXTENDS `VirtualTree`.  The other
modules are abstractions of the same processes without common variables:
`Session` looks inside the step "serve" of a child in `Server`; `VFS` at the
names, and `Transfer` at the bytes, that `FileCommands` takes as given.

**DirectoryDatabase.**  A process is a server process with its one
`DirectoryDatabase` object; `pc` says where it is in a call.  `SkipLock`,
`CreateLock`, `RetryLock` and `GiveUpLock` are the ways through the loop of
`LockDatabase`; `GdbmOpen`, `Access`, `GdbmClose` and their failing variants the
critical section; `Unlock` and `UnlockFails` are `UnlockDatabase`.  `Construct`
is the constructor, run by the parent only.  `End` is a process that ends or is
killed; `DeleteLockFile` is the administrator who does what the constructor's
exception asks of him.  A record of the database is a model value.

**FileCommands.**  `dir` maps names to i-nodes, `file` i-nodes to what they are,
`handle` sessions to the file they have open, `rec` i-nodes to owners, `ses`
sessions to the globals and the locals of the command that runs.  An i-node is
free again when no name and no handle refers to it, and is reused.  `pc` steps
through a command system call by system call; `PutKey` and `DeleteKey` are the
`stat()` inside the database calls, `Put` and `Delete` the calls themselves.
`authors` and `sealed` are history: whose bytes are in the file, and who was told
that the upload is complete.

**Server.**  `srv` holds the globals of each server and where it is in
`main()`, with the set of pending signals; `kid` the same for the children.
`Load` .. `Konec` are the steps of `main()`; `HUPHandler`, `TermHandler`,
`ReapChild`, `WaitReturns` the handlers; `BecomeChild` .. `Exit` a child.  A
version number stands for the contents of vfs.cfg; `asked` is the version that
the last SIGHUP was about.  `PidFails` is `WritePid` without a file.  What fails in
silence is kept as history: `arranged` are the addresses for which DENYIP wrote its line,
found a pid file and answered 200; `named` says that the pid file was written, `blind`
that the last look at deny_list.cfg failed (in `Load` or in `HUPHandler`).

**Session.**  One variable for each of the code's globals; `listening`, `data`
and `file` say whether the descriptor that `server_data_socket`,
`client_data_socket` or the open file names is open, `lost` counts open
descriptors that no variable names any more.  `owed` counts commands the client
has no answer to.  The offset of a REST is a flag.  `deaf` says that `main()` stands
still inside the handler of SIGURG, which reads the control connection and waits
(`Abor` until `AborRead`, `AborLate` until `Swallowed`).

**VirtualTree.**  The disk is a constant: `Directory`, of which `Closed` cannot be
entered, and `Link`.  `Resolve` is the kernel's walk over a path.  `LoadConfigFile`
folds `AddDirectory` over the lines of a file and stops at the first mistake, as the
code does; `DirSecurityCheck` finds the node that a physical directory is attributed
to, in the order in which the tree is traversed, by the beginnings of written paths
(`StringPrefix`).  A relative path begins with "." in the model; `CheckDir` lets it
pass, as the code does.

**VFS.**  A place `at` is `current_node`, `current_dir` and the process's working
directory.  `SimpleCd`, `ChangeDir`, `GetFileInfo`, `IsDir`, `ConvertToPhysicalPath`
and `AllowedToWriteToDir` are operators from a place and a path to a return code
and the place that they leave behind, failures half way included, because the code
has no other way of undoing a step than taking another.  The actions are the
commands that use them: `Fcwd`, `Fcdup`, `Flist`, `FlistFails`, `Fretr`, `Fstor`,
`Frein`, `Fpass`, with `ReloadConfigFile` and `Fork` before the session.

**Transfer.**  `text` is the client's file, `file` what is on the server and `copy`
what the client has of it.  A step of `Receive` or `Send` is one turn of the loop in
STOR, APPE or RETR with a block of any size up to `BufSize`; `held` is the CR that
`fstor` keeps back (`src/src/ftpcommands.cpp:1178`).  What fails without being noticed
is an action or a choice of its own, switched on by `Faults`: `SendShort` (a `write()`
that ends early), `HeldLost` (the held CR that is not written), `Closed` (what
`fclose()` leaves on the disk); `missing` is the history of what they lost.  `reply` is
the sequence of codes that a command was answered with, so that 426 and 226 after an
ABOR are told from 226 alone.  `ReceiveAborted`, `Killed`, `WriteFails`
and `SendAborted` break a transfer off; the client then resumes an upload with `Frest`
at most at the length of the server's file, or with APPE, and a download at the length
of its copy, and may change `Ftype` before.

Mutants stand beside the definition they change and are named after it
(`CreateLockShared` of `CreateLock`); they are used by no specification.

## 3. What is checked

All bounds are in the `.cfg` files and, where they are sets of structures, in the MC
modules; every bound on counters is a CONSTANT.

| Run | Result | What it shows |
|---|---|---|
| `DirectoryDatabase_safety` | pass | `ExclusiveAccess`: one process at a time between lock and unlock; `LockKept`: nobody removes another's lock; `ImplementsStore`: each call is atomic and its code tells what it did; `LockInv` is the inductive invariant of the proof. Every call may fail, everybody may be killed anywhere. |
| `DirectoryDatabase_live` | pass | `CallEnds`: a call ends even against a lock that stays; `LockReleased`: every path of the three operations unlocks, after a failing `gdbm_open` as well as after a failing access; `StaleLockMeansUncleanEnd`: a lock without a holder means a killed process, as the constructor's message claims, or a constructor that gave up with the lock. |
| `FileCommands_turns` | pass | Commands one at a time on shared names, with failing deletions of records: `OwnersInv` (inductive; it implies `OwnersAgree`), `NoForeignRead`, `OnlyOwnerRemoves`, `RenameAuthorised`, `RenameKeepsFile`. |
| `FileCommands_apart` | pass | Full interleaving at each system call, transfers fail, each session changes its own names: `OwnersAgree`, and `NoStaleRecord`: no i-node is given back with a record. |
| `FileCommands_aborted` | violation of `NoForeignRead` | An aborted upload is everybody's to read. |
| `Server_signals` | pass | Under coalescing signals, several DENYIPs at once, reloads and failing system calls, while the pid file and deny_list.cfg may fail to be opened, read or written: `ReapNeverBlocks`, `ReloadRemembered`; `PidFileKept`: a pid file that was written stays; `DenyEnforced`: a denied address whose line was written and whose SIGHUP was sent is not served, if the server could read the list. |
| `Server_busy` | pass | `FinishEnds` and `OneLateClient`: FINISH ends a server after one more client at most, if clients come; children are stopped and terminated, and a second server is started. |
| `Server_idle` | violation of `FinishEnds` | If no client comes, FINISH never ends the server. |
| `Session_transfers` | pass | `PassiveMeansListening`, `ConnectsAsTold`, `EndIsAnswered`, `AborEndsTransfer` over every order of commands, faults and ABORs, with too few descriptors and system calls that fail although there are some. `EndIsAnswered` leaves out just the return at `network.cpp:234` and a client that is gone. |
| `Session_stale_abor` | violation of `AbortOnlyRunning` | ABOR during LIST, or too late, aborts a later transfer. |
| `VFS_navigation` | pass | `TreeAsConfigured` after any reloads of right and wrong files: each directory is that of its line, and so are its rights where no earlier line passed through; `PlaceConsistent`, `ListAgreesWithGet`, `RoundTrip` (CWD to the answer of PWD), `StaysPut` after any walk; `RetrSendsChecked` and `StorWritesChecked`: the rights that were looked at are those of the file or directory that is used, on every straight way (section 4). |
| `Transfer_resumed` | pass | `StoredIsPrefix` and `CopyIsPrefix`: whatever broke off and was resumed in whichever type, what arrived is a beginning of the file, as long as no unnoticed failure made a hole in it; `Whole226`: 226 alone means all of it, if none of it was lost unnoticed. All three kinds of unnoticed failure happen in the run. |

All properties of the passing runs but the four about liveness are also proved
(section 4); there the run shows that the assumptions can be met and that the
interesting cases happen.

### Bounds

* `DirectoryDatabase`: parent and two children, which is two contenders for the
  lock plus the one whose object they inherit; one i-node (the lock is for the
  whole database, so a second one adds nothing to it), two records to tell an old
  from a new one, `LockingTimeout` 2 so that an attempt may fail and be repeated.
* `FileCommands`: two sessions, two users, two names, two i-nodes.  Two i-nodes for
  two names make an i-node free as soon as a name goes, so reuse is the rule; with
  two sessions logged in as the same or as different users every pair of commands
  overlaps.  A third session adds no new pair.
* `Server`: one server with three children and one address; the second server
  (`Server_busy`) with two children and one address.  Three children let two
  SIGCHLDs coalesce while a third child lives, and two deny while the third is forked.
  What DENYIP does for one address does not touch another; the proofs are for any number.
* `Session`: 4 free descriptors.  A passive transfer holds three, so that the first one
  succeeds, and loses one, so that a second or third does not (the real limit is
  some thousand times larger, and reached the same way); `MaxLost` bounds how many
  are lost before the client stops sending commands.
* `VFS`: ten directories of which one cannot be entered, four links (into another share,
  back again, to the root's own directory, and to a directory whose name begins like a
  shared one's), six files, six records; `vfs.cfg` of a root (one is "/" itself) and up
  to two lines in either order, out of which come nested shares, a node over a directory
  of the same name, nodes without a directory, closed ones, and every mistake that a
  line can make, relative directories of a line and of the root among them; paths of up to two parts, absolute or not, with "..", and ".", and one
  that leads from "/" to a directory whose name another one below "/" has as well; the
  files are "f" in all of them, and behind a link and a ".".
* `Transfer`: every file of up to four bytes over CR, LF and one other byte, blocks of
  at most two bytes.  The state between two blocks is one held CR, so a CR LF cut in
  two, blocks that become empty and a CR at the end all occur within four bytes.

Deadlock is checked in the runs of `DirectoryDatabase`, `FileCommands` and `Transfer`.
The server really ends, a closed session does nothing more, and a server that finds
no root directory has no tree to serve, so it is not checked in the runs of `Server`,
`Session` and `VFS`.

`SYMMETRY` is over children, i-nodes and addresses, only in runs that check no
liveness.

### Fairness

* `DirectoryDatabase!Fairness`: weak fairness of the steps of a call.  A live
  process in a call is scheduled, and no step of it waits: `open(O_EXCL)`, gdbm and
  `unlink` return at once, and the loop sleeps for a fixed time.  Calls, forks and
  ends are not fair.
* `Server!Fairness`: `main()`, pending handlers and a child between two client
  commands go on.  `accept()` is not fair, and a child that waits for its client
  may wait for ever.  `BusySpec` adds that clients come and leave; `Server_busy`
  assumes it and `Server_idle` shows that it is needed.
* `Session!FairSpec`: weak fairness of the running transfer, i.e. the data
  connection does not stall, and of `AborRead`.  The handler of SIGURG blocks in
  `read()` twice (`signaly.cpp:121`, `132`; a third time for a short command, 163): a
  client of a SYNCH sends IAC IP before the urgent byte and its command after it, and
  that is what the fairness says.  Nothing in the code guards against a client that
  does not, or that neither reads nor closes, and no property says that it does.
* `FileCommands`, `VFS` and `Transfer` check safety only and state no fairness.

## 4. What is proved

All theorems are of the specification, for any values of the constants that meet the
assumptions named here and the `ASSUME`s of the modules.

**`DirectoryDatabaseProofs`**, for any processes, i-nodes and records, any
`LockingTimeout`, any failing calls and any crashes:

* `TypeCorrect`; in particular `LockDatabase` never counts past `LOCKING_TIMEOUT`.
* `LockInvariant`, `MutualExclusion`, `LockIsKept`: `CarefulAdmin` implies `[]LockInv`,
  `[]ExclusiveAccess` and `LockKept`.
* `StaleLockExplained`: `[]StaleLockMeansUncleanEnd` if moreover `unlink` does not fail
  (`Removable`), whatever calls of gdbm do.
* `Refinement`: `Spec => ImplementsStore`, for a careless administrator too.

`ExclusiveAccess` is not inductive: that two processes are not both in the
critical section follows from the lock file, which the program counters alone do
not mention.  `LockInv` adds `OneHolder` (whoever has `locked` has the lock file,
and is alone), `HeldInside` (the critical section is only reached with `locked`)
and `ServerForksUnlocked`.  The last one is about the constructor: a child
inherits the parent's `locked`, so the parent must never be idle with the lock
held, which it is not because every constructor that could not unlock throws and
ends the process.  `CarefulAdmin` says that the lock file is only deleted by hand
when no live process relies on it; the exception's message
(`src/src/DirectoryDatabase.cpp:54`) does not ask for this.  For the stale lock,
`LockedInside` says that the lock does not outlast a call, but in a constructor that
throws.

`Refinement` maps a call to the abstract `todo` until the database is accessed
and to `reply` from then on; gdbm's own open mode is what keeps `Access` atomic.
It rests on `Underway` (a process in a call has a call, and its answer from the
access on), not on the lock, so it needs no assumption about the administrator.

**`FileCommandsProofs`**: `TypeCorrect`, for any sessions, names, i-nodes, commands
and faults, whether commands overlap or not.  The rest is about commands that overlap,
under `OwnNames`: every client makes changes under names of its own, and nobody renames
(a rename over an existing file leaves the replaced file's record, section 5).
`RecordsInvariant` and `NoRecordOutlivesItsFile` (`[]NoStaleRecord`) need that
`DeleteFileInfo` does not fail, and nothing else: processes may be killed anywhere.
`AgreeInvariant`, `ApartOwnersAgree` (`[]OwnersAgree`) and `ApartOwnersRemove`
(`OnlyOwnerRemoves`) need that `PutFileInfo` does not fail and that no process is killed.
The argument is `Apart`: what a command has read of its own name stays true, because a
step of another session changes only that one's names and handle.  A stale record or a
wrong owner could only come from a name of one's own that another changes, or from an
i-node that goes from one session to another with its record; `RecordsInv` says that the
record is gone when the name goes, so that `stat()` of the next owner finds a clean i-node.

**`FileOwnersProofs`**, under `Turns` (commands do not overlap, RNTO follows its RNFR,
`PutFileInfo` does not fail, no process is killed inside a command; connections,
transfers, reads and deletions of records may fail): `OwnersInvariant`, and from it
`OwnersAlwaysAgree`, `OwnersRemove`, `OwnersRename`, `RenamesKeepFiles`.
`OwnersInv` says where each command may be and what it has read (`Orderly`), that a
file named by RNFR is still its user's (`Pledged`), that a command that changes a
file has asked for its owner (`Entitled`), and that a finished file is recorded
unless the command that runs is about to remove it or to put its record back
(`Recorded`).  `OwnersAgree` alone is not inductive: it says nothing of the key that
a command read before, nor of the record that it is about to write.

`ReadersAreOwners`, in the same module, is `[]NoForeignRead` under `WholeUploads`
(`Turns`, no aborted transfers, no failing reads of records, no APPE and no REST; a
data connection may still fail).  `ReadInv` ties the bytes to the record: outside an
upload all bytes of a file are by the user it is sealed for.  An APPE, or a STOR after
REST, adds to another user's file, after which it has two authors; and an aborted
upload is the run `FileCommands_aborted`.  So none of these assumptions can go.

**`ServerProofs`**: `TypeCorrect`; `NoReloadForgotten` (`[]ReloadRemembered`, by
`LoopInv`: at the reset of the flag the tree is as new as the last SIGHUP that counts);
`FewLateClients` (`[]OneLateClient`), all without an assumption.  `WaitReturnsAtOnce`
(`[]ReapNeverBlocks`) if children are never stopped.  Its invariant `Reapable` is the
reason why a merged SIGCHLD is harmless: a pending SIGCHLD has a zombie, a `wait()`
under way has one, and both together have two, since a signal that comes while one is
pending is dropped and a fork does not happen in between.  `PidFileStays` and
`DeniedAddressesStayOut` for one server that gets neither FINISH nor SIGTERM
(`LoneServer`), whichever files and system calls fail: `Informed` says that what was
arranged, a line that is in the file and a SIGHUP that was sent, has reached the
server's list, or a SIGHUP is pending, which reaches it before `main()` gets to
`fork()` again, or the server's last look at the list failed.  DENYIP's answer
alone promises nothing (section 5).

**`SessionProofs`**: `TypeCorrect`, `AcceptsOnListening`, `ConnectsOnlyAsTold` and
`EndsAreAnswered`, for any number of descriptors, any commands and faults.
`PassiveMeansListening` needs that `passive` implies `told = "PASV"`; that a transfer
that runs owes an answer (`Owing`) is what the last one needs.  It covers every end of
a transfer, with descriptors and without; the one exception is written into the
property as what tells the line apart: an active connection for which there is no socket.

**`SequenceProofs`**: lemmas that the next two modules rest on.  Induction over the
natural numbers is used for a set instead of a predicate: `SetInduction` says that a set
that has 0, and n + 1 with n, has every number; `RangeInduction` is the same for `0..n`,
`SequenceInduction` for sequences and their tails.  `RecursionExists` says that a function
defined by recursion over `0..n` exists, which is needed before `CHOOSE`, or a `LET` that
is recursive, may be used; `FlattenIs` is what `FlattenSeq` computes.

**`TransferProofs`**, for any bytes, any files, any `BufSize` and blocks of any length:
`TypeCorrect`, `StoredPrefix`, `CopyPrefix` and `WholeAt226` (`Whole226`), with any of the
unnoticed failures.  The first three follow from `TransferCorrect` (`[]TransferInv`).  They
speak of a file without a "hole" (a held CR that was not written; gone when STOR begins
anew) and of a copy without one (a `write()` that ended early, or a download of such a
file; gone when RETR begins anew), and hold for these while other files have holes: what
`fclose()` loses is a tail, after which the file is still a beginning.  `StoredIsPrefix` is not inductive: it
says nothing of the bytes that are under way.  `RestArrives` says that the CR held back
and what is left on the connection are together the conversion of just what the file is
missing, so that a CR LF that the network cuts anywhere, an empty block and a transfer that
is resumed in another type change nothing; `RestSent` says the same of a download.  The
lemmas under it are about the conversions: `CRLF2LF` after `LF2CRLF` on any two blocks with
a CR between them.

**`VFSProofs`**, for any disk, links, records, rights, files vfs.cfg, names and commands:

* `TreeConfigured` (`[]TreeAsConfigured`), relative directories included: an induction
  over the lines of the file, with the tree that `AddDirectory` has made of the first k
  lines.  It says whose directory each node has, and whose rights where no earlier line
  passed through; where one did, the rights are not those of the line
  (section 5), and the theorem says nothing.
* `PlaceInvariant` (`[]PlaceInv`), `TypeCorrect`, `NodeOwns` and `PlaceIsConsistent`
  (`[]PlaceConsistent`).  `PlaceInv` adds `TreeOK` to the types: the tree is closed
  upwards, and brothers differ in age, so that the order in which the tree is traversed is
  total and `DirSecurityCheck` finds a first owner; and `PlaceOK`: the directory of the
  place begins like the node's.  It holds after each part of a path, by induction over the
  parts, and after the detours and returns of every command.
* `ListAgrees` (`[]ListAgreesWithGet`), from `PlaceInv`.
* `RoundTrips` (`[]RoundTrip`) and `UserStaysPut` (`StaysPut`), under `PlainNames`: no
  virtual directory of vfs.cfg is called "." or "..".  `ShownLeads` follows the path that
  PWD shows from any place, first down the tree (`DownTheTree`), then down the disk
  (`DownTheDisk`); `AbsoluteLeads` says that an absolute path is followed, or refused, alike
  from everywhere, which is why LIST comes back.
* `RetrSends` (`[]RetrSendsChecked`) and, under `PlainNames`, `StorWrites`
  (`[]StorWritesChecked`).  The program follows a path twice: `ChangeDir` walks along it,
  and the record is looked up where the walk ends; `ConvertToPhysicalPath` makes a text of
  it, which the kernel follows when the file is opened.  `Leads` says how the two keep up,
  part by part (`LeadsMore`, by `LeadsToRoot`, `LeadsFromNode` and `LeadsFromDisk`, and
  `StraightLeads` by induction): while the parts name nodes, walk and text are at the same
  node, and the process is in its directory; from the first part that names none, the walk
  is in the directory to which the kernel resolves the text so far, although the walk
  may have gone to another node by a link.  `AlwaysBacked` is an invariant of its own: the
  directory of a node is none, one that can be entered under just the name that is written
  in the node, or one that is closed.  Without it the text of a node could lead elsewhere
  than `chdir()` did.  It holds for sessions, whose tree has no relative directory
  (`OfSession`): `Fork` has `AbsoluteOnly` as a guard, since what such a directory means
  changes with every `chdir()` of the program.  `DiskAssumption` says that no directory is also the name of a link,
  so that a directory is found by its own name (`ResolveSelf`), and `VFSAssumption` that
  files lie where they can be reached and have names other than "." and "..".

`Straight` is what these two theorems need of a way: no "." where the user's place is
not found again, and no start from such a place; no link or ".." from the disk back to a
node that is followed by a virtual directory, which the text takes for one of the disk,
or by another ".."; and at the end no ".." from a node, which leaves the process in the
child's directory. A step of the proof fails without each of these, and the run
`VFS_navigation` finds a violation without any of them but the second "..", which takes
more directories than it has. The attempt to prove `StorWrites` found that one exclusion
was missing: `GetFileInfo`, called for the last name, goes through "." (`VFS.cpp:1363`,
`1089`), so that under a shared "/" STOR to /pub/d/f asks for the rights of /d. TLC
confirms it (the directories "d" and "pub/d" of `MCVFS`, whose root may be "/"), and
`StorWritesChecked` now says `FoundAgain(above.at)`.

Only model-checked: liveness (`CallEnds`, `LockReleased`, `FinishEnds`,
`AborEndsTransfer`), since ENABLED is out of the prover's reach.

## 5. What the program does that it should not

Three disagreements with the documents are runs of their own (the violations of
section 3) and findings in `PROJECT.json`: an aborted upload, FINISH without a client,
and a late ABOR.  The passing runs exclude the following, which were met while modelling;
each is a precondition of the run or property named.

Files and owners:

* *Aborted, failed or killed uploads* leave a file that everyone may read and nobody
  may delete (`ftpcommands.cpp:1141`); `FileCommands_turns` has no faults in transfers.
* *A `GetFileInfo` that fails* counts as "no record", which permits reading
  (`VFS.cpp:1136`).  Removal is denied all the same: `OwnersRemove`.
* *A `PutFileInfo` that fails* is not noticed: 226 is replied and nobody owns the file.
* *RNTO onto the name itself* renames nothing, deletes the record and unlinks the
  file (`ftpcommands.cpp:1852`): `RenameKeepsFile` excludes it.
* *RNTO onto an existing file* frees that file's i-node and leaves its record:
  `FileCommands_apart`, which checks `NoStaleRecord`, has no RNTO.
* *A second RNFR that is refused, or REIN, between RNFR and RNTO*: `rename_from`
  and `rename_from_info` then belong to different files, or to another user
  (`ftpcommands.cpp:1722`, `1265`): `StrictClients`.
* *Two sessions that remove or rename the same name* at once store a record under a
  key read too early (`DirectoryDatabase.cpp:109`): `MayName <- Disjoint`.
* *STOR and APPE on others' files* are allowed to whoever may write to the directory
  (`ftpcommands.cpp:1060`).
* *A constructor that throws because of `gdbm_open`* keeps the lock file
  (`DirectoryDatabase.cpp:64`), and the next start blames an unclean end:
  `StaleLockMeansUncleanEnd` counts it as one.
* *MKD has a path without a return value*; the model takes both outcomes, that the
  session goes on and that it ends.

Server and session:

* *A stopped child* raises SIGCHLD, and `wait()` then blocks the server until some
  child ends: no "stop" in the `Events` of `Server_signals`.
* *The pid file of a running server* is removed by a child that gets SIGTERM before
  `parent = false` (`smallFTPd.cpp:580`, `signaly.cpp:222-230`), and by a second server
  that cannot bind (`smallFTPd.cpp:705`), although `README.md:22-24` says that while the
  server runs "se objevi soubor: smallFTPd.PID" with its PID.  `Server_signals` has one
  server and no "TERM"; `Server_busy` has both, and another property.
* *DENYIP* answers 200 whether or not its line was written (`ftpcommands.cpp:2289`), the
  pid file exists (`smallFTPd.cpp:508`; FINISH removes it too) and the server could read
  the list (`pomocne.cpp:171`); if one of these failed the address is served, although
  `user_manual.rtf:97` says of a client who is banned while connected "znovu se uz ale
  nepripoji" (he will not connect again).  All of this happens in `Server_signals`;
  `DenyEnforced` is about a DENYIP for which it went well.
* *A SIGHUP between the reload and the reset of its flag* (`smallFTPd.cpp:563-564`) is
  forgotten: `ReloadRemembered` does not count it.
* *Coalesced SIGCHLDs* leave zombies that are never reaped.
* *Every passive transfer loses a descriptor* (`network.cpp:270`).
* *An active transfer without a socket* is not answered (`network.cpp:234`):
  `EndIsAnswered` leaves it out.
* *The handler of SIGURG* waits in `read()` for a client that sends urgent data alone,
  and takes a command that was meant for `main()` (`AborLate`, `Swallowed`).

Virtual filesystem:

* *A LIST whose data connection fails* leaves the session in the listed directory
  (`ftpcommands.cpp:646`; it comes back at 687 only): `StaysPut` leaves out its answer.
* *`AllowedToWriteToDir`* does not look at whether `ChangeDir` failed (`VFS.cpp:1335`),
  and in a directory of the disk takes a virtual directory of the node for one below it
  (1302): `StorWritesChecked` excludes both.
* *In a node without a directory* the path of a file becomes "/name", in the root of the
  disk: `RetrSendsChecked` and `StorWritesChecked` exclude it.  A double slash in a
  path makes it empty.
* *`..` above a node* does not change the working directory (620-623), from which
  `GetFileInfo("../f")` then looks up a record in the child: `Straight` excludes a
  directory that ends with such a step.
* *From a directory of the disk back to a node*, by `..` or a link, and on to a virtual
  directory: the walk goes there, the text of the path stays on the disk (1024-1057), where
  there may be a directory of that name.  `Straight` excludes it.
* *STOR under a shared "/"* looks at the rights of a directory of the same name in the root
  (`VFS.cpp:1363`, as `CWD .` does not find the place again): `StorWritesChecked` asks for
  `FoundAgain` of the place above.
* *A node is found by the beginning of its written path* ("/pub" also owns "/public",
  against `VFS.h:42-54`), the outer one of two nested shares is found first, and links
  reach nodes whose right to read is not asked for.  In a directory whose name only
  begins like the node's, and below a shared "/", `CWD .` does not find the directory
  again (631-636 cut off the node's name and one letter): the process then is in the node's
  directory, and records are looked up there.  `DirIsCwd`, `ListAgreesWithGet`,
  `RetrSendsChecked` and `StorWritesChecked` leave these places out (`FoundAgain`).
* *A link into a directory that a virtual one hides*, or to the node's own directory,
  leads to a place whose path, as PWD shows it, is that of another place: `RoundTrip` and
  `StaysPut` speak of the other places (`OnPath`), and only if CWD can follow the path.
* *A node that an earlier line passed through* keeps that line's owner and rights: a later
  line for it sets its directory only (`VFS.cpp:353-362`), although
  `user_manual.rtf:63-79` gives every line's owner and rights to its own directory.
  `TreeAsConfigured` asks for neither.
* *A relative directory* is accepted: `CheckDir` returns -3 (`VFS_pomocne.cpp:120`), which
  only a build with DEBUG refuses (`VFS.cpp:208`, `299`), although `user_manual.rtf:84`
  says "je nutne zadavat absolutni cestu".  `TreeAsConfigured` has such files; no session
  with one is followed.
* The root's rights are never set (`Root` takes any).  A mistake, or a missing directory, in a
  reloaded file leaves a part of the tree, or none and a dangling `current_node`
  (`VFS.cpp:488`).  Physical directory "/" becomes "".  With `root_dir` "/" PWD answers
  with a relative path.

Transfers:

* *A CR that ends an ASCII upload* is held back and never written: `Whole226` says so.
* *A `write()` to the client that ends early* leaves out the rest of its block
  (`network.cpp:407-423`), and 226 follows, although the comment at 418 says that this
  cannot happen in blocking mode: `CopyIsPrefix` and `Whole226` leave out such a copy.
* *The results of `fclose()`* (`ftpcommands.cpp:1208`) and of `fwrite()` for a held-back CR
  (1175) are not looked at: `Whole226` leaves out the files that lost something by them,
  and `StoredIsPrefix` those that lost a CR.  A client that is gone looks like one that
  has sent everything.
* *ABOR* is answered with 226 after 426, for a transfer that is not whole (952, 1148), as
  RFC 959 has it: `Whole226` is about 226 alone.
* *REST* survives refused transfers, APPE, LIST, REIN and USER
  (`ftpcommands.cpp:2507`): the client of `Transfer` sends it right before its transfer.
* *STRU R* changes the data: `EraseEOR` (`pomocne.cpp:291-304`) loses the last byte of
  a block unless it belongs to a pair, and keeps a pair that is cut in two.

## 6. Abstractions

* **DirectoryDatabase**: names longer than the record's field, `gdbm_reorganize`,
  `LoadSubDir` (never called) and `PrintContent` are left out.  gdbm admits many
  readers or one writer; otherwise opening fails.
* **FileCommands**: one virtual directory; who may write to it is the constant
  `Writers`; REST before STOR is a choice; the rights stored with a record are
  always "all for the owner, nothing for the others", so a record is its owner.
  Descriptors, connections and ABOR are steps that may fail; `fopen()`, `rename()`,
  `unlink()` and `rmdir()` may fail for any reason (`OpenToRead`, `OpenToWrite`, `Rename`,
  `Remove`, `UnlinkFrom`).
* **Server**: no command line, no accounts; a server that cannot read its accounts or
  vfs.cfg is one that was never started.  An empty pid file is no pid file; one address
  is one line of deny_list.cfg, written whole or not at all.  A signal handler is one step, except `ReapChild`,
  whose `wait()` may block.
* **Session**: no TLS.  A command without a data connection is one step.  The two or three
  `read()`s of the handler of SIGURG are one wait, which ends when the last is served.
  STAT by SYNCH, which the handler answers 500 without any other effect, is left out
  here (its effect on `write()` is in `Transfer`).  APPE
  stands for STOU.  The directory descriptor of LIST is ignored.  `close()` of a
  stale descriptor number is taken to fail.  The option `assume_abor` has the same
  effect on `ftp_abort` as ABOR.
* **VFS**: the disk and the database do not change during a session; a path is the
  sequence of its parts, and of the spelling of names only what begins like another
  is kept (`Begins`); what `CWD .` leaves of a path that only begins like the node's is
  taken to name no directory.  A line of vfs.cfg that does not parse is one model value.
  DELE, SIZE, MKD and the other commands use the same operators as RETR and STOR.
* **Transfer**: a file is a sequence of three kinds of bytes.  One client that owns its
  files; names, rights and the data connection's setup are in the other modules.  A
  process that is killed loses what `fwrite()` has buffered, which may be anything
  since the transfer began.

## 7. Not modelled

* **Parsing of commands, replies** (`CutIntoParts`, `ParseCommand`, `ClientRequest`,
  `FTPReply`): strings taken apart by delimiters, one `read()` for one command, no state
  between commands.  The models start from a command and its parameters.
* **TLS**: handshakes of the OpenSSL library, one `if` around each read and write.
* **Information commands** (LIST's lines, SIZE, MDTM, STAT, HELP, SYST, SITE, SETTINGS):
  formatting; they change nothing but a file's mode (SITE CHMOD).
* **Accounts and passwords**, and the syntax of vfs.cfg, of the accounts and of the deny
  list: text.
* **Record structure and block mode** (STRU R, MODE B), see section 5.
* **Memory safety of the handlers**: `HUPHandler` allocates memory wherever `main()` is.
* **Sharing of descriptors by `fork()`** beyond the listening socket.

What could be added: changes of the disk under a `VFS` session (directories that other
sessions make and remove), with the same operators over a variable instead of the
constants.

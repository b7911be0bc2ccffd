-------------------------------- MODULE Server --------------------------------
(***************************************************************************)
(* src/src/smallFTPd.cpp and signaly.cpp: the life of a server process and *)
(* of the children it forks, one per connection; the signals between them  *)
(* (SIGCHLD, SIGHUP of DENYIP, SIGTERM of FINISH); the files they share:   *)
(* the pid file, the list of denied addresses and vfs.cfg.                 *)
(*                                                                         *)
(* All servers have one working directory and one port.  The handlers run  *)
(* on the thread of main(), between its steps.  A standard signal is       *)
(* pending or not: two of a kind become one.  All handlers are installed   *)
(* with SA_RESTART, so that accept() goes on waiting after any of them.    *)
(***************************************************************************)
EXTENDS Naturals

CONSTANTS Server,     \* processes of main(), each started at most once
          Child,      \* slots for their children
          Addr,       \* addresses of clients
          NoServer,
          Events,     \* what happens besides clients: see EventAssumption
          MaxEdits    \* bound: how often the administrator changes vfs.cfg

ASSUME ServerAssumption == NoServer \notin Server
ASSUME EditAssumption == MaxEdits \in Nat
ASSUME EventAssumption ==
  Events \subseteq {"DENYIP", "FINISH", \* an administrator gives the command
                    "HUP", "TERM",      \* he edits vfs.cfg and sends SIGHUP;
                                        \*   he sends SIGTERM to a child
                    "stop",             \* a child is stopped and continued
                    "syscall",          \* a system call fails for its own reasons
                    "file"}             \* the pid file or deny_list.cfg cannot be
                                        \*   opened or written

VARIABLES srv,       \* server -> its globals, pending signals, place in main()
          kid,       \* child -> its copy of the globals, its place in main()
          pidFile,   \* the server named in smallFTPd.PID, or NoServer: no file
          denyFile,  \* addresses in deny_list.cfg
          vfsFile,   \* version of vfs.cfg
          arranged   \* history: addresses that DENYIP wrote to deny_list.cfg, sent a
                     \*   SIGHUP for and answered "200 IP denied."

vars == <<srv, kid, pidFile, denyFile, vfsFile, arranged>>

\* reaping: main() is inside the handler ReapChild.  History fields: asked, the
\* version of vfs.cfg the last SIGHUP was about that did not come between the reload
\* and the reset of reload_config_file; late, clients since finish; named, its pid
\* was written; blind, deny_list.cfg could not be opened when it was last read.
NewServer ==
  [pc |-> "new", finish |-> FALSE, reload |-> FALSE, pending |-> {},
   reaping |-> FALSE, denied |-> {}, vfs |-> 0, asked |-> 0, late |-> 0,
   named |-> FALSE, blind |-> FALSE]

NoChild == [pc |-> "none"]
Zombie(v) == [pc |-> "zombie", server |-> v]

Init ==
  /\ srv = [v \in Server |-> NewServer]
  /\ kid = [k \in Child |-> NoChild]
  /\ pidFile = NoServer
  /\ denyFile = {}
  /\ vfsFile = 0
  /\ arranged = {}

-----------------------------------------------------------------------------
Up(v) == srv[v].pc \notin {"new", "ended"}

\* The main loop, where the pid file is written already.
Looping(v) == srv[v].pc \in {"check", "accept", "reload", "clear", "fork"}

ChildOf(k, v) == kid[k].pc # "none" /\ kid[k].server = v

Zombies(v) == {k \in Child : ChildOf(k, v) /\ kid[k].pc = "zombie"}

\* The children of a server, which inherit its listening socket, keep the port.
PortFree(v) ==
  /\ \A w \in Server \ {v} : srv[w].pc \notin {"pid"} /\ ~Looping(w)
  /\ \A k \in Child : kid[k].pc \in {"none", "zombie"}

\* Server record s after signal sig was sent to it.
Signalled(s, sig) ==
  IF s.pc \in {"new", "ended"} THEN s ELSE [s EXCEPT !.pending = @ \cup {sig}]

\* kill(pid from the pid file, sig) of FINISH and DENYIP.
KillServer(sig) ==
  srv' = [v \in Server |-> IF v = pidFile THEN Signalled(srv[v], sig) ELSE srv[v]]

\* A step of main() in server v from pc l: no handler is running.
At(v, l) == srv[v].pc = l /\ ~srv[v].reaping

Go(v, l) == srv' = [srv EXCEPT ![v].pc = l]

-----------------------------------------------------------------------------
(***************************************************************************)
(* main() of a server.                                                     *)
(***************************************************************************)
\* LoadIPDenyList, in Load and in HUPHandler: the old list stays when the file cannot be
\* opened.
Denied(v, blind) == IF blind THEN srv[v].denied ELSE denyFile

\* Accounts, denied addresses and vfs.cfg are read.  A server that cannot read accounts
\* or vfs.cfg ends at once, as if it had never been started; without the denied
\* addresses it goes on.
Load(v) ==
  /\ srv[v].pc = "new"
  /\ \E blind \in BOOLEAN :
       /\ blind => "file" \in Events
       /\ srv' = [srv EXCEPT ![v].pc = "bind", ![v].denied = Denied(v, blind),
                             ![v].blind = blind, ![v].vfs = vfsFile, ![v].asked = vfsFile]
  /\ UNCHANGED <<kid, pidFile, denyFile, vfsFile, arranged>>

Bind(v) ==
  /\ At(v, "bind")
  /\ Go(v, IF PortFree(v) THEN "pid" ELSE "konec")
  /\ UNCHANGED <<kid, pidFile, denyFile, vfsFile, arranged>>

WritePid(v) ==
  /\ At(v, "pid")
  /\ pidFile' = v
  /\ srv' = [srv EXCEPT ![v].pc = "check", ![v].named = TRUE]
  /\ UNCHANGED <<kid, denyFile, vfsFile, arranged>>

\* fopen() fails, or fwrite(), which leaves an empty file: the server says that
\* DENYIP will not reach it, and goes on.
PidFails(v) ==
  /\ "file" \in Events
  /\ At(v, "pid")
  /\ pidFile' \in {pidFile, NoServer}
  /\ Go(v, "check")
  /\ UNCHANGED <<kid, denyFile, vfsFile, arranged>>

\* Mutant of CheckFinish: only the handler of a signal looks at finish.
CheckFinishNever(v) ==
  /\ At(v, "check")
  /\ Go(v, "accept")
  /\ UNCHANGED <<kid, pidFile, denyFile, vfsFile, arranged>>

CheckFinish(v) ==
  /\ At(v, "check")
  /\ Go(v, IF srv[v].finish THEN "konec" ELSE "accept")
  /\ UNCHANGED <<kid, pidFile, denyFile, vfsFile, arranged>>

\* accept() returns a client; it is not left for a signal.  (Bound: clients come as
\* long as there is a slot for their child.)
Accept(v) ==
  /\ At(v, "accept")
  /\ \E k \in Child : kid[k].pc = "none"
  /\ Go(v, "reload")
  /\ UNCHANGED <<kid, pidFile, denyFile, vfsFile, arranged>>

Reload(v) ==
  /\ At(v, "reload")
  /\ IF srv[v].reload
     THEN srv' = [srv EXCEPT ![v].vfs = vfsFile, ![v].pc = "clear"]
     ELSE Go(v, "fork")
  /\ UNCHANGED <<kid, pidFile, denyFile, vfsFile, arranged>>

\* reload_config_file = false, after the configuration has been read.
ClearReload(v) ==
  /\ At(v, "clear")
  /\ srv' = [srv EXCEPT ![v].reload = FALSE, ![v].pc = "fork"]
  /\ UNCHANGED <<kid, pidFile, denyFile, vfsFile, arranged>>

\* The kernel does not fork a process with a pending signal: its handler first.
\* arg is the argument of DENYIP, unused so far.  History fields: kept, was it arranged
\* before the fork that the address is denied, and did the server read the list; saved,
\* DENYIP has written its line.
Fork(v, k, a) ==
  /\ At(v, "fork") /\ srv[v].pending = {}
  /\ kid[k].pc = "none"
  /\ kid' = [kid EXCEPT ![k] =
       [pc |-> "born", server |-> v, addr |-> a, arg |-> a, parent |-> TRUE, run |-> TRUE,
        denied |-> srv[v].denied,
        kept |-> a \in arranged /\ ~srv[v].blind, saved |-> FALSE]]
  /\ srv' = [srv EXCEPT ![v].pc = "check",
                        ![v].late = IF srv[v].finish /\ @ < 2 THEN @ + 1 ELSE @]
  /\ UNCHANGED <<pidFile, denyFile, vfsFile, arranged>>

\* socket(), bind(), listen() and daemon(), accept(), or fork() fails.
SystemFails(v) ==
  /\ "syscall" \in Events
  /\ At(v, "bind") \/ At(v, "accept") \/ (At(v, "fork") /\ srv[v].pending = {})
  /\ Go(v, "konec")
  /\ UNCHANGED <<kid, pidFile, denyFile, vfsFile, arranged>>

\* The label KONEC, where parent is true, and the end of the process: init adopts
\* its children and reaps its zombies.
Konec(v) ==
  /\ At(v, "konec")
  /\ pidFile' = NoServer
  /\ srv' = [srv EXCEPT ![v] = [NewServer EXCEPT !.pc = "ended", !.late = srv[v].late,
                                                 !.finish = srv[v].finish]]
  /\ kid' = [k \in Child |-> IF k \in Zombies(v) THEN NoChild ELSE kid[k]]
  /\ UNCHANGED <<denyFile, vfsFile, arranged>>

-----------------------------------------------------------------------------
(***************************************************************************)
(* The handlers of a server's signals.  Each keeps its own signal out, so  *)
(* that SIGHUP and SIGTERM may interrupt ReapChild.                        *)
(***************************************************************************)
Asked(v) == IF srv[v].pc = "clear" THEN srv[v].asked ELSE vfsFile

\* Mutants of HUPHandler: the list of denied addresses is left to the main loop; a
\* SIGHUP in the main loop only reloads that list.
HUPHandlerLazy(v) ==
  /\ "HUP" \in srv[v].pending
  /\ srv' = [srv EXCEPT ![v].pending = @ \ {"HUP"}, ![v].reload = TRUE,
                        ![v].asked = Asked(v)]
  /\ UNCHANGED <<kid, pidFile, denyFile, vfsFile, arranged>>

HUPHandlerAtAccept(v) ==
  /\ "HUP" \in srv[v].pending
  /\ srv' = [srv EXCEPT ![v].pending = @ \ {"HUP"}, ![v].denied = denyFile,
                        ![v].reload = @ \/ srv[v].pc = "accept", ![v].asked = Asked(v)]
  /\ UNCHANGED <<kid, pidFile, denyFile, vfsFile, arranged>>

HUPHandler(v) ==
  /\ "HUP" \in srv[v].pending
  /\ \E blind \in BOOLEAN :
       /\ blind => "file" \in Events
       /\ srv' = [srv EXCEPT ![v].pending = @ \ {"HUP"}, ![v].reload = TRUE,
                             ![v].asked = Asked(v), ![v].blind = blind,
                             ![v].denied = Denied(v, blind)]
  /\ UNCHANGED <<kid, pidFile, denyFile, vfsFile, arranged>>

TermHandler(v) ==
  /\ "TERM" \in srv[v].pending
  /\ pidFile' = NoServer
  /\ srv' = [srv EXCEPT ![v].pending = @ \ {"TERM"}, ![v].finish = TRUE]
  /\ UNCHANGED <<kid, denyFile, vfsFile, arranged>>

\* ReapChild begins, and calls wait().
ReapChild(v) ==
  /\ "CHLD" \in srv[v].pending /\ ~srv[v].reaping
  /\ srv' = [srv EXCEPT ![v].pending = @ \ {"CHLD"}, ![v].reaping = TRUE]
  /\ UNCHANGED <<kid, pidFile, denyFile, vfsFile, arranged>>

\* Mutant of WaitReturns: ReapChild calls wait() as long as there are zombies.
WaitForAll(v) ==
  /\ srv[v].reaping
  /\ Zombies(v) # {} \/ \A k \in Child : ~ChildOf(k, v)
  /\ kid' = [k \in Child |-> IF k \in Zombies(v) THEN NoChild ELSE kid[k]]
  /\ srv' = [srv EXCEPT ![v].reaping = FALSE]
  /\ UNCHANGED <<pidFile, denyFile, vfsFile, arranged>>

\* wait() reaps one zombie; without children it fails at once; otherwise it waits.
WaitReturns(v) ==
  /\ srv[v].reaping
  /\ \/ \E k \in Zombies(v) : kid' = [kid EXCEPT ![k] = NoChild]
     \/ (\A k \in Child : ~ChildOf(k, v)) /\ UNCHANGED kid
  /\ srv' = [srv EXCEPT ![v].reaping = FALSE]
  /\ UNCHANGED <<pidFile, denyFile, vfsFile, arranged>>

-----------------------------------------------------------------------------
(***************************************************************************)
(* main() of a child.                                                      *)
(***************************************************************************)
\* Mutant of BecomeChild: parent is left as it is.
BecomeChildSilently(k) ==
  /\ kid[k].pc = "born"
  /\ kid' = [kid EXCEPT ![k].pc = "check"]
  /\ UNCHANGED <<srv, pidFile, denyFile, vfsFile, arranged>>

BecomeChild(k) ==
  /\ kid[k].pc = "born"
  /\ kid' = [kid EXCEPT ![k].parent = FALSE, ![k].pc = "check"]
  /\ UNCHANGED <<srv, pidFile, denyFile, vfsFile, arranged>>

CheckIP(k) ==
  /\ kid[k].pc = "check"
  /\ kid' = [kid EXCEPT ![k].pc = IF kid[k].addr \in kid[k].denied THEN "exit" ELSE "serve"]
  /\ UNCHANGED <<srv, pidFile, denyFile, vfsFile, arranged>>

\* while (run): the loop goes on, or ends after the command.
NextRequest(k) == IF kid[k].run THEN "serve" ELSE "exit"

\* Mutant of Fdenyip: the address is not written to deny_list.cfg.
FdenyipUnsaved(k, a) ==
  /\ "DENYIP" \in Events
  /\ kid[k].pc = "serve"
  /\ kid' = [kid EXCEPT ![k].denied = @ \cup {a}, ![k].arg = a, ![k].saved = TRUE,
                        ![k].pc = "hup"]
  /\ UNCHANGED <<srv, pidFile, denyFile, vfsFile, arranged>>

\* DENYIP appends the address to deny_list.cfg and to its own list.  It does not look
\* at the results of fprintf() and fclose().  (When fopen() fails it answers 530 and
\* has changed nothing.)
Fdenyip(k, a) ==
  /\ "DENYIP" \in Events
  /\ kid[k].pc = "serve"
  /\ \E lost \in BOOLEAN :
       /\ lost => "file" \in Events
       /\ denyFile' = IF lost THEN denyFile ELSE denyFile \cup {a}
       /\ kid' = [kid EXCEPT ![k].denied = @ \cup {a}, ![k].arg = a, ![k].saved = ~lost,
                             ![k].pc = "hup"]
  /\ UNCHANGED <<srv, pidFile, vfsFile, arranged>>

\* It sends SIGHUP to the process in the pid file, if there is one, and replies.
DenyipSignal(k) ==
  /\ kid[k].pc = "hup"
  /\ KillServer("HUP")
  /\ arranged' = IF kid[k].saved /\ pidFile # NoServer THEN arranged \cup {kid[k].arg}
                 ELSE arranged
  /\ kid' = [kid EXCEPT ![k].pc = NextRequest(k), ![k].saved = FALSE]
  /\ UNCHANGED <<pidFile, denyFile, vfsFile>>

Ffinish(k) ==
  /\ "FINISH" \in Events
  /\ kid[k].pc = "serve"
  /\ KillServer("TERM")
  /\ kid' = [kid EXCEPT ![k].pc = NextRequest(k)]
  /\ UNCHANGED <<pidFile, denyFile, vfsFile, arranged>>

\* QUIT, a lost connection, an error, or any other command when run is false.
Leave(k) ==
  /\ kid[k].pc = "serve"
  /\ kid' = [kid EXCEPT ![k].pc = "exit"]
  /\ UNCHANGED <<srv, pidFile, denyFile, vfsFile, arranged>>

\* The label KONEC and the end of the process.
Exit(k) ==
  LET v == kid[k].server IN
  /\ kid[k].pc = "exit"
  /\ pidFile' = IF kid[k].parent THEN NoServer ELSE pidFile
  /\ kid' = [kid EXCEPT ![k] = IF Up(v) THEN Zombie(v) ELSE NoChild]
  /\ srv' = [srv EXCEPT ![v] = Signalled(@, "CHLD")]
  /\ UNCHANGED <<denyFile, vfsFile, arranged>>

-----------------------------------------------------------------------------
(***************************************************************************)
(* The administrator, at the shell.                                        *)
(***************************************************************************)
Reconfigure(v) ==
  /\ "HUP" \in Events /\ vfsFile < MaxEdits
  /\ Looping(v)
  /\ vfsFile' = vfsFile + 1
  /\ srv' = [srv EXCEPT ![v] = Signalled(@, "HUP")]
  /\ UNCHANGED <<kid, pidFile, denyFile, arranged>>

\* SIGTERM for a child: TermHandler takes it for the server while parent is true.
TermChild(k) ==
  /\ "TERM" \in Events
  /\ kid[k].pc \notin {"none", "zombie"}
  /\ IF kid[k].parent
     THEN pidFile' = NoServer /\ UNCHANGED kid
     ELSE kid' = [kid EXCEPT ![k].run = FALSE] /\ UNCHANGED pidFile
  /\ UNCHANGED <<srv, denyFile, vfsFile, arranged>>

\* The handler of SIGCHLD is installed without SA_NOCLDSTOP.
StopChild(k) ==
  /\ "stop" \in Events
  /\ kid[k].pc \notin {"none", "zombie"}
  /\ srv' = [srv EXCEPT ![kid[k].server] = Signalled(@, "CHLD")]
  /\ UNCHANGED <<kid, pidFile, denyFile, vfsFile, arranged>>

Main(v) ==
  \/ Bind(v) \/ WritePid(v) \/ PidFails(v) \/ CheckFinish(v) \/ Reload(v) \/ ClearReload(v)
  \/ (\E k \in Child, a \in Addr : Fork(v, k, a)) \/ SystemFails(v) \/ Konec(v)

Handler(v) ==
  HUPHandler(v) \/ TermHandler(v) \/ ReapChild(v) \/ WaitReturns(v)

ChildMain(k) == BecomeChild(k) \/ CheckIP(k) \/ DenyipSignal(k) \/ Exit(k)

Next ==
  \/ \E v \in Server : Load(v) \/ Main(v) \/ Accept(v) \/ Handler(v) \/ Reconfigure(v)
  \/ \E k \in Child :
       \/ ChildMain(k)
       \/ (\E a \in Addr : Fdenyip(k, a)) \/ Ffinish(k) \/ Leave(k)
       \/ TermChild(k) \/ StopChild(k)

Spec == Init /\ [][Next]_vars

\* A process that can run does, and signals are delivered.  No client has to come
\* or to leave, and no administrator to act.
Fairness ==
  /\ \A v \in Server : WF_vars(Main(v)) /\ WF_vars(Handler(v))
  /\ \A k \in Child : WF_vars(ChildMain(k))

FairSpec == Spec /\ Fairness

\* Clients keep coming and going.
BusySpec ==
  /\ FairSpec
  /\ \A v \in Server : WF_vars(Accept(v))
  /\ \A k \in Child : WF_vars(Leave(k))

-----------------------------------------------------------------------------
ServerState ==
  [pc : {"new", "bind", "pid", "check", "accept", "reload", "clear", "fork", "konec",
         "ended"},
   finish : BOOLEAN, reload : BOOLEAN, pending : SUBSET {"CHLD", "HUP", "TERM"},
   reaping : BOOLEAN, denied : SUBSET Addr, vfs : 0..MaxEdits, asked : 0..MaxEdits,
   late : 0..2, named : BOOLEAN, blind : BOOLEAN]

ChildState ==
  {NoChild} \cup {Zombie(v) : v \in Server}
  \cup [pc : {"born", "check", "serve", "hup", "exit"}, server : Server, addr : Addr,
        arg : Addr, parent : BOOLEAN, run : BOOLEAN, denied : SUBSET Addr,
        kept : BOOLEAN, saved : BOOLEAN]

\* Every variable has its type, a version in memory was once in vfs.cfg, and a line
\* that DENYIP has written without an error stays in deny_list.cfg.
TypeOK ==
  /\ srv \in [Server -> ServerState]
  /\ kid \in [Child -> ChildState]
  /\ pidFile \in Server \cup {NoServer}
  /\ denyFile \subseteq Addr
  /\ vfsFile \in 0..MaxEdits
  /\ arranged \subseteq denyFile
  /\ \A v \in Server : srv[v].vfs <= vfsFile /\ srv[v].asked <= vfsFile

\* wait() in the handler of SIGCHLD returns at once (signaly.cpp:70): there is a
\* zombie for it, so that the handler never holds up the server.
ReapNeverBlocks ==
  \A v \in Server :
    srv[v].reaping => Zombies(v) # {} \/ \A k \in Child : ~ChildOf(k, v)

\* smallFTPd.PID contains the PID of the parent server while it runs (README.md:22-24),
\* for FINISH and DENYIP to find it: once written it stays, until the server is told to
\* finish.
PidFileKept ==
  \A v \in Server : Looping(v) /\ ~srv[v].finish /\ srv[v].named => pidFile = v

\* After DENYIP has written its line, sent its SIGHUP and replied "200 IP denied." no
\* new client from that address is served (user_manual.rtf:97), though another process,
\* forked before, made the promise; unless the server's last look at the list failed.
DenyEnforced ==
  \A k \in Child : kid[k].pc \in {"serve", "hup"} => ~kid[k].kept

\* The server catches SIGHUP and loads the new configuration (user_manual.rtf:96):
\* when its tree is older than the vfs.cfg that a SIGHUP was about, it remembers to
\* load it for the next client.  (A SIGHUP handled just before the flag is reset,
\* smallFTPd.cpp:563-564, is forgotten.)
ReloadRemembered ==
  \A v \in Server : srv[v].vfs < srv[v].asked => srv[v].reload

\* A server that was told to finish takes one more client at most.
OneLateClient == \A v \in Server : srv[v].late <= 1

\* FINISH kills the parent server (its help text, smallFTPd.cpp:140).
FinishEnds == \A v \in Server : srv[v].finish ~> srv[v].pc = "ended"
================================================================================

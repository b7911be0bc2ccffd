-------------------------------- MODULE Session --------------------------------
(***************************************************************************)
(* One session: the globals of ftpcommands.cpp and smallFTPd.cpp that the  *)
(* commands of one child hand on to each other, its data connections       *)
(* (CreateDataConnection, network.cpp), its file descriptors, and ABOR,    *)
(* which arrives as urgent data and is read by the handler of SIGURG.      *)
(*                                                                         *)
(* The client sends a command when the one before was answered, except for *)
(* ABOR.  A command that makes no data connection is one step; a transfer  *)
(* is several, because SIGURG may come between any two of them.  Without   *)
(* TLS.  The rights of files and users are in FileCommands.                *)
(***************************************************************************)
EXTENDS Naturals

CONSTANTS Commands,  \* what the client sends, see CommandAssumption
          Faults,    \* what may go wrong, see FaultAssumption
          MaxFd,     \* descriptors left to the child for files and data sockets
          MaxLost    \* bound: no new command after so many were lost

ASSUME CommandAssumption ==
  Commands \subseteq {"PASV", "PORT", "REST", "RETR", "STOR", "APPE", "LIST", "USER", "ABOR"}
ASSUME FaultAssumption ==
  Faults \subseteq {"refused",  \* a file that does not exist or is not permitted
                    "offset",   \* REST with an offset that the file does not have
                    "syntax",   \* PORT or REST with something that is no number
                    "connect",  \* the client refuses the data connection
                    "lost",     \* ... or closes it too early
                    "local",    \* reading or writing the file fails
                    "system",   \* a call for a socket or an address fails, though
                                \*   there are descriptors
                    "control"}  \* the client goes away during a transfer
ASSUME BoundAssumption == MaxFd \in Nat /\ MaxLost \in Nat

VARIABLES logged_in, passive, restart, ftp_abort, run,
          pc,       \* idle: in ClientRequest; connect; move, test: in the loop of
                    \*   a transfer; closed
          command,  \* the transfer that runs, or "none"
          listening,\* is the socket named by server_data_socket open?
          data,     \* is the socket named by client_data_socket open?
          file,     \* has the transfer its file open?
          lost,     \* open descriptors that no variable names any more
          deaf,     \* main() is inside the handler of SIGURG, which waits for more on
                    \*   the control connection
          owed,     \* commands that the client has sent and got no answer to
          told,     \* history: what the client was told last, by 200 or 227
          late,     \* may the client still think that the last transfer runs?
          abors     \* history: has ABOR come during this transfer?

vars == <<logged_in, passive, restart, ftp_abort, run, pc, command, listening, data,
          file, lost, deaf, owed, told, late, abors>>

sockets == <<passive, listening, data, lost>>
control == <<logged_in, run, deaf, told>>

Init ==
  /\ logged_in = FALSE /\ passive = FALSE /\ restart = FALSE
  /\ ftp_abort = FALSE /\ run = TRUE
  /\ pc = "idle" /\ command = "none"
  /\ listening = FALSE /\ data = FALSE /\ file = FALSE /\ lost = 0
  /\ deaf = FALSE /\ owed = 0
  /\ told = "default" /\ late = FALSE /\ abors = FALSE

-----------------------------------------------------------------------------
One(b) == IF b THEN 1 ELSE 0

Descriptors == lost + One(listening) + One(data) + One(file)
DescriptorFree == Descriptors < MaxFd

\* May socket(), accept() or a call that asks for an address fail?
CallMayFail == ~DescriptorFree \/ "system" \in Faults

Uploads == {"STOR", "APPE"}  \* APPE stands for STOU as well
Transfers == Uploads \cup {"RETR", "LIST"}

\* A step of main() in a transfer, from place l.
At(l) == pc = l /\ ~deaf

\* The client, whose commands have all been answered, sends the next one.
Ready(c) ==
  /\ c \in Commands
  /\ pc = "idle" /\ run /\ ~deaf /\ owed = 0
  /\ lost <= MaxLost

\* A command was answered and left no trace but the change of the given variables.
Answered ==
  /\ late' = FALSE
  /\ UNCHANGED <<ftp_abort, run, pc, command, file, deaf, owed, abors>>

\* The session ends without an answer: a handler returned a negative number.
CloseSession ==
  /\ pc' = "closed" /\ owed' = 1 /\ late' = FALSE
  /\ UNCHANGED <<logged_in, ftp_abort, run, command, file, deaf, told, abors>>

-----------------------------------------------------------------------------
(***************************************************************************)
(* Commands without a data connection.                                     *)
(***************************************************************************)
\* USER and PASS; USER or REIN of a user who is logged in.  Nothing is forgotten of
\* passive, restart or the sockets.
Fuser ==
  /\ Ready("USER")
  /\ logged_in' = ~logged_in
  /\ Answered
  /\ UNCHANGED <<restart, sockets, told>>

\* Mutant of Fpasv: a socket() that fails goes unnoticed.
FpasvUnchecked ==
  /\ Ready("PASV") /\ logged_in
  /\ passive' = TRUE
  /\ listening' = TRUE
  /\ lost' = lost + One(listening)
  /\ told' = "PASV"
  /\ Answered
  /\ UNCHANGED <<logged_in, restart, data>>

\* A socket is made and listens; the one that server_data_socket named is lost.  When
\* a call fails, up to gethostbyname(), the session is closed.
Fpasv ==
  /\ Ready("PASV") /\ logged_in
  /\ passive' = TRUE
  /\ \/ /\ DescriptorFree
        /\ listening' = TRUE
        /\ lost' = lost + One(listening)
        /\ told' = "PASV"
        /\ Answered
        /\ UNCHANGED <<logged_in, restart, data>>
     \/ /\ CallMayFail
        /\ CloseSession
        /\ UNCHANGED <<restart, listening, data, lost>>

\* Mutant of Fport: passive is not reset.
FportStillPassive ==
  /\ Ready("PORT") /\ logged_in
  /\ told' = "PORT"
  /\ Answered
  /\ UNCHANGED <<logged_in, restart, sockets>>

Fport ==
  /\ Ready("PORT") /\ logged_in
  /\ passive' = FALSE
  /\ told' = "PORT"
  /\ Answered
  /\ UNCHANGED <<logged_in, restart, listening, data, lost>>

Frest ==
  /\ Ready("REST") /\ logged_in
  /\ restart' = TRUE
  /\ Answered
  /\ UNCHANGED <<logged_in, sockets, told>>

\* PORT or REST whose argument strtol() does not like: the session is closed.
BadNumber ==
  /\ "syntax" \in Faults /\ logged_in
  /\ \/ Ready("PORT") /\ UNCHANGED restart
     \/ Ready("REST") /\ restart' = FALSE
  /\ CloseSession
  /\ UNCHANGED sockets

\* QUIT, or the client closes the control connection.
Fquit ==
  /\ pc = "idle"
  /\ pc' = "closed" /\ run' = FALSE
  /\ UNCHANGED <<logged_in, restart, sockets, ftp_abort, command, file, deaf, owed,
                 told, late, abors>>

-----------------------------------------------------------------------------
(***************************************************************************)
(* A transfer command until it makes its connection.                       *)
(***************************************************************************)
\* Mutant of Refuse: RETR and LIST close the listening socket and stay passive.
RefuseStillPassive(c) ==
  /\ "refused" \in Faults
  /\ Ready(c) /\ logged_in /\ c \in Transfers
  /\ IF c \in Uploads THEN UNCHANGED <<listening, data>>
     ELSE listening' = (listening /\ ~passive) /\ data' = FALSE
  /\ Answered
  /\ UNCHANGED <<logged_in, restart, passive, lost, told>>

\* The file is not there or not permitted: RETR and LIST also close the sockets
\* of a connection that was never made, and forget a PASV.
Refuse(c) ==
  /\ "refused" \in Faults
  /\ Ready(c) /\ logged_in /\ c \in Transfers
  /\ IF c \in Uploads THEN UNCHANGED <<passive, listening, data>>
     ELSE listening' = (listening /\ ~passive) /\ data' = FALSE /\ passive' = FALSE
  /\ Answered
  /\ UNCHANGED <<logged_in, restart, lost, told>>

\* fopen() fails, or fseek() or truncate() after a REST; the file of a RETR stays
\* open when fseek() fails.
OpenFails(c) ==
  /\ Ready(c) /\ logged_in /\ c \in Transfers \ {"LIST"}
  /\ \/ ~DescriptorFree /\ UNCHANGED lost
     \/ /\ "offset" \in Faults /\ restart /\ c # "APPE"
        /\ lost' = lost + One(c = "RETR" /\ DescriptorFree)
  /\ Answered
  /\ UNCHANGED <<logged_in, restart, passive, listening, data, told>>

\* The file is opened, at the offset of a REST; APPE and STOU leave a REST alone.
Open(c) ==
  /\ Ready(c) /\ logged_in /\ c \in Transfers
  /\ IF c = "LIST" THEN UNCHANGED <<file, restart>>
     ELSE DescriptorFree /\ file' = TRUE /\ restart' = (restart /\ c = "APPE")
  /\ pc' = "connect" /\ command' = c
  /\ owed' = 1 /\ late' = FALSE /\ abors' = FALSE
  /\ UNCHANGED <<control, sockets, ftp_abort>>

-----------------------------------------------------------------------------
(***************************************************************************)
(* The end of a transfer command.                                          *)
(***************************************************************************)
\* The command has sent n final replies.
End(n) ==
  /\ pc' = "idle" /\ command' = "none" /\ late' = TRUE
  /\ owed' = IF owed < n THEN 0 ELSE owed - n

\* if (passive) close(server_data_socket); passive = false; close the data socket.
CloseSockets ==
  /\ listening' = (listening /\ ~passive)
  /\ passive' = FALSE
  /\ data' = FALSE

\* What client_data_socket named is lost when the variable is assigned.
Overwrite == lost' = lost + One(data)

-----------------------------------------------------------------------------
(***************************************************************************)
(* CreateDataConnection.                                                   *)
(***************************************************************************)
Connect ==
  /\ At("connect") /\ DescriptorFree
  /\ data' = TRUE /\ Overwrite
  /\ passive' = FALSE
  /\ pc' = IF command = "RETR" THEN "test" ELSE "move"
  /\ UNCHANGED <<control, restart, ftp_abort, command, listening, file, owed, late, abors>>

\* Mutant of AcceptFails: without the reply 425.
AcceptFailsSilently ==
  /\ At("connect") /\ passive /\ CallMayFail
  /\ data' = FALSE /\ Overwrite
  /\ passive' = FALSE /\ listening' = FALSE
  /\ file' = FALSE
  /\ End(0)
  /\ UNCHANGED <<control, restart, ftp_abort, abors>>

\* accept() on server_data_socket fails: 425.
AcceptFails ==
  /\ At("connect") /\ passive /\ CallMayFail
  /\ data' = FALSE /\ Overwrite
  /\ passive' = FALSE /\ listening' = FALSE
  /\ file' = FALSE
  /\ End(1)
  /\ UNCHANGED <<control, restart, ftp_abort, abors>>

\* socket() fails: the command ends and nothing is replied.
SocketFails ==
  /\ At("connect") /\ ~passive /\ CallMayFail
  /\ data' = FALSE /\ Overwrite
  /\ file' = FALSE
  /\ End(0)
  /\ UNCHANGED <<control, restart, ftp_abort, passive, listening, abors>>

\* Mutant of ConnectFails: without the reply 425.
ConnectFailsSilently ==
  /\ "connect" \in Faults
  /\ At("connect") /\ ~passive /\ DescriptorFree
  /\ data' = TRUE /\ Overwrite
  /\ file' = FALSE
  /\ End(0)
  /\ UNCHANGED <<control, restart, ftp_abort, passive, listening, abors>>

\* connect() fails: 425, and the socket stays open.
ConnectFails ==
  /\ "connect" \in Faults
  /\ At("connect") /\ ~passive /\ DescriptorFree
  /\ data' = TRUE /\ Overwrite
  /\ file' = FALSE
  /\ End(1)
  /\ UNCHANGED <<control, restart, ftp_abort, passive, listening, abors>>

-----------------------------------------------------------------------------
(***************************************************************************)
(* The loop of a transfer.  RETR tests ftp_abort and sends; an upload       *)
(* receives, tests ftp_abort and writes; LIST does not look at ftp_abort.  *)
(***************************************************************************)
Loop(l) ==
  /\ pc' = l
  /\ UNCHANGED <<control, restart, sockets, ftp_abort, command, file, owed, late, abors>>

\* 426 and 226: the answers to the transfer and to ABOR.
TransferAborted ==
  /\ At("test") /\ ftp_abort
  /\ CloseSockets /\ file' = FALSE
  /\ ftp_abort' = FALSE
  /\ End(2)
  /\ UNCHANGED <<control, restart, lost, abors>>

\* Mutant of Test: ftp_abort is not looked at.
TestIgnored ==
  /\ At("test")
  /\ Loop("move")

Test ==
  /\ At("test") /\ ~ftp_abort
  /\ Loop("move")

Move ==
  /\ At("move") /\ command # "LIST"
  /\ Loop("test")

\* 226 after the last block: RETR has sent it, an upload has read the end.
Transferred ==
  /\ \/ At("move") /\ command \notin Uploads
     \/ At("test") /\ command \in Uploads /\ ~ftp_abort
  /\ CloseSockets /\ file' = FALSE
  /\ End(1)
  /\ UNCHANGED <<control, restart, ftp_abort, lost, abors>>

\* Mutant of ConnectionLost: without the reply 426.
ConnectionLostSilently ==
  /\ "lost" \in Faults
  /\ At("move") /\ command \notin Uploads
  /\ CloseSockets /\ file' = FALSE
  /\ lost' = lost + One(file)
  /\ End(0)
  /\ UNCHANGED <<control, restart, ftp_abort, abors>>

\* 426: sending failed.  RETR forgets to close its file.
ConnectionLost ==
  /\ "lost" \in Faults
  /\ At("move") /\ command \notin Uploads
  /\ CloseSockets /\ file' = FALSE
  /\ lost' = lost + One(file)
  /\ End(1)
  /\ UNCHANGED <<control, restart, ftp_abort, abors>>

\* 451: reading the file of RETR, or the data connection of an upload, fails and the
\* data socket stays open; or writing the uploaded file fails.
LocalError ==
  /\ "local" \in Faults
  /\ \/ At("test") /\ command = "RETR" /\ UNCHANGED data
     \/ At("move") /\ command \in Uploads /\ UNCHANGED data
     \/ At("test") /\ command \in Uploads /\ ~ftp_abort /\ data' = FALSE
  /\ listening' = (listening /\ ~passive) /\ passive' = FALSE
  /\ file' = FALSE
  /\ End(1)
  /\ UNCHANGED <<control, restart, ftp_abort, lost, abors>>

\* The client is gone: a reply fails, the command ends, and the next request finds the
\* control connection closed.
ClientGone ==
  /\ "control" \in Faults
  /\ command # "none"
  /\ pc' = "closed" /\ command' = "none" /\ late' = FALSE
  /\ UNCHANGED <<control, restart, sockets, ftp_abort, file, owed, abors>>

-----------------------------------------------------------------------------
(***************************************************************************)
(* ABOR: the client sends it, with SYNCH, while it thinks that a transfer  *)
(* runs; SIGURG interrupts the process wherever it is.                     *)
(***************************************************************************)
\* The urgent data of a SYNCH arrives in a transfer, which stands still: the handler
\* waits for what was sent before it, and then for the command.
Abor ==
  /\ "ABOR" \in Commands
  /\ command # "none" /\ ~abors
  /\ abors' = TRUE /\ deaf' = TRUE
  /\ owed' = 2
  /\ UNCHANGED <<logged_in, run, restart, sockets, ftp_abort, pc, command, file, told, late>>

\* The handler reads the command, which is ABOR or QUIT.  A QUIT is answered at once.
AborRead ==
  /\ command # "none" /\ deaf
  /\ deaf' = FALSE
  /\ ftp_abort' = TRUE
  /\ \/ UNCHANGED <<run, owed>>
     \/ run' = FALSE /\ owed' = 1
  /\ UNCHANGED <<logged_in, restart, sockets, pc, command, file, told, late, abors>>

\* The transfer is over already and main() is in ClientRequest.  Either the handler
\* reads ABOR and nobody replies, or main() does, replies 500, and the handler waits
\* for a command in vain.
AborLate ==
  /\ "ABOR" \in Commands
  /\ pc = "idle" /\ run /\ late /\ owed = 0 /\ ~deaf
  /\ late' = FALSE
  /\ \/ ftp_abort' = TRUE /\ owed' = 1 /\ UNCHANGED deaf
     \/ deaf' = TRUE /\ UNCHANGED <<ftp_abort, owed>>
  /\ UNCHANGED <<logged_in, run, restart, sockets, pc, command, file, told, abors>>

\* The handler takes the next command away from main().
Swallowed ==
  /\ pc = "idle" /\ deaf
  /\ deaf' = FALSE /\ owed' = 1
  /\ UNCHANGED <<logged_in, run, restart, sockets, ftp_abort, pc, command, file, told,
                 late, abors>>

\* The client gives up waiting for an answer and sends its next command.
GiveUpWaiting ==
  /\ pc = "idle" /\ ~deaf /\ owed > 0
  /\ owed' = 0
  /\ UNCHANGED <<control, restart, sockets, ftp_abort, pc, command, file, late, abors>>

Transfer ==
  \/ Connect \/ AcceptFails \/ SocketFails \/ ConnectFails
  \/ TransferAborted \/ Test \/ Move \/ Transferred \/ ConnectionLost \/ LocalError

Next ==
  \/ Fuser \/ Fpasv \/ Fport \/ Frest \/ BadNumber \/ Fquit
  \/ \E c \in Transfers : Refuse(c) \/ OpenFails(c) \/ Open(c)
  \/ Transfer \/ ClientGone
  \/ Abor \/ AborRead \/ AborLate \/ Swallowed \/ GiveUpWaiting

Spec == Init /\ [][Next]_vars

\* The data connection does not stall: the client connects, sends, receives or
\* closes it.  The client of a SYNCH sends something before the urgent byte (IAC IP)
\* and its command after it, as the handler reads it.  Nothing else has to happen.
FairSpec == Spec /\ WF_vars(Transfer) /\ WF_vars(AborRead)

-----------------------------------------------------------------------------
\* Every variable has its type, a transfer runs exactly while it is named, and the
\* process never counts on more descriptors than it has.
TypeOK ==
  /\ logged_in \in BOOLEAN /\ passive \in BOOLEAN /\ restart \in BOOLEAN
  /\ ftp_abort \in BOOLEAN /\ run \in BOOLEAN
  /\ pc \in {"idle", "connect", "move", "test", "closed"}
  /\ command \in Transfers \cup {"none"}
  /\ command # "none" <=> pc \in {"connect", "move", "test"}
  /\ listening \in BOOLEAN /\ data \in BOOLEAN /\ file \in BOOLEAN
  /\ lost \in Nat /\ Descriptors \in 0..MaxFd
  /\ deaf \in BOOLEAN /\ owed \in 0..2
  /\ told \in {"default", "PASV", "PORT"} /\ late \in BOOLEAN /\ abors \in BOOLEAN

\* accept() is only called on a socket that listens: whatever transfers failed
\* or were refused before, passive is true only while server_data_socket is open.
PassiveMeansListening == pc # "closed" /\ passive => listening

\* After PORT the next transfer is active (ftpcommands.cpp:268), and a transfer is
\* only passive towards a client that was told a port by 227 and no 200 since.
ConnectsAsTold == pc = "connect" /\ passive => told = "PASV"

\* However a transfer ends, the client hears of it: CreateDataConnection and the
\* loops reply before they give up.  (Not when there is no socket for an active
\* connection, network.cpp:234; and a client that is gone hears nothing.)
EndIsAnswered ==
  [][command # "none" /\ command' = "none" /\ pc' = "idle"
       /\ ~(pc = "connect" /\ ~passive /\ ~data')
     => owed' < owed]_vars

\* ABOR aborts the running file transfer (smallFTPd.cpp:132), not a later one.
AbortOnlyRunning ==
  [][ftp_abort /\ ~ftp_abort' => abors]_vars

\* ABOR takes effect: a transfer that it reaches, also before its connection is made,
\* comes to an end.
AborEndsTransfer == abors /\ command \in Transfers \ {"LIST"} ~> command = "none"
================================================================================

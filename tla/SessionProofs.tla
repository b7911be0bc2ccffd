---------------------------- MODULE SessionProofs ----------------------------
(***************************************************************************)
(* Theorems about Session, for any commands, faults and number of          *)
(* descriptors: the globals that one command leaves to the next agree with *)
(* the sockets, and every transfer is answered.                            *)
(***************************************************************************)
EXTENDS Session, TLAPS

\* The next states by groups: commands that make no connection, the start of a
\* transfer, its steps, and what the client does meanwhile.
Simple == Fuser \/ Fpasv \/ Fport \/ Frest \/ BadNumber \/ Fquit
Starting == \E c \in Transfers : Refuse(c) \/ OpenFails(c) \/ Open(c)
Aborting == ClientGone \/ Abor \/ AborRead \/ AborLate \/ Swallowed \/ GiveUpWaiting

LEMMA NextGroups == Next <=> Simple \/ Starting \/ Transfer \/ Aborting
  BY DEF Next, Simple, Starting, Aborting

\* The parts of TypeOK: flags, places and counters, and the number of descriptors.
Flags ==
  /\ logged_in \in BOOLEAN /\ passive \in BOOLEAN /\ restart \in BOOLEAN
  /\ ftp_abort \in BOOLEAN /\ run \in BOOLEAN
  /\ listening \in BOOLEAN /\ data \in BOOLEAN /\ file \in BOOLEAN
  /\ deaf \in BOOLEAN /\ late \in BOOLEAN /\ abors \in BOOLEAN

Places ==
  /\ pc \in {"idle", "connect", "move", "test", "closed"}
  /\ command \in Transfers \cup {"none"}
  /\ command # "none" <=> pc \in {"connect", "move", "test"}
  /\ lost \in Nat /\ owed \in 0..2
  /\ told \in {"default", "PASV", "PORT"}

LEMMA TypeParts == TypeOK <=> Flags /\ Places /\ Descriptors \in 0..MaxFd
  BY DEF TypeOK, Flags, Places

LEMMA TypePartsNext == TypeOK' <=> Flags' /\ Places' /\ (Descriptors \in 0..MaxFd)'
  BY DEF TypeOK, Flags, Places

LEMMA OneType ==
  /\ \A b \in BOOLEAN : One(b) \in {0, 1}
  /\ One(TRUE) = 1 /\ One(FALSE) = 0
<1>1. \A b \in BOOLEAN : One(b) \in {0, 1}
  BY DEF One
<1>2. One(TRUE) = 1 /\ One(FALSE) = 0
  BY DEF One
<1> QED
  BY <1>1, <1>2

LEMMA TypeInit == Init => TypeOK
<1> SUFFICES ASSUME Init PROVE TypeOK
  OBVIOUS
<1>1. Flags
  BY DEF Init, Flags
<1>2. Places
  BY DEF Init, Places
<1>3. One(listening) = 0 /\ One(data) = 0 /\ One(file) = 0
  BY OneType, Zenon DEF Init
<1>4. Descriptors = 0
  BY <1>3 DEF Init, Descriptors
<1> QED
  BY <1>1, <1>2, <1>4, BoundAssumption, TypeParts

LEMMA FlagsStep == ASSUME Flags, Next PROVE Flags'
<1> USE DEF Flags
<1>1. CASE Simple
  <2>1. CASE Fuser
    BY <2>1 DEF Fuser, Ready, Answered, sockets
  <2>2. CASE Fpasv
    BY <2>2 DEF Fpasv, Ready, Answered, CloseSession
  <2>3. CASE Fport
    BY <2>3 DEF Fport, Ready, Answered
  <2>4. CASE Frest
    BY <2>4 DEF Frest, Ready, Answered, sockets
  <2>5. CASE BadNumber
    BY <2>5 DEF BadNumber, Ready, CloseSession, sockets
  <2>6. CASE Fquit
    BY <2>6 DEF Fquit, sockets
  <2> QED
    BY <1>1, <2>1, <2>2, <2>3, <2>4, <2>5, <2>6 DEF Simple
<1>2. ASSUME NEW c \in Transfers, Refuse(c) \/ OpenFails(c) \/ Open(c) PROVE Flags'
  <2>1. CASE Refuse(c)
    BY <2>1 DEF Refuse, Answered
  <2>2. CASE OpenFails(c)
    BY <2>2 DEF OpenFails, Answered
  <2>3. CASE Open(c)
    BY <2>3 DEF Open, control, sockets
  <2> QED
    BY <1>2, <2>1, <2>2, <2>3
<1>3. CASE Transfer
  <2> USE DEF End, CloseSockets, Overwrite, control, sockets
  <2>1. CASE Connect
    BY <2>1 DEF Connect
  <2>2. CASE AcceptFails
    BY <2>2 DEF AcceptFails
  <2>3. CASE SocketFails
    BY <2>3 DEF SocketFails
  <2>4. CASE ConnectFails
    BY <2>4 DEF ConnectFails
  <2>5. CASE TransferAborted
    BY <2>5 DEF TransferAborted
  <2>6. CASE Test \/ Move
    BY <2>6 DEF Test, Move, Loop
  <2>7. CASE Transferred
    BY <2>7 DEF Transferred
  <2>8. CASE ConnectionLost
    BY <2>8 DEF ConnectionLost
  <2>9. CASE LocalError
    BY <2>9 DEF LocalError
  <2> QED
    BY <1>3, <2>1, <2>2, <2>3, <2>4, <2>5, <2>6, <2>7, <2>8, <2>9 DEF Transfer
<1>4. CASE Aborting
  <2>1. CASE Abor
    BY <2>1 DEF Abor, sockets
  <2>2. CASE AborLate
    BY <2>2 DEF AborLate, sockets
  <2>3. CASE Swallowed
    BY <2>3 DEF Swallowed, sockets
  <2>4. CASE GiveUpWaiting
    BY <2>4 DEF GiveUpWaiting,
              control, sockets
  <2>5. CASE ClientGone
    BY <2>5 DEF ClientGone, control, sockets
  <2>6. CASE AborRead
    BY <2>6 DEF AborRead, sockets
  <2> QED
    BY <1>4, <2>1, <2>2, <2>3, <2>4, <2>5, <2>6 DEF Aborting
<1> HIDE DEF Flags
<1> QED
  BY <1>1, <1>2, <1>3, <1>4, NextGroups DEF Starting

LEMMA PlacesStep == ASSUME Flags, Places, Next PROVE Places'
<1> USE DEF Places
\* What is counted when a descriptor is lost.
<1>0. lost + One(listening) \in Nat /\ lost + One(data) \in Nat /\ lost + One(file) \in Nat
  <2>1. One(listening) \in {0, 1} /\ One(data) \in {0, 1} /\ One(file) \in {0, 1}
    BY OneType DEF Flags
  <2> QED
    BY <2>1
<1>1. CASE Simple
  <2>1. CASE Fuser
    BY <2>1 DEF Fuser, Ready, Answered, sockets
  <2>2. CASE Fpasv
    <3>1. \/ /\ lost' = lost + One(listening) /\ told' = "PASV"
             /\ UNCHANGED <<pc, command, owed>>
          \/ /\ pc = "idle" /\ pc' = "closed" /\ owed' = 1
             /\ UNCHANGED <<command, lost, told>>
      BY <2>2 DEF Fpasv, Ready, Answered, CloseSession
    <3> QED
      BY <1>0, <3>1
  <2>3. CASE Fport
    BY <2>3 DEF Fport, Ready, Answered
  <2>4. CASE Frest
    BY <2>4 DEF Frest, Ready, Answered, sockets
  <2>5. CASE BadNumber
    BY <2>5 DEF BadNumber, Ready, CloseSession, sockets
  <2>6. CASE Fquit
    BY <2>6 DEF Fquit, sockets
  <2> QED
    BY <1>1, <2>1, <2>2, <2>3, <2>4, <2>5, <2>6 DEF Simple

<1>2. ASSUME NEW c \in Transfers, Refuse(c) \/ OpenFails(c) \/ Open(c) PROVE Places'
  <2>1. CASE Refuse(c)
    BY <2>1 DEF Refuse, Ready, Answered
  <2>2. CASE OpenFails(c)
    <3>1. One(c = "RETR" /\ DescriptorFree) \in {0, 1}
      <4>1. (c = "RETR" /\ DescriptorFree) \in BOOLEAN
        OBVIOUS
      <4> QED
        BY <4>1, OneType, Zenon
    <3> QED
      BY <2>2, <3>1 DEF OpenFails, Ready, Answered
  <2>3. CASE Open(c)
    <3>1. pc' = "connect" /\ command' = c /\ owed' = 1 /\ UNCHANGED <<lost, told>>
      BY <2>3 DEF Open, control, sockets
    <3> QED
      BY <3>1 DEF Transfers, Uploads
  <2> QED
    BY <1>2, <2>1, <2>2, <2>3
<1>3. CASE Transfer
  <2> USE DEF End, CloseSockets, Overwrite, At, control, sockets
  <2>1. CASE Connect
    BY <1>0, <2>1 DEF Connect
  <2>2. CASE AcceptFails
    BY <1>0, <2>2 DEF AcceptFails
  <2>3. CASE SocketFails
    BY <1>0, <2>3 DEF SocketFails
  <2>4. CASE ConnectFails
    BY <1>0, <2>4 DEF ConnectFails
  <2>5. CASE TransferAborted
    BY <2>5 DEF TransferAborted
  <2>6. CASE Test \/ Move
    BY <2>6 DEF Test, Move, Loop
  <2>7. CASE Transferred
    BY <2>7 DEF Transferred
  <2>8. CASE ConnectionLost
    BY <1>0, <2>8 DEF ConnectionLost
  <2>9. CASE LocalError
    BY <2>9 DEF LocalError
  <2> QED
    BY <1>3, <2>1, <2>2, <2>3, <2>4, <2>5, <2>6, <2>7, <2>8, <2>9 DEF Transfer
<1>4. CASE Aborting
  BY <1>4 DEF Aborting, ClientGone, Abor, AborRead, AborLate, Swallowed, GiveUpWaiting,
              control, sockets
<1> HIDE DEF Places
<1> QED
  BY <1>1, <1>2, <1>3, <1>4, NextGroups DEF Starting

\* A descriptor is opened only when there is one, and one that is closed, or lost, stays
\* counted or is counted once less.
LEMMA DescriptorsStep ==
  ASSUME Flags, Places, Flags', Places', Descriptors \in 0..MaxFd, Next
  PROVE  (Descriptors \in 0..MaxFd)'
<1> DEFINE l == One(listening)  d == One(data)  f == One(file)
           l1 == One(listening')  d1 == One(data')  f1 == One(file')
<1>1. /\ l \in 0..1 /\ d \in 0..1 /\ f \in 0..1
      /\ l1 \in 0..1 /\ d1 \in 0..1 /\ f1 \in 0..1
      /\ lost \in Nat /\ lost' \in Nat /\ MaxFd \in Nat
  <2>1. \A b \in {listening, data, file, listening', data', file'} : One(b) \in {0, 1}
    BY OneType DEF Flags
  <2> QED
    BY <2>1, BoundAssumption DEF Places
<1>2. Descriptors = lost + l + d + f /\ Descriptors' = lost' + l1 + d1 + f1
  BY DEF Descriptors
<1>3. SUFFICES lost' + l1 + d1 + f1 <= MaxFd
  BY <1>1, <1>2, BoundAssumption
<1>4. lost + l + d + f <= MaxFd
  BY <1>1, <1>2, BoundAssumption
\* What may become of a flag.
<1>5. /\ UNCHANGED listening => l1 = l
      /\ UNCHANGED data => d1 = d
      /\ UNCHANGED file => f1 = f
      /\ listening' = FALSE => l1 = 0
      /\ data' = FALSE => d1 = 0
      /\ file' = FALSE => f1 = 0
      /\ listening' = (listening /\ ~passive) => l1 = l \/ l1 = 0
  <2>1. listening' = (listening /\ ~passive) => UNCHANGED listening \/ listening' = FALSE
    BY DEF Flags
  <2> QED
    BY <2>1, OneType
<1> HIDE DEF l, d, f, l1, d1, f1

\* It suffices that no step opens two, and that one that opens one finds one free.
<1>6. DescriptorFree => lost + l + d + f < MaxFd
  BY <1>2 DEF DescriptorFree
<1>7. CASE Simple
  <2>1. CASE Fpasv
    <3>1. \/ DescriptorFree /\ listening' = TRUE /\ lost' = lost + l /\ UNCHANGED <<data, file>>
          \/ UNCHANGED <<listening, data, file, lost>>
      BY <2>1 DEF Fpasv, Answered, CloseSession, l
    <3>2. \/ lost + l + d + f < MaxFd /\ lost' = lost + l /\ d1 = d /\ f1 = f
          \/ l1 = l /\ d1 = d /\ f1 = f /\ lost' = lost
      BY <1>5, <1>6, <3>1
    <3>3. CASE lost + l + d + f < MaxFd /\ lost' = lost + l /\ d1 = d /\ f1 = f
      BY <1>1, <3>3
    <3>4. CASE l1 = l /\ d1 = d /\ f1 = f /\ lost' = lost
      BY <1>4, <3>4
    <3> QED
      BY <3>2, <3>3, <3>4
  <2>2. CASE ~Fpasv
    <3>1. UNCHANGED <<listening, data, file, lost>>
      BY <1>7, <2>2 DEF Simple, Fuser, Fport, Frest, BadNumber, Fquit, Answered,
                        CloseSession, sockets
    <3> QED
      BY <1>4, <1>5, <3>1
  <2> QED
    BY <2>1, <2>2
<1>8. ASSUME NEW c \in Transfers, Refuse(c) \/ OpenFails(c) \/ Open(c)
      PROVE  lost' + l1 + d1 + f1 <= MaxFd
  <2>1. CASE Refuse(c)
    <3>1. /\ UNCHANGED listening \/ listening' = (listening /\ ~passive)
          /\ UNCHANGED data \/ data' = FALSE
          /\ UNCHANGED <<file, lost>>
      BY <2>1 DEF Refuse, Answered
    <3>2. l1 \in {0, l} /\ d1 \in {0, d} /\ f1 = f /\ lost' = lost
      BY <1>5, <3>1
    <3> QED
      BY <1>1, <1>4, <3>2
  <2>2. CASE OpenFails(c)
    <3>1. /\ UNCHANGED <<listening, data, file>>
          /\ lost' = lost \/ lost' = lost + One(c = "RETR" /\ DescriptorFree)
      BY <2>2 DEF OpenFails, Answered
    <3>2. \/ DescriptorFree /\ One(c = "RETR" /\ DescriptorFree) \in {0, 1}
          \/ One(c = "RETR" /\ DescriptorFree) = 0
      <4>1. CASE (c = "RETR" /\ DescriptorFree) = TRUE
        BY <4>1, OneType, Zenon
      <4>2. CASE (c = "RETR" /\ DescriptorFree) = FALSE
        BY <4>2, OneType, Zenon
      <4> QED
        BY <4>1, <4>2
    <3>3. PICK k \in {0, 1} : k = One(c = "RETR" /\ DescriptorFree)
      BY <3>2
    <3>4. k = 0 \/ lost + l + d + f < MaxFd
      <4>1. k = 0 \/ DescriptorFree
        BY <3>2, <3>3, Zenon
      <4>2. ASSUME DescriptorFree PROVE lost + l + d + f < MaxFd
        BY <1>6, <4>2
      <4> QED
        BY <4>1, <4>2, Zenon
    <3>5. l1 = l /\ d1 = d /\ f1 = f /\ (lost' = lost \/ lost' = lost + k)
      <4>1. lost' = lost \/ lost' = lost + k
        BY <3>1, <3>3, Zenon
      <4>2. UNCHANGED <<listening, data, file>>
        BY <3>1, Zenon
      <4>3. l1 = l /\ d1 = d /\ f1 = f
        BY <1>5, <4>2
      <4> QED
        BY <4>1, <4>3
    <3>6. CASE k = 0
      <4>1. lost' = lost \/ lost' = lost + 0
        BY <3>5, <3>6, Zenon
      <4>2. lost' = lost
        BY <1>1, <4>1
      <4> QED
        BY <1>4, <3>5, <4>2, Zenon
    <3>7. CASE lost + l + d + f < MaxFd
      <4>1. k = 0 \/ k = 1
        OBVIOUS
      <4>2. lost' = lost \/ lost' = lost + 0 \/ lost' = lost + 1
        BY <3>5, <4>1, Zenon
      <4>3. lost' = lost \/ lost' = lost + 1
        BY <1>1, <4>2
      <4>4. l1 = l /\ d1 = d /\ f1 = f
        BY <3>5, Zenon
      <4>5. CASE lost' = lost
        BY <1>4, <4>4, <4>5, Zenon
      <4>6. CASE lost' = lost + 1
        <5>1. (lost + 1) + l + d + f <= MaxFd
          BY <1>1, <3>7
        <5> QED
          BY <4>4, <4>6, <5>1, Zenon
      <4> QED
        BY <4>3, <4>5, <4>6
    <3> QED
      BY <3>4, <3>6, <3>7
  <2>3. CASE Open(c)
    <3>1. /\ UNCHANGED file \/ DescriptorFree
          /\ UNCHANGED <<listening, data, lost>>
      BY <2>3 DEF Open, sockets
    <3>2. (f1 = f \/ lost + l + d + f < MaxFd) /\ l1 = l /\ d1 = d /\ lost' = lost
      BY <1>5, <1>6, <3>1
    <3> QED
      BY <1>1, <1>4, <3>2
  <2> QED
    BY <1>8, <2>1, <2>2, <2>3
<1>9. CASE Transfer
  <2>1. CASE Connect
    <3>1. DescriptorFree /\ lost' = lost + d /\ data' = TRUE /\ UNCHANGED <<listening, file>>
      BY <2>1 DEF Connect, Overwrite, d
    <3>2. lost + l + d + f < MaxFd /\ lost' = lost + d /\ l1 = l /\ f1 = f
      BY <1>5, <1>6, <3>1
    <3> QED
      BY <1>1, <3>2
  <2>2. CASE AcceptFails \/ SocketFails
    <3>1. /\ lost' = lost + d /\ data' = FALSE /\ file' = FALSE
          /\ UNCHANGED listening \/ listening' = FALSE
      BY <2>2 DEF AcceptFails, SocketFails, Overwrite, d
    <3>2. lost' = lost + d /\ d1 = 0 /\ f1 = 0 /\ l1 \in {0, l}
      BY <1>5, <3>1
    <3> QED
      BY <1>1, <1>4, <3>2
  <2>3. CASE ConnectFails
    <3>1. DescriptorFree /\ lost' = lost + d /\ file' = FALSE /\ UNCHANGED listening
      BY <2>3 DEF ConnectFails, Overwrite, d
    <3>2. lost + l + d + f < MaxFd /\ lost' = lost + d /\ f1 = 0 /\ l1 = l
      BY <1>5, <1>6, <3>1
    <3> QED
      BY <1>1, <3>2
  <2>4. CASE TransferAborted \/ Transferred
    <3>1. /\ listening' = (listening /\ ~passive) /\ data' = FALSE /\ file' = FALSE
          /\ UNCHANGED lost
      BY <2>4 DEF TransferAborted, Transferred, CloseSockets
    <3>2. l1 \in {0, l} /\ d1 = 0 /\ f1 = 0 /\ lost' = lost
      BY <1>5, <3>1
    <3> QED
      BY <1>1, <1>4, <3>2
  <2>5. CASE Test \/ Move
    <3>1. UNCHANGED <<listening, data, file, lost>>
      BY <2>5 DEF Test, Move, Loop, sockets
    <3> QED
      BY <1>4, <1>5, <3>1
  <2>6. CASE ConnectionLost
    <3>1. /\ listening' = (listening /\ ~passive) /\ data' = FALSE /\ file' = FALSE
          /\ lost' = lost + f
      BY <2>6 DEF ConnectionLost, CloseSockets, f
    <3>2. l1 \in {0, l} /\ d1 = 0 /\ f1 = 0 /\ lost' = lost + f
      BY <1>5, <3>1
    <3> QED
      BY <1>1, <1>4, <3>2
  <2>7. CASE LocalError
    <3>1. /\ listening' = (listening /\ ~passive) /\ file' = FALSE
          /\ UNCHANGED data \/ data' = FALSE
          /\ UNCHANGED lost
      BY <2>7 DEF LocalError
    <3>2. l1 \in {0, l} /\ d1 \in {0, d} /\ f1 = 0 /\ lost' = lost
      BY <1>5, <3>1
    <3> QED
      BY <1>1, <1>4, <3>2
  <2> QED
    BY <1>9, <2>1, <2>2, <2>3, <2>4, <2>5, <2>6, <2>7 DEF Transfer
<1>10. CASE Aborting
  <2>1. UNCHANGED <<listening, data, file, lost>>
    BY <1>10 DEF Aborting, ClientGone, Abor, AborRead, AborLate, Swallowed, GiveUpWaiting, control,
                 sockets
  <2> QED
    BY <1>4, <1>5, <2>1
<1> QED
  BY <1>7, <1>8, <1>9, <1>10, NextGroups DEF Starting

LEMMA TypeStep == TypeOK /\ [Next]_vars => TypeOK'
<1> SUFFICES ASSUME TypeOK, [Next]_vars PROVE TypeOK'
  OBVIOUS
<1>1. Flags /\ Places /\ Descriptors \in 0..MaxFd
  BY TypeParts
<1>2. CASE Next
  BY <1>1, <1>2, FlagsStep, PlacesStep, DescriptorsStep, TypePartsNext
<1>3. CASE UNCHANGED vars
  BY <1>1, <1>3, TypePartsNext DEF vars, Flags, Places, Descriptors
<1> QED
  BY <1>2, <1>3

\* Every variable keeps its type; the descriptors that are open, those that no variable
\* names any more included, never exceed what the process has.
THEOREM TypeCorrect == Spec => []TypeOK
  BY TypeInit, TypeStep, PTL DEF Spec

-----------------------------------------------------------------------------
(***************************************************************************)
(* What a transfer is left with by the commands before it.                 *)
(***************************************************************************)
LEMMA PassiveStep ==
  ASSUME TypeOK, PassiveMeansListening, ConnectsAsTold,
         pc # "closed" /\ passive => told = "PASV", [Next]_vars
  PROVE  PassiveMeansListening' /\ (pc' # "closed" /\ passive' => told' = "PASV")
<1> USE DEF TypeOK, PassiveMeansListening
<1>1. CASE Simple
  BY <1>1 DEF Simple, Fuser, Fpasv, Fport, Frest, BadNumber, Fquit, Ready, Answered,
              CloseSession, sockets
<1>2. ASSUME NEW c \in Transfers, Refuse(c) \/ OpenFails(c) \/ Open(c)
      PROVE  PassiveMeansListening' /\ (pc' # "closed" /\ passive' => told' = "PASV")
  BY <1>2 DEF Refuse, OpenFails, Open, Ready, Answered, control, sockets
<1>3. CASE Transfer
  BY <1>3 DEF Transfer, Connect, AcceptFails, SocketFails, ConnectFails, TransferAborted, Test,
              Move, Loop, Transferred, ConnectionLost, LocalError, End, CloseSockets, At,
              control, sockets
<1>4. CASE Aborting
  BY <1>4 DEF Aborting, ClientGone, Abor, AborRead, AborLate, Swallowed, GiveUpWaiting,
              control, sockets
<1>5. CASE UNCHANGED vars
  BY <1>5 DEF vars
<1> QED
  BY <1>1, <1>2, <1>3, <1>4, <1>5, NextGroups DEF Starting

\* passive outlives the command that set it (PASV), and every other command, also one that
\* fails, leaves it true only with server_data_socket open and the client told so.
PassiveInv ==
  /\ TypeOK /\ PassiveMeansListening
  /\ pc # "closed" /\ passive => told = "PASV"

LEMMA PassiveInvariant == Spec => []PassiveInv
<1>1. Init => PassiveInv
  BY TypeInit DEF Init, PassiveInv, PassiveMeansListening
<1>2. PassiveInv /\ [Next]_vars => PassiveInv'
  BY TypeStep, PassiveStep DEF PassiveInv, ConnectsAsTold
<1> QED
  BY <1>1, <1>2, PTL DEF Spec

\* accept() in CreateDataConnection is only reached with a socket that listens.
THEOREM AcceptsOnListening == Spec => []PassiveMeansListening
<1>1. PassiveInv => PassiveMeansListening
  BY DEF PassiveInv
<1> QED
  BY <1>1, PassiveInvariant, PTL

\* A transfer waits for the client only when the client was told to come.
THEOREM ConnectsOnlyAsTold == Spec => []ConnectsAsTold
<1>1. PassiveInv => ConnectsAsTold
  BY DEF PassiveInv, ConnectsAsTold
<1> QED
  BY <1>1, PassiveInvariant, PTL

-----------------------------------------------------------------------------
\* A transfer that runs owes its client an answer.
Owing == command # "none" => owed > 0

\* The one end without an answer: no socket for an active connection.
NoSocket == pc = "connect" /\ ~passive /\ ~data'

AnswerGoesWithEnd ==
  command # "none" /\ command' = "none" /\ pc' = "idle" /\ ~NoSocket => owed' < owed

LEMMA OwingStep ==
  ASSUME TypeOK, Owing, [Next]_vars
  PROVE  Owing' /\ AnswerGoesWithEnd
<1> USE DEF TypeOK, Owing, AnswerGoesWithEnd, NoSocket
<1>1. CASE Simple
  BY <1>1 DEF Simple, Fuser, Fpasv, Fport, Frest, BadNumber, Fquit, Ready, Answered,
              CloseSession, sockets
<1>2. ASSUME NEW c \in Transfers, Refuse(c) \/ OpenFails(c) \/ Open(c)
      PROVE  Owing' /\ AnswerGoesWithEnd
  BY <1>2 DEF Refuse, OpenFails, Open, Ready, Answered, control, sockets
<1>3. CASE Transfer
  BY <1>3 DEF Transfer, Connect, AcceptFails, SocketFails, ConnectFails, TransferAborted, Test,
              Move, Loop, Transferred, ConnectionLost, LocalError, End, At, control, sockets
<1>4. CASE Aborting
  BY <1>4 DEF Aborting, ClientGone, Abor, AborRead, AborLate, Swallowed, GiveUpWaiting,
              control, sockets
<1>5. CASE UNCHANGED vars
  BY <1>5 DEF vars
<1> QED
  BY <1>1, <1>2, <1>3, <1>4, <1>5, NextGroups DEF Starting

\* However a transfer ends - aborted, broken off, with an error of the file, refused by the
\* client or by accept() - a reply goes with its end; except when socket() fails for an
\* active connection (network.cpp:234).
THEOREM EndsAreAnswered == Spec => EndIsAnswered
<1>1. Init => Owing
  BY DEF Init, Owing
<1>2. TypeOK /\ Owing /\ [Next]_vars => Owing'
  BY OwingStep
<1>3. TypeOK /\ Owing /\ [Next]_vars
        => [command # "none" /\ command' = "none" /\ pc' = "idle"
              /\ ~(pc = "connect" /\ ~passive /\ ~data')
            => owed' < owed]_vars
  BY OwingStep DEF AnswerGoesWithEnd, NoSocket
<1> QED
  BY <1>1, <1>2, <1>3, TypeCorrect, PTL DEF Spec, EndIsAnswered
================================================================================

------------------------------- MODULE Transfer -------------------------------
(***************************************************************************)
(* The bytes of STOR, APPE and RETR: conversion of line ends block by      *)
(* block, transfers that break off, and their resumption with REST.        *)
(*                                                                         *)
(* One client has a file, text, and brings it to the server in as many     *)
(* attempts as it takes, each in TYPE A or I; it also fetches what the     *)
(* server has into a copy of its own.  In TYPE A the client, as RFC 959    *)
(* wants it, sends CR LF for each LF and takes CR LF for LF.  The          *)
(* structure is F: with STRU R the program also changes the data, see the  *)
(* README.                                                                 *)
(***************************************************************************)
EXTENDS Naturals, SequencesExt, FiniteSetsExt

CONSTANTS Byte,    \* what files consist of
          Texts,   \* the files that the client may have: sequences of bytes
          BufSize, \* BUF_SIZE of both loops
          Faults,  \* what fails and goes unnoticed, see FaultAssumption
          None     \* restart is not set

CR == "CR"
LF == "LF"

ASSUME TransferAssumption ==
  /\ {CR, LF} \subseteq Byte /\ Texts \subseteq Seq(Byte)
  /\ BufSize \in Nat \ {0} /\ None \notin Nat
ASSUME FaultAssumption ==
  Faults \subseteq {"short",   \* write() to the client ends early: a signal came
                    "cr",      \* a CR that was held back cannot be written
                    "fclose"}  \* what fclose() has to write does not reach the disk

VARIABLES text,    \* the client's file
          file,    \* the server's file
          copy,    \* the client's copy of it
          pc,      \* "idle", or the loop that runs: "receive" or "send"
          type,    \* transfer_type
          restart, \* restart_offset, or None
          wire,    \* the data connection: what the client still has to send, or what
                   \*   the server has sent
          held,    \* CR, the local flag of the uploads: a CR was held back
          pos,     \* where RETR reads next; while receiving, how much of the file
                   \*   is on the disk whatever happens
          reply,   \* the codes that answered the last command
          missing  \* history, of what the program did not notice: there is a "hole" in
                   \*   the file, or its "tail" is lost, or the "copy" has a hole

vars == <<text, file, copy, pc, type, restart, wire, held, pos, reply, missing>>

From(s, n) == SubSeq(s, n + 1, Len(s))
Upto(s, n) == SubSeq(s, 1, n)

-----------------------------------------------------------------------------
(***************************************************************************)
(* The conversions.                                                        *)
(***************************************************************************)
LF2CRLF(s) == FlattenSeq([i \in 1..Len(s) |-> IF s[i] = LF THEN <<CR, LF>> ELSE <<s[i]>>])

\* A CR that an LF follows is left out.
CRLF2LF(s) ==
  FlattenSeq([i \in 1..Len(s) |->
    IF s[i] = CR /\ i < Len(s) /\ s[i + 1] = LF THEN <<>> ELSE <<s[i]>>])

\* The client's side of it.
Encoded(s) == IF type = "A" THEN LF2CRLF(s) ELSE s
Decoded(s) == IF type = "A" THEN CRLF2LF(s) ELSE s

\* A client whose transfer broke off does not know what a CR at the end belongs to.
Certain(s) == IF type = "A" /\ s # <<>> /\ Last(s) = CR THEN Front(s) ELSE s

\* Mutant of Stored: every block is converted by itself.
StoredAlone(block) == [bytes |-> Decoded(block), held |-> FALSE]

\* What an upload makes of a block: the CR that was held back is written if no LF
\* follows, and a CR at the end of the block is held back.
Stored(block) ==
  LET before == IF held /\ Head(block) # LF THEN <<CR>> ELSE <<>>
      whole == Last(block) # CR
  IN  IF type # "A" THEN [bytes |-> block, held |-> held]
      ELSE [bytes |-> before \o CRLF2LF(IF whole THEN block ELSE Front(block)),
            held |-> ~whole]

-----------------------------------------------------------------------------
Init ==
  /\ text \in Texts
  /\ file = <<>> /\ copy = <<>> /\ pc = "idle" /\ type = "A" /\ restart = None
  /\ wire = <<>> /\ held = FALSE /\ pos = 0 /\ reply = <<220>> /\ missing = {}

Idle == pc = "idle"

\* The transfer is over; the loop's variables mean nothing any more.
Over(codes) == pc' = "idle" /\ wire' = <<>> /\ held' = FALSE /\ pos' = 0 /\ reply' = codes

\* What may be on the disk after the fclose() of an upload that has written s; nobody
\* looks at its result.
Closed(s) == IF "fclose" \in Faults THEN {Upto(s, n) : n \in pos..Len(s)} ELSE {s}

Ftype(t) ==
  /\ Idle /\ restart = None
  /\ type' = t
  /\ UNCHANGED <<text, file, copy, pc, restart, wire, held, pos, reply, missing>>

\* The client sends REST right before the transfer that it is for.
Frest(n) ==
  /\ Idle /\ restart = None
  /\ restart' = n /\ reply' = <<350>>
  /\ UNCHANGED <<text, file, copy, pc, type, wire, held, pos, missing>>

\* STOR empties the file, or cuts it at the offset; then CreateDataConnection() may
\* fail.  The client resumes no further than SIZE has told it.
Fstor ==
  LET n == IF restart = None THEN 0 ELSE restart IN
  /\ Idle /\ n <= Len(file)
  /\ file' = Upto(file, n)
  /\ restart' = None
  /\ missing' = missing \ (IF n = 0 THEN {"hole", "tail"} ELSE {"tail"})
  /\ \/ /\ pc' = "receive" /\ wire' = Encoded(From(text, n)) /\ pos' = n /\ held' = FALSE
        /\ reply' = <<150>>
     \/ Over(<<425>>)
  /\ UNCHANGED <<text, copy, type>>

\* APPE takes up where the file ends.
Fappe ==
  /\ Idle /\ restart = None
  /\ \/ /\ pc' = "receive" /\ wire' = Encoded(From(text, Len(file))) /\ pos' = Len(file)
        /\ held' = FALSE /\ reply' = <<150>>
     \/ Over(<<425>>)
  /\ missing' = missing \ {"tail"}
  /\ UNCHANGED <<text, file, copy, type, restart>>

\* Mutant of Receive: a block of which nothing is left ends the transfer.
ReceiveUntilNothing(k) ==
  LET block == Upto(wire, k)
      stored == Stored(block)
  IN
  /\ pc = "receive" /\ k <= Len(wire)
  /\ IF stored.bytes = <<>> THEN Over(<<226>>) /\ UNCHANGED file
     ELSE /\ file' = file \o stored.bytes /\ held' = stored.held /\ wire' = From(wire, k)
          /\ UNCHANGED <<pc, pos, reply>>
  /\ UNCHANGED <<text, copy, type, restart, missing>>

\* read() returns the next k bytes.
Receive(k) ==
  LET stored == Stored(Upto(wire, k)) IN
  /\ pc = "receive" /\ k <= Len(wire)
  /\ file' = file \o stored.bytes /\ held' = stored.held /\ wire' = From(wire, k)
  /\ UNCHANGED <<text, copy, pc, type, restart, pos, reply, missing>>

\* fwrite() writes a part of a block: the disk is full.
WriteFails(k) ==
  /\ pc = "receive" /\ k <= Len(wire)
  /\ \E n \in 0..Len(Stored(Upto(wire, k)).bytes) :
       file' \in Closed(file \o Upto(Stored(Upto(wire, k)).bytes, n))
  /\ Over(<<451>>)
  /\ UNCHANGED <<text, copy, type, restart, missing>>

\* The CR that was held back cannot be written, which nobody notices; of the block
\* itself everything can, or a part.
HeldLost(k) ==
  LET stored == Stored(Upto(wire, k))
      block == Tail(stored.bytes)
  IN
  /\ "cr" \in Faults
  /\ pc = "receive" /\ k <= Len(wire)
  /\ type = "A" /\ held /\ Head(wire) # LF
  /\ missing' = missing \cup {"hole"}
  /\ \/ /\ file' = file \o block /\ held' = stored.held /\ wire' = From(wire, k)
        /\ UNCHANGED <<pc, pos, reply>>
     \/ /\ \E n \in 0..Len(block) : file' \in Closed(file \o Upto(block, n))
        /\ Over(<<451>>)
  /\ UNCHANGED <<text, copy, type, restart>>

\* read() returns 0, and a CR that is still held back is forgotten.
Received ==
  /\ pc = "receive" /\ wire = <<>>
  /\ file' \in Closed(file)
  /\ missing' = IF file' = file THEN missing ELSE missing \cup {"tail"}
  /\ Over(<<226>>)
  /\ UNCHANGED <<text, copy, type, restart>>

\* ABOR, which gets two answers, or a reset connection.  (A connection that the client's
\* death closes looks like the end of the file; nobody reads the reply.)
ReceiveAborted ==
  /\ pc = "receive"
  /\ file' \in Closed(file)
  /\ Over(<<426, 226>>) \/ Over(<<451>>)
  /\ UNCHANGED <<text, copy, type, restart, missing>>

\* The process is killed and the buffer of fwrite() is lost, or a part of it.
Killed ==
  /\ pc = "receive"
  /\ \E n \in pos..Len(file) : file' = Upto(file, n)
  /\ type' = "A"
  /\ Over(<<>>)
  /\ UNCHANGED <<text, copy, restart, missing>>

\* Mutant of Fretr: the offset is not used.
FretrFromStart ==
  /\ Idle /\ restart \in {None, Len(copy)}
  /\ copy' = IF restart = None THEN <<>> ELSE copy
  /\ pos' = 0
  /\ restart' = None
  /\ pc' = "send" /\ wire' = <<>> /\ reply' = <<150>>
  /\ UNCHANGED <<text, file, type, held, missing>>

\* RETR, from the beginning or after the part that the client has; then
\* CreateDataConnection() may fail.
Fretr ==
  /\ Idle /\ restart \in {None, Len(copy)}
  /\ restart' = None
  /\ \/ /\ copy' = IF restart = None THEN <<>> ELSE copy
        /\ pos' = IF restart = None THEN 0 ELSE restart
        /\ pc' = "send" /\ wire' = <<>> /\ held' = FALSE /\ reply' = <<150>>
        /\ missing' = IF "hole" \in missing THEN missing \cup {"copy"}
                      ELSE missing \ (IF restart = None THEN {"copy"} ELSE {})
     \/ Over(<<425>>) /\ UNCHANGED <<copy, missing>>
  /\ UNCHANGED <<text, file, type>>

\* What fread() returns, and whether it met the end of the file.
Block == SubSeq(file, pos + 1, Min({pos + BufSize, Len(file)}))
Feof == Len(Block) < BufSize

\* Mutant of SendLast: the end of the file is taken for the end of the loop.
SendLastForgotten ==
  /\ pc = "send" /\ Feof
  /\ copy' = copy \o Decoded(wire)
  /\ Over(<<226>>)
  /\ UNCHANGED <<text, file, type, restart, missing>>

Send ==
  /\ pc = "send" /\ ~Feof
  /\ wire' = wire \o Encoded(Block) /\ pos' = pos + BufSize
  /\ UNCHANGED <<text, file, copy, pc, type, restart, held, reply, missing>>

\* The last block, which may be empty.
SendLast ==
  /\ pc = "send" /\ Feof
  /\ copy' = copy \o Decoded(wire \o Encoded(Block))
  /\ Over(<<226>>)
  /\ UNCHANGED <<text, file, type, restart, missing>>

\* write() returns after n bytes of a block, because a handler ran meanwhile (a SYNCH
\* with STAT, say); SendData() does not mind, and the loop goes on.
SendShort ==
  /\ "short" \in Faults
  /\ pc = "send"
  /\ missing' = missing \cup {"copy"}
  /\ \E n \in 1..(Len(Encoded(Block)) - 1) :
       LET sent == wire \o Upto(Encoded(Block), n) IN
       \/ /\ ~Feof
          /\ wire' = sent /\ pos' = pos + BufSize
          /\ UNCHANGED <<copy, pc, held, reply>>
       \/ /\ Feof
          /\ copy' = copy \o Decoded(sent)
          /\ Over(<<226>>)
  /\ UNCHANGED <<text, file, type, restart>>

\* ABOR, which gets two answers, a read error, or a connection that is lost while a block
\* is sent: the client has a part of what was sent.
SendAborted ==
  LET sent == wire \o Encoded(Block) IN
  /\ pc = "send"
  /\ \E n \in 0..Len(sent) :
       /\ copy' = copy \o Decoded(Certain(Upto(sent, n)))
       /\ \/ n <= Len(wire) /\ (Over(<<426, 226>>) \/ Over(<<451>>))
          \/ Over(<<426>>)
  /\ UNCHANGED <<text, file, type, restart, missing>>

Next ==
  \/ \E t \in {"A", "I"} : Ftype(t)
  \/ \E n \in {Len(file), Len(copy)} : Frest(n)
  \/ Fstor \/ Fappe \/ Received \/ ReceiveAborted \/ Killed
  \/ \E k \in 1..BufSize : Receive(k) \/ WriteFails(k) \/ HeldLost(k)
  \/ Fretr \/ Send \/ SendLast \/ SendShort \/ SendAborted

Spec == Init /\ [][Next]_vars

-----------------------------------------------------------------------------
Replies ==
  {<<220>>, <<350>>, <<150>>, <<226>>, <<425>>, <<426>>, <<426, 226>>, <<451>>, <<>>}

\* Every variable has its type, and no file grows beyond the client's without a hole.
TypeOK ==
  /\ text \in Texts /\ file \in Seq(Byte) /\ copy \in Seq(Byte) /\ wire \in Seq(Byte)
  /\ missing \subseteq {"hole", "tail", "copy"}
  /\ "hole" \notin missing => Len(file) <= Len(text)
  /\ "copy" \notin missing => Len(copy) <= Len(text)
  /\ pc \in {"idle", "receive", "send"} /\ type \in {"A", "I"} /\ held \in BOOLEAN
  /\ restart \in {None} \cup Nat /\ pos \in Nat
  /\ reply \in Replies

\* However the network cuts the stream into blocks, wherever a transfer breaks off and
\* with whatever type it goes on, the server never has a byte that is not in its place
\* in the client's file: so it can always be resumed.  (Unless it failed to write a CR
\* that was held back, ftpcommands.cpp:1175.)
StoredIsPrefix == "hole" \notin missing => IsPrefix(file, text)

\* The same holds for what the client gets back, unless write() ended early
\* (network.cpp:407-423).
CopyIsPrefix == "copy" \notin missing => IsPrefix(copy, text)

\* 226 alone tells the client that the whole file arrived: all that it sent is stored, but
\* for a CR at its end that was held back for good, or it has all that the server has;
\* unless a CR, the end of the file in fclose() or a part of a block was lost unnoticed.
Whole226 ==
  [][reply' = <<226>> =>
       /\ pc = "receive" /\ missing' \cap {"hole", "tail"} = {}
            => file' = text \/ (held /\ file' = Front(text))
       /\ pc = "send" /\ "copy" \notin missing' /\ IsPrefix(copy, file)
            => copy' = file]_vars

-----------------------------------------------------------------------------
(***************************************************************************)
(* What makes these inductive: the data connection carries what is missing. *)
(***************************************************************************)
HeldBack(h) == IF h THEN <<CR>> ELSE <<>>

\* The rest of the client's file comes to the server, after a CR that was held back.
RestArrives ==
  pc = "receive" /\ "hole" \notin missing =>
    /\ HeldBack(held) \o wire = Encoded(From(text, Len(file)))
    /\ held => type = "A"

\* The client was sent what follows its copy, as far as the file was read.
RestSent ==
  pc = "send" /\ "copy" \notin missing =>
    /\ "hole" \notin missing
    /\ wire = Encoded(SubSeq(text, Len(copy) + 1, pos))
    /\ Len(copy) <= pos /\ (pos <= Len(file) \/ pos = Len(copy))

\* What is on the disk is never more than what was written.
OnDisk == pc = "receive" => pos <= Len(file)

\* A transfer that runs has been announced and not been answered.
Unanswered == pc # "idle" => reply = <<150>>

TransferInv ==
  TypeOK /\ StoredIsPrefix /\ CopyIsPrefix /\ RestArrives /\ RestSent /\ OnDisk /\ Unanswered
================================================================================

----------------------------- MODULE FileInfoStore -----------------------------
(***************************************************************************)
(* What DirectoryDatabase promises to its callers, with no lock, no file   *)
(* and no retry: every call takes effect at most once, in one indivisible  *)
(* step between its invocation and its return, and the code it returns     *)
(* says whether it did.                                                    *)
(*                                                                         *)
(*    "ok"                      the call took effect              ( 1)     *)
(*    "no_key", "db_error"      the call changed nothing      (-1, -3)     *)
(*    "lock_error"              either of the two                 (-2)     *)
(*    "exception"               the constructor threw, nothing changed     *)
(***************************************************************************)
CONSTANTS Process,   \* server processes, each with one DirectoryDatabase object
          Inode,     \* keys of the database: i-node numbers
          Info,      \* owner and rights of a file
          NoInfo     \* "no record": not a member of Info

VARIABLES rec,       \* the stored records
          todo,      \* each process's call that has not taken effect yet
          reply      \* what the call that is about to return will answer

vars == <<rec, todo, reply>>

Record == Info \cup {NoInfo}

(***************************************************************************)
(* A call is an operation, the key of its file and, for a put, the record. *)
(***************************************************************************)
Call == [op : {"put"}, key : Inode, info : Info]
          \cup [op : {"open", "get", "delete"}, key : Inode, info : {NoInfo}]

NoCall == [op |-> "none", key |-> "none", info |-> NoInfo]

Code == {"ok", "db_error", "lock_error", "exception"}

Answer(code, info) == [code |-> code, info |-> info]

NoReply == Answer("none", NoInfo)

Init ==
  /\ rec = [i \in Inode |-> NoInfo]
  /\ todo = [p \in Process |-> NoCall]
  /\ reply = [p \in Process |-> NoReply]

Invoke(p, c) ==
  /\ todo[p] = NoCall /\ reply[p] = NoReply
  /\ todo' = [todo EXCEPT ![p] = c]
  /\ UNCHANGED <<rec, reply>>

(***************************************************************************)
(* The one step in which a successful call happens: a put stores its       *)
(* record, a get and a delete need one, and a get answers it.              *)
(***************************************************************************)
Succeed(p) ==
  LET c == todo[p] IN
  /\ c # NoCall
  /\ todo' = [todo EXCEPT ![p] = NoCall]
  /\ \/ /\ c.op = "open"
        /\ reply' = [reply EXCEPT ![p] = Answer("ok", NoInfo)]
        /\ UNCHANGED rec
     \/ /\ c.op = "put"
        /\ rec' = [rec EXCEPT ![c.key] = c.info]
        /\ reply' = [reply EXCEPT ![p] = Answer("ok", NoInfo)]
     \/ /\ c.op = "get" /\ rec[c.key] # NoInfo
        /\ reply' = [reply EXCEPT ![p] = Answer("ok", rec[c.key])]
        /\ UNCHANGED rec
     \/ /\ c.op = "delete" /\ rec[c.key] # NoInfo
        /\ rec' = [rec EXCEPT ![c.key] = NoInfo]
        /\ reply' = [reply EXCEPT ![p] = Answer("ok", NoInfo)]

Fail(p, code) ==
  /\ todo[p] # NoCall
  /\ todo' = [todo EXCEPT ![p] = NoCall]
  /\ reply' = [reply EXCEPT ![p] = Answer(code, NoInfo)]
  /\ UNCHANGED rec

(***************************************************************************)
(* The call took effect, but its caller only hears that unlocking failed.  *)
(***************************************************************************)
LoseOutcome(p) ==
  /\ reply[p].code = "ok"
  /\ \E code \in {"lock_error", "exception"} :
       reply' = [reply EXCEPT ![p] = Answer(code, NoInfo)]
  /\ UNCHANGED <<rec, todo>>

(***************************************************************************)
(* The caller takes the answer.                                            *)
(***************************************************************************)
Return(p) ==
  /\ reply[p] # NoReply
  /\ reply' = [reply EXCEPT ![p] = NoReply]
  /\ UNCHANGED <<rec, todo>>

(***************************************************************************)
(* A process that dies takes its call with it, before or after its effect. *)
(***************************************************************************)
Crash(p) ==
  /\ todo' = [todo EXCEPT ![p] = NoCall]
  /\ reply' = [reply EXCEPT ![p] = NoReply]
  /\ UNCHANGED rec

Next ==
  \E p \in Process :
    \/ \E c \in Call : Invoke(p, c)
    \/ Succeed(p)
    \/ \E code \in Code \ {"ok"} : Fail(p, code)
    \/ LoseOutcome(p)
    \/ Return(p)
    \/ Crash(p)

Spec == Init /\ [][Next]_vars
================================================================================

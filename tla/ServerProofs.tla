----------------------------- MODULE ServerProofs -----------------------------
(***************************************************************************)
(* Theorems about Server, for any number of servers, children, addresses   *)
(* and edits: type correctness; that no reload is forgotten, that wait()   *)
(* never blocks and that one late client is all; for one server, that the  *)
(* pid file is kept and denied addresses are not served.                   *)
(***************************************************************************)
EXTENDS Server, TLAPS

Signals == {"CHLD", "HUP", "TERM"}

LiveChild ==
  [pc : {"born", "check", "serve", "hup", "exit"}, server : Server, addr : Addr,
   arg : Addr, parent : BOOLEAN, run : BOOLEAN, denied : SUBSET Addr,
   kept : BOOLEAN, saved : BOOLEAN]

ServersTyped == srv \in [Server -> ServerState]
KidsTyped == kid \in [Child -> ChildState]
Versions == \A v \in Server : srv[v].vfs <= vfsFile /\ srv[v].asked <= vfsFile

\* The line that DENYIP has written is in deny_list.cfg when it sends its signal.
Saved ==
  \A k \in Child : kid[k].pc = "hup" /\ kid[k].saved => kid[k].arg \in denyFile

TypeInv == TypeOK /\ Saved

\* The steps of one server, and those of one child and its client.
ServerStep(v) ==
  Load(v) \/ Main(v) \/ Accept(v) \/ Handler(v) \/ Reconfigure(v)

ChildStep(k) ==
  \/ ChildMain(k)
  \/ (\E a \in Addr : Fdenyip(k, a)) \/ Ffinish(k) \/ Leave(k)
  \/ TermChild(k) \/ StopChild(k)

LEMMA NextGroups ==
  Next <=> (\E v \in Server : ServerStep(v)) \/ (\E k \in Child : ChildStep(k))
  BY DEF Next, ServerStep, ChildStep

LEMMA TypeInvDef ==
  TypeInv <=> /\ ServersTyped /\ KidsTyped /\ Versions /\ Saved
              /\ pidFile \in Server \cup {NoServer} /\ denyFile \subseteq Addr
              /\ vfsFile \in 0..MaxEdits /\ arranged \subseteq denyFile
  BY DEF TypeInv, TypeOK, ServersTyped, KidsTyped, Versions

LEMMA TypeInvNext ==
  TypeInv' <=> /\ ServersTyped' /\ KidsTyped' /\ Versions' /\ Saved'
               /\ pidFile' \in Server \cup {NoServer} /\ denyFile' \subseteq Addr
               /\ vfsFile' \in 0..MaxEdits /\ arranged' \subseteq denyFile'
  BY DEF TypeInv, TypeOK, ServersTyped, KidsTyped, Versions

-----------------------------------------------------------------------------
(***************************************************************************)
(* What a step does to one server, and to one child.                       *)
(***************************************************************************)
LEMMA ServerFields ==
  ASSUME TypeInv, NEW v \in Server
  PROVE  /\ srv[v] \in ServerState /\ srv[v].pending \subseteq Signals
         /\ srv[v].vfs \in 0..MaxEdits /\ srv[v].asked \in 0..MaxEdits
         /\ srv[v].late \in 0..2 /\ srv[v].finish \in BOOLEAN
         /\ srv[v].vfs <= vfsFile /\ srv[v].asked <= vfsFile
  BY TypeInvDef DEF ServersTyped, ServerState, Versions, Signals

LEMMA LiveFields ==
  ASSUME TypeInv, NEW k \in Child, kid[k].pc \notin {"none", "zombie"}
  PROVE  /\ kid[k] \in LiveChild /\ kid[k].server \in Server /\ kid[k].addr \in Addr
         /\ kid[k].denied \subseteq Addr /\ kid[k].parent \in BOOLEAN
  BY TypeInvDef DEF KidsTyped, ChildState, LiveChild, NoChild, Zombie

LEMMA ServerUpdate ==
  ASSUME TypeInv, NEW v \in Server, NEW r \in ServerState, srv' = [srv EXCEPT ![v] = r],
         vfsFile' \in Nat, vfsFile <= vfsFile', r.vfs <= vfsFile', r.asked <= vfsFile'
  PROVE  ServersTyped' /\ Versions'
<1>1. ServersTyped'
  BY TypeInvDef DEF ServersTyped
<1>2. ASSUME NEW w \in Server PROVE srv'[w].vfs <= vfsFile' /\ srv'[w].asked <= vfsFile'
  <2>1. CASE w = v
    BY <2>1, TypeInvDef DEF ServersTyped
  <2>2. CASE w # v
    <3>1. srv'[w] = srv[w]
      BY <2>2, TypeInvDef DEF ServersTyped
    <3>2. vfsFile \in Nat
      BY TypeInvDef, EditAssumption
    <3> QED
      BY <3>1, <3>2, ServerFields, EditAssumption
  <2> QED
    BY <2>1, <2>2
<1> QED
  BY <1>1, <1>2 DEF Versions

LEMMA KidUpdate ==
  ASSUME TypeInv, NEW k \in Child, NEW r \in ChildState, kid' = [kid EXCEPT ![k] = r],
         denyFile \subseteq denyFile', r.pc = "hup" /\ r.saved => r.arg \in denyFile'
  PROVE  KidsTyped' /\ Saved'
  BY TypeInvDef DEF KidsTyped, Saved

\* main() goes on to another place.
LEMMA GoType ==
  ASSUME TypeInv, NEW v \in Server, UNCHANGED vfsFile,
         NEW l \in {"pid", "check", "accept", "reload", "fork", "konec"}, Go(v, l)
  PROVE  ServersTyped' /\ Versions'
<1> DEFINE r == [srv[v] EXCEPT !.pc = l]
<1>1. srv[v] \in ServerState
  BY ServerFields
<1>2. r \in ServerState
  BY <1>1 DEF ServerState
<1>3. r.vfs = srv[v].vfs /\ r.asked = srv[v].asked
  BY <1>1 DEF ServerState
<1>4. srv' = [srv EXCEPT ![v] = r]
  BY DEF Go
<1> HIDE DEF r
<1>5. r.vfs <= vfsFile' /\ r.asked <= vfsFile' /\ vfsFile' \in Nat /\ vfsFile <= vfsFile'
  BY <1>3, ServerFields, TypeInvDef, EditAssumption
<1> QED
  BY <1>2, <1>4, <1>5, ServerUpdate

LEMMA SignalledType ==
  ASSUME NEW s \in ServerState, NEW sig \in Signals
  PROVE  /\ Signalled(s, sig) \in ServerState
         /\ Signalled(s, sig).vfs = s.vfs /\ Signalled(s, sig).asked = s.asked
<1>1. CASE s.pc \in {"new", "ended"}
  BY <1>1 DEF Signalled
<1>2. CASE s.pc \notin {"new", "ended"}
  <2>1. Signalled(s, sig) = [s EXCEPT !.pending = @ \cup {sig}]
    BY <1>2 DEF Signalled
  <2>2. [s EXCEPT !.pending = @ \cup {sig}] \in ServerState
    BY DEF ServerState, Signals
  <2>3. [s EXCEPT !.pending = @ \cup {sig}].vfs = s.vfs
        /\ [s EXCEPT !.pending = @ \cup {sig}].asked = s.asked
    BY DEF ServerState
  <2> QED
    BY <2>1, <2>2, <2>3
<1> QED
  BY <1>1, <1>2

LEMMA SignalOne ==
  ASSUME TypeInv, NEW v \in Server, NEW sig \in Signals,
         srv' = [srv EXCEPT ![v] = Signalled(@, sig)], vfsFile' \in Nat, vfsFile <= vfsFile'
  PROVE  ServersTyped' /\ Versions'
<1>1. srv' = [srv EXCEPT ![v] = Signalled(srv[v], sig)]
  OBVIOUS
<1>2. Signalled(srv[v], sig) \in ServerState
  BY SignalledType, ServerFields
<1>3. Signalled(srv[v], sig).vfs = srv[v].vfs /\ Signalled(srv[v], sig).asked = srv[v].asked
  BY SignalledType, ServerFields
<1>4. Signalled(srv[v], sig).vfs <= vfsFile' /\ Signalled(srv[v], sig).asked <= vfsFile'
  BY <1>3, ServerFields, TypeInvDef, EditAssumption
<1> QED
  BY <1>1, <1>2, <1>4, ServerUpdate

LEMMA SignalType ==
  ASSUME TypeInv, NEW sig \in Signals, KillServer(sig), UNCHANGED vfsFile
  PROVE  ServersTyped' /\ Versions'
<1>1. ASSUME NEW v \in Server
      PROVE  /\ srv'[v] \in ServerState
             /\ srv'[v].vfs <= vfsFile' /\ srv'[v].asked <= vfsFile'
  <2>1. srv'[v] = IF v = pidFile THEN Signalled(srv[v], sig) ELSE srv[v]
    BY DEF KillServer
  <2> QED
    BY <2>1, ServerFields, SignalledType
<1>2. srv' = [v \in Server |-> srv'[v]]
  BY DEF KillServer
<1> QED
  BY <1>1, <1>2 DEF ServersTyped, Versions

LEMMA SameServers ==
  ASSUME TypeInv, UNCHANGED <<srv, vfsFile>> PROVE ServersTyped' /\ Versions'
  BY TypeInvDef DEF ServersTyped, Versions

\* The servers after a SIGHUP that v handles.
HeardOf(v, blind) ==
  [srv EXCEPT ![v].pending = @ \ {"HUP"}, ![v].reload = TRUE,
              ![v].asked = Asked(v), ![v].blind = blind,
              ![v].denied = Denied(v, blind)]

\* The servers after Load, likewise.
Loaded(v, blind) ==
  [srv EXCEPT ![v].pc = "bind", ![v].denied = Denied(v, blind),
              ![v].blind = blind, ![v].vfs = vfsFile, ![v].asked = vfsFile]

-----------------------------------------------------------------------------
(***************************************************************************)
(* Every step keeps the types of the servers.                              *)
(***************************************************************************)
LEMMA ServersStep == ASSUME TypeInv, Next PROVE ServersTyped' /\ Versions'
<1>1. ASSUME NEW v \in Server, ServerStep(v) PROVE ServersTyped' /\ Versions'
  <2> DEFINE s == srv[v]
  <2>a. s \in ServerState /\ vfsFile \in Nat /\ denyFile \subseteq Addr
    BY ServerFields, TypeInvDef, EditAssumption
  <2>b. s.vfs <= vfsFile /\ s.asked <= vfsFile /\ vfsFile \in 0..MaxEdits
    BY ServerFields, TypeInvDef
  <2>1. CASE Load(v)
    <3>00. PICK blind \in BOOLEAN : srv' = Loaded(v, blind)
      BY <2>1 DEF Load, Loaded
    <3> DEFINE d == Denied(v, blind)
    <3> DEFINE r == [s EXCEPT !.pc = "bind", !.denied = d, !.blind = blind,
                              !.vfs = vfsFile, !.asked = vfsFile]
    <3>1. srv' = [srv EXCEPT ![v] = r] /\ UNCHANGED vfsFile
      BY <2>1, <3>00 DEF Load, Loaded
    <3>0. d \in SUBSET Addr /\ blind \in BOOLEAN
      BY <2>a, TypeInvDef DEF Denied, ServerState
    <3> HIDE DEF d
    <3>2. r \in ServerState
      BY <2>a, <2>b, <3>0 DEF ServerState
    <3>3. r.vfs = vfsFile /\ r.asked = vfsFile
      BY <2>a DEF ServerState
    <3>9. r.vfs <= vfsFile' /\ r.asked <= vfsFile' /\ vfsFile' \in Nat
           /\ vfsFile <= vfsFile'
      BY <3>1, <3>2, <3>3, <2>a
    <3> HIDE DEF r
    <3> QED
      BY <3>1, <3>2, <3>3, <3>9, ServerUpdate
  <2>2. CASE Bind(v)
    BY <2>2, GoType DEF Bind
  <2>3. CASE WritePid(v)
    <3> DEFINE r == [s EXCEPT !.pc = "check", !.named = TRUE]
    <3>1. srv' = [srv EXCEPT ![v] = r] /\ UNCHANGED vfsFile
      BY <2>3 DEF WritePid
    <3>2. r \in ServerState
      BY <2>a DEF ServerState
    <3>3. r.vfs = s.vfs /\ r.asked = s.asked
      BY <2>a DEF ServerState
    <3>9. r.vfs <= vfsFile' /\ r.asked <= vfsFile' /\ vfsFile' \in Nat
           /\ vfsFile <= vfsFile'
      BY <3>1, <3>2, <3>3, <2>a, <2>b
    <3> HIDE DEF r
    <3> QED
      BY <3>1, <3>2, <3>3, <3>9, ServerUpdate
  <2>4. CASE CheckFinish(v)
    <3>1. CASE s.finish
      BY <2>4, <3>1, GoType DEF CheckFinish
    <3>2. CASE ~s.finish
      BY <2>4, <3>2, GoType DEF CheckFinish
    <3> QED
      BY <3>1, <3>2
  <2>5. CASE Reload(v)
    <3>1. CASE Go(v, "fork")
      BY <2>5, <3>1, GoType DEF Reload
    <3>2. CASE srv' = [srv EXCEPT ![v].vfs = vfsFile, ![v].pc = "clear"]
      <4> DEFINE r == [s EXCEPT !.vfs = vfsFile, !.pc = "clear"]
      <4>1. srv' = [srv EXCEPT ![v] = r] /\ UNCHANGED vfsFile
        BY <2>5, <3>2, <2>a DEF Reload
      <4>2. r \in ServerState
        BY <2>a, <2>b DEF ServerState
      <4>3. r.vfs = vfsFile /\ r.asked = s.asked
        BY <2>a DEF ServerState
      <4>9. r.vfs <= vfsFile' /\ r.asked <= vfsFile' /\ vfsFile' \in Nat
             /\ vfsFile <= vfsFile'
        BY <4>1, <4>2, <4>3, <2>a, <2>b
      <4> HIDE DEF r
      <4> QED
        BY <4>1, <4>2, <4>3, <4>9, ServerUpdate
    <3> QED
      BY <2>5, <3>1, <3>2 DEF Reload
  <2>6. CASE ClearReload(v)
    <3> DEFINE r == [s EXCEPT !.reload = FALSE, !.pc = "fork"]
    <3>1. srv' = [srv EXCEPT ![v] = r] /\ UNCHANGED vfsFile
      BY <2>6 DEF ClearReload
    <3>2. r \in ServerState
      BY <2>a DEF ServerState
    <3>3. r.vfs = s.vfs /\ r.asked = s.asked
      BY <2>a DEF ServerState
    <3>9. r.vfs <= vfsFile' /\ r.asked <= vfsFile' /\ vfsFile' \in Nat
           /\ vfsFile <= vfsFile'
      BY <3>1, <3>2, <3>3, <2>a, <2>b
    <3> HIDE DEF r
    <3> QED
      BY <3>1, <3>2, <3>3, <3>9, ServerUpdate
  <2>7. ASSUME NEW k \in Child, NEW a \in Addr, Fork(v, k, a) PROVE ServersTyped' /\ Versions'
    <3> DEFINE n == IF s.finish /\ s.late < 2 THEN s.late + 1 ELSE s.late
    <3> DEFINE r == [s EXCEPT !.pc = "check", !.late = n]
    <3>1. n \in 0..2
      BY ServerFields
    <3>2. srv' = [srv EXCEPT ![v] = r] /\ UNCHANGED vfsFile
      BY <2>7, <2>a DEF Fork, ServerState
    <3> HIDE DEF n
    <3>3. r \in ServerState
      BY <2>a, <3>1 DEF ServerState
    <3>4. r.vfs = s.vfs /\ r.asked = s.asked
      BY <2>a DEF ServerState
    <3>9. r.vfs <= vfsFile' /\ r.asked <= vfsFile' /\ vfsFile' \in Nat
           /\ vfsFile <= vfsFile'
      BY <3>2, <3>3, <3>4, <2>a, <2>b
    <3> HIDE DEF r
    <3> QED
      BY <3>2, <3>3, <3>4, <3>9, ServerUpdate
  <2>8. CASE SystemFails(v) \/ PidFails(v)
    BY <2>8, GoType DEF SystemFails, PidFails
  <2>9. CASE Konec(v)
    <3> DEFINE r == [NewServer EXCEPT !.pc = "ended", !.late = s.late, !.finish = s.finish]
    <3>1. srv' = [srv EXCEPT ![v] = r] /\ UNCHANGED vfsFile
      BY <2>9 DEF Konec
    <3>2. r \in ServerState
      <4>1. NewServer \in ServerState
        BY EditAssumption DEF NewServer, ServerState
      <4>2. s.late \in 0..2 /\ s.finish \in BOOLEAN
        BY ServerFields
      <4> QED
        BY <4>1, <4>2 DEF ServerState
    <3>3. r.vfs = 0 /\ r.asked = 0
      BY DEF NewServer
    <3>9. r.vfs <= vfsFile' /\ r.asked <= vfsFile' /\ vfsFile' \in Nat
           /\ vfsFile <= vfsFile'
      BY <3>1, <3>2, <3>3, <2>a
    <3> HIDE DEF r
    <3> QED
      BY <3>1, <3>2, <3>3, <3>9, ServerUpdate
  <2>10. CASE Accept(v)
    BY <2>10, GoType DEF Accept
  <2>11. CASE HUPHandler(v)
    <3>00. PICK blind \in BOOLEAN : srv' = HeardOf(v, blind)
      BY <2>11 DEF HUPHandler, HeardOf
    <3> DEFINE d == Denied(v, blind)
    <3> DEFINE r == [s EXCEPT !.pending = @ \ {"HUP"}, !.reload = TRUE,
                              !.asked = Asked(v), !.blind = blind, !.denied = d]
    <3>01. Asked(v) \in 0..MaxEdits /\ Asked(v) <= vfsFile
      BY <2>a, <2>b, ServerFields DEF Asked, ServerState
    <3>03. s.denied \in SUBSET Addr
      BY <2>a DEF ServerState
    <3>04. d \in SUBSET Addr
      BY <3>03, <2>a, TypeInvDef DEF Denied
    <3>0. /\ Asked(v) \in 0..MaxEdits /\ Asked(v) <= vfsFile
          /\ blind \in BOOLEAN /\ d \in SUBSET Addr
      BY <3>01, <3>04
    <3>1. srv' = [srv EXCEPT ![v] = r] /\ UNCHANGED vfsFile
      BY <2>11, <3>00 DEF HUPHandler, HeardOf
    <3> HIDE DEF d
    <3>2. r \in ServerState
      BY <2>a, <3>0 DEF ServerState
    <3>3. r.vfs = s.vfs /\ r.asked = Asked(v)
      BY <2>a DEF ServerState
    <3>9. r.vfs <= vfsFile' /\ r.asked <= vfsFile' /\ vfsFile' \in Nat
           /\ vfsFile <= vfsFile'
      BY <3>0, <3>1, <3>2, <3>3, <2>a, <2>b
    <3> HIDE DEF r
    <3> QED
      BY <3>0, <3>1, <3>2, <3>3, <3>9, ServerUpdate
  <2>12. CASE TermHandler(v)
    <3> DEFINE r == [s EXCEPT !.pending = @ \ {"TERM"}, !.finish = TRUE]
    <3>1. srv' = [srv EXCEPT ![v] = r] /\ UNCHANGED vfsFile
      BY <2>12 DEF TermHandler
    <3>2. r \in ServerState
      BY <2>a DEF ServerState
    <3>3. r.vfs = s.vfs /\ r.asked = s.asked
      BY <2>a DEF ServerState
    <3>9. r.vfs <= vfsFile' /\ r.asked <= vfsFile' /\ vfsFile' \in Nat
           /\ vfsFile <= vfsFile'
      BY <3>1, <3>2, <3>3, <2>a, <2>b
    <3> HIDE DEF r
    <3> QED
      BY <3>1, <3>2, <3>3, <3>9, ServerUpdate
  <2>13. CASE ReapChild(v)
    <3> DEFINE r == [s EXCEPT !.pending = @ \ {"CHLD"}, !.reaping = TRUE]
    <3>1. srv' = [srv EXCEPT ![v] = r] /\ UNCHANGED vfsFile
      BY <2>13 DEF ReapChild
    <3>2. r \in ServerState
      BY <2>a DEF ServerState
    <3>3. r.vfs = s.vfs /\ r.asked = s.asked
      BY <2>a DEF ServerState
    <3>9. r.vfs <= vfsFile' /\ r.asked <= vfsFile' /\ vfsFile' \in Nat
           /\ vfsFile <= vfsFile'
      BY <3>1, <3>2, <3>3, <2>a, <2>b
    <3> HIDE DEF r
    <3> QED
      BY <3>1, <3>2, <3>3, <3>9, ServerUpdate
  <2>14. CASE WaitReturns(v)
    <3> DEFINE r == [s EXCEPT !.reaping = FALSE]
    <3>1. srv' = [srv EXCEPT ![v] = r] /\ UNCHANGED vfsFile
      BY <2>14 DEF WaitReturns
    <3>2. r \in ServerState
      BY <2>a DEF ServerState
    <3>3. r.vfs = s.vfs /\ r.asked = s.asked
      BY <2>a DEF ServerState
    <3>9. r.vfs <= vfsFile' /\ r.asked <= vfsFile' /\ vfsFile' \in Nat
           /\ vfsFile <= vfsFile'
      BY <3>1, <3>2, <3>3, <2>a, <2>b
    <3> HIDE DEF r
    <3> QED
      BY <3>1, <3>2, <3>3, <3>9, ServerUpdate
  <2>15. CASE Reconfigure(v)
    <3>1. vfsFile' \in Nat /\ vfsFile <= vfsFile'
      BY <2>15, <2>a DEF Reconfigure
    <3> QED
      BY <2>15, <3>1, SignalOne DEF Reconfigure, Signals
  <2> HIDE DEF s
  <2> QED
    BY <1>1, <2>1, <2>2, <2>3, <2>4, <2>5, <2>6, <2>7, <2>8, <2>9, <2>10, <2>11, <2>12,
       <2>13, <2>14, <2>15 DEF ServerStep, Main, Handler
<1>2. ASSUME NEW k \in Child, ChildStep(k) PROVE ServersTyped' /\ Versions'
  <2>1. CASE BecomeChild(k) \/ CheckIP(k) \/ (\E a \in Addr : Fdenyip(k, a)) \/ Leave(k)
             \/ TermChild(k)
    BY <2>1, SameServers DEF BecomeChild, CheckIP, Fdenyip, Leave, TermChild
  <2>2. CASE DenyipSignal(k)
    BY <2>2, SignalType DEF DenyipSignal, Signals
  <2>3. CASE Ffinish(k)
    BY <2>3, SignalType DEF Ffinish, Signals
  <2>4. CASE Exit(k)
    <3> DEFINE v == kid[k].server
    <3>1. v \in Server
      BY <2>4, LiveFields DEF Exit
    <3>2. srv' = [srv EXCEPT ![v] = Signalled(@, "CHLD")]
      BY <2>4 DEF Exit
    <3>3. vfsFile' \in Nat /\ vfsFile <= vfsFile'
      BY <2>4, TypeInvDef, EditAssumption DEF Exit
    <3> HIDE DEF v
    <3> QED
      BY <3>1, <3>2, <3>3, SignalOne DEF Signals
  <2>5. CASE StopChild(k)
    <3> DEFINE v == kid[k].server
    <3>1. v \in Server
      BY <2>5, LiveFields DEF StopChild
    <3>2. srv' = [srv EXCEPT ![v] = Signalled(@, "CHLD")]
      BY <2>5 DEF StopChild
    <3>3. vfsFile' \in Nat /\ vfsFile <= vfsFile'
      BY <2>5, TypeInvDef, EditAssumption DEF StopChild
    <3> HIDE DEF v
    <3> QED
      BY <3>1, <3>2, <3>3, SignalOne DEF Signals
  <2> QED
    BY <1>2, <2>1, <2>2, <2>3, <2>4, <2>5 DEF ChildStep, ChildMain
<1> QED
  BY <1>1, <1>2, NextGroups

-----------------------------------------------------------------------------
(***************************************************************************)
(* Every step keeps the types of the children.                             *)
(***************************************************************************)
LEMMA ChildStates ==
  /\ LiveChild \subseteq ChildState /\ NoChild \in ChildState
  /\ \A v \in Server : Zombie(v) \in ChildState
  BY DEF LiveChild, ChildState

LEMMA SameKids ==
  ASSUME TypeInv, UNCHANGED kid, denyFile \subseteq denyFile' PROVE KidsTyped' /\ Saved'
  BY TypeInvDef DEF KidsTyped, Saved

\* A child that lives and is not about to signal the server.
LEMMA LiveUpdate ==
  ASSUME TypeInv, NEW k \in Child, NEW r \in LiveChild, kid' = [kid EXCEPT ![k] = r],
         denyFile \subseteq denyFile', r.pc = "hup" /\ r.saved => r.arg \in denyFile'
  PROVE  KidsTyped' /\ Saved'
  BY ChildStates, KidUpdate

LEMMA KidsStep == ASSUME TypeInv, Next PROVE KidsTyped' /\ Saved'
<1>1. ASSUME NEW v \in Server, ServerStep(v) PROVE KidsTyped' /\ Saved'
  <2>1. CASE Load(v) \/ Bind(v) \/ WritePid(v) \/ CheckFinish(v) \/ Reload(v) \/ ClearReload(v)
             \/ SystemFails(v) \/ Accept(v) \/ HUPHandler(v) \/ TermHandler(v) \/ ReapChild(v)
             \/ Reconfigure(v) \/ PidFails(v)
    BY <2>1, SameKids DEF Load, Bind, WritePid, PidFails, CheckFinish, Reload, ClearReload, SystemFails,
       Accept, HUPHandler, TermHandler, ReapChild, Reconfigure
  <2>2. ASSUME NEW k \in Child, NEW a \in Addr, Fork(v, k, a) PROVE KidsTyped' /\ Saved'
    <3> DEFINE r == [pc |-> "born", server |-> v, addr |-> a, arg |-> a, parent |-> TRUE,
                     run |-> TRUE, denied |-> srv[v].denied,
                     kept |-> a \in arranged /\ ~srv[v].blind, saved |-> FALSE]
    <3>1. kid' = [kid EXCEPT ![k] = r] /\ UNCHANGED denyFile
      BY <2>2 DEF Fork
    <3>2. /\ srv[v].denied \in SUBSET Addr
          /\ (a \in arranged /\ ~srv[v].blind) \in BOOLEAN
      BY ServerFields DEF ServerState
    <3>3. r \in LiveChild
      BY <3>2 DEF LiveChild
    <3>4. r.pc = "born"
      OBVIOUS
    <3> HIDE DEF r
    <3> QED
      BY <3>1, <3>3, <3>4, LiveUpdate
  <2>3. CASE Konec(v)
    <3>1. kid' = [k \in Child |-> IF k \in Zombies(v) THEN NoChild ELSE kid[k]]
          /\ UNCHANGED denyFile
      BY <2>3 DEF Konec
    <3>2. NoChild.pc # "hup"
      BY DEF NoChild
    <3> QED
      BY <3>1, <3>2, ChildStates, TypeInvDef DEF KidsTyped, Saved
  <2>4. CASE WaitReturns(v)
    <3>1. ASSUME NEW k \in Zombies(v), kid' = [kid EXCEPT ![k] = NoChild]
          PROVE  KidsTyped' /\ Saved'
      <4>1. NoChild.pc # "hup" /\ k \in Child
        BY DEF NoChild, Zombies
      <4> QED
        BY <2>4, <3>1, <4>1, ChildStates, KidUpdate DEF WaitReturns
    <3>2. CASE UNCHANGED kid
      BY <2>4, <3>2, SameKids DEF WaitReturns
    <3> QED
      BY <2>4, <3>1, <3>2 DEF WaitReturns
  <2> QED
    BY <1>1, <2>1, <2>2, <2>3, <2>4 DEF ServerStep, Main, Handler
<1>2. ASSUME NEW k \in Child, ChildStep(k) PROVE KidsTyped' /\ Saved'
  <2> DEFINE s == kid[k]
  <2>1. CASE StopChild(k)
    BY <2>1, SameKids DEF StopChild
  <2>2. CASE BecomeChild(k)
    <3> DEFINE r == [s EXCEPT !.parent = FALSE, !.pc = "check"]
    <3>1. kid' = [kid EXCEPT ![k] = r] /\ UNCHANGED denyFile
      BY <2>2 DEF BecomeChild
    <3>2. s \in LiveChild
      BY <2>2, LiveFields DEF BecomeChild
    <3>3. r \in LiveChild /\ r.pc = "check"
      BY <3>2 DEF LiveChild
    <3> HIDE DEF r
    <3> QED
      BY <3>1, <3>3, LiveUpdate
  <2>3. ASSUME s \in LiveChild, NEW l \in {"serve", "exit"}, UNCHANGED denyFile,
               kid' = [kid EXCEPT ![k].pc = l]
        PROVE  KidsTyped' /\ Saved'
    <3> DEFINE r == [s EXCEPT !.pc = l]
    <3>1. kid' = [kid EXCEPT ![k] = r]
      BY <2>3
    <3>2. r \in LiveChild /\ r.pc = l
      BY <2>3 DEF LiveChild
    <3> HIDE DEF r
    <3> QED
      BY <2>3, <3>1, <3>2, LiveUpdate
  <2>4. CASE CheckIP(k)
    <3>1. s \in LiveChild
      BY <2>4, LiveFields DEF CheckIP
    <3>2. CASE s.addr \in s.denied
      BY <2>4, <3>1, <3>2, <2>3 DEF CheckIP
    <3>3. CASE s.addr \notin s.denied
      BY <2>4, <3>1, <3>3, <2>3 DEF CheckIP
    <3> QED
      BY <3>2, <3>3
  <2>5. ASSUME NEW a \in Addr, Fdenyip(k, a) PROVE KidsTyped' /\ Saved'
    <3>0. PICK lost \in BOOLEAN :
            /\ denyFile' = IF lost THEN denyFile ELSE denyFile \cup {a}
            /\ kid' = [kid EXCEPT ![k].denied = @ \cup {a}, ![k].arg = a,
                                  ![k].saved = ~lost, ![k].pc = "hup"]
      BY <2>5 DEF Fdenyip
    <3> DEFINE r == [s EXCEPT !.denied = @ \cup {a}, !.arg = a, !.saved = ~lost,
                              !.pc = "hup"]
    <3>1. kid' = [kid EXCEPT ![k] = r]
      BY <3>0
    <3>2. s \in LiveChild
      BY <2>5, LiveFields DEF Fdenyip
    <3>3. r \in LiveChild /\ r.arg = a /\ r.saved = ~lost
      BY <3>2 DEF LiveChild
    <3> HIDE DEF r
    <3> QED
      BY <3>0, <3>1, <3>3, LiveUpdate
  <2>6. NextRequest(k) \in {"serve", "exit"}
    BY DEF NextRequest
  <2>7. CASE DenyipSignal(k)
    <3> DEFINE r == [s EXCEPT !.pc = NextRequest(k), !.saved = FALSE]
    <3>1. s \in LiveChild
      BY <2>7, LiveFields DEF DenyipSignal
    <3>2. kid' = [kid EXCEPT ![k] = r] /\ UNCHANGED denyFile
      BY <2>7 DEF DenyipSignal
    <3>3. r \in LiveChild /\ r.pc # "hup"
      BY <2>6, <3>1 DEF LiveChild
    <3> HIDE DEF r
    <3> QED
      BY <3>2, <3>3, LiveUpdate
  <2>8. CASE Ffinish(k)
    <3>1. s \in LiveChild
      BY <2>8, LiveFields DEF Ffinish
    <3> QED
      BY <2>3, <2>6, <2>8, <3>1 DEF Ffinish
  <2>9. CASE Leave(k)
    <3>1. s \in LiveChild
      BY <2>9, LiveFields DEF Leave
    <3> QED
      BY <2>3, <2>9, <3>1 DEF Leave
  <2>10. CASE Exit(k)
    <3> DEFINE r == IF Up(s.server) THEN Zombie(s.server) ELSE NoChild
    <3>1. s.server \in Server
      BY <2>10, LiveFields DEF Exit
    <3>2. kid' = [kid EXCEPT ![k] = r] /\ UNCHANGED denyFile
      BY <2>10 DEF Exit
    <3>3. r \in ChildState
      BY <3>1, ChildStates
    <3>4. r.pc # "hup"
      BY DEF Zombie, NoChild
    <3> HIDE DEF r
    <3> QED
      BY <3>2, <3>3, <3>4, KidUpdate
  <2>11. CASE TermChild(k)
    <3>1. CASE UNCHANGED kid
      BY <2>11, <3>1, SameKids DEF TermChild
    <3>2. CASE kid' = [kid EXCEPT ![k].run = FALSE]
      <4> DEFINE r == [s EXCEPT !.run = FALSE]
      <4>1. kid' = [kid EXCEPT ![k] = r] /\ UNCHANGED denyFile
        BY <2>11, <3>2 DEF TermChild
      <4>2. s \in LiveChild
        BY <2>11, LiveFields DEF TermChild
      <4>3. r \in LiveChild /\ r.pc = s.pc /\ r.arg = s.arg /\ r.saved = s.saved
        BY <4>2 DEF LiveChild
      <4>4. s.pc = "hup" /\ s.saved => s.arg \in denyFile
        BY TypeInvDef DEF Saved
      <4> HIDE DEF r
      <4> QED
        BY <4>1, <4>3, <4>4, LiveUpdate
    <3> QED
      BY <2>11, <3>1, <3>2 DEF TermChild
  <2> HIDE DEF s
  <2> QED
    BY <1>2, <2>1, <2>2, <2>4, <2>5, <2>7, <2>8, <2>9, <2>10, <2>11 DEF ChildStep, ChildMain
<1> QED
  BY <1>1, <1>2, NextGroups

-----------------------------------------------------------------------------
(***************************************************************************)
(* Type correctness.                                                       *)
(***************************************************************************)
FilesTyped ==
  /\ pidFile \in Server \cup {NoServer} /\ denyFile \subseteq Addr
  /\ vfsFile \in 0..MaxEdits /\ arranged \subseteq denyFile

LEMMA FilesStep == ASSUME TypeInv, Next PROVE FilesTyped'
<1>1. FilesTyped
  BY TypeInvDef DEF FilesTyped
<1>2. ASSUME NEW v \in Server, ServerStep(v) PROVE FilesTyped'
  <2>1. CASE Main(v) \/ Handler(v)
    BY <1>1, <2>1 DEF FilesTyped, Main, Handler, Bind, WritePid, PidFails, CheckFinish, Reload,
       ClearReload, Fork, SystemFails, Konec, HUPHandler, TermHandler, ReapChild, WaitReturns
  <2>2. CASE Load(v) \/ Accept(v)
    BY <1>1, <2>2 DEF FilesTyped, Load, Accept
  <2>3. CASE Reconfigure(v)
    BY <1>1, <2>3, EditAssumption DEF FilesTyped, Reconfigure
  <2> QED
    BY <1>2, <2>1, <2>2, <2>3 DEF ServerStep
<1>3. ASSUME NEW k \in Child, ChildStep(k) PROVE FilesTyped'
  <2>1. CASE DenyipSignal(k)
    <3>1. kid[k].saved => kid[k].arg \in denyFile
      BY <2>1, TypeInvDef DEF DenyipSignal, Saved
    <3>2. kid[k].arg \in Addr
      BY <2>1, LiveFields DEF DenyipSignal, LiveChild
    <3> QED
      BY <1>1, <2>1, <3>1, <3>2 DEF FilesTyped, DenyipSignal
  <2>2. CASE \E a \in Addr : Fdenyip(k, a)
    BY <1>1, <2>2 DEF FilesTyped, Fdenyip
  <2>3. CASE BecomeChild(k) \/ CheckIP(k) \/ Exit(k) \/ Ffinish(k) \/ Leave(k) \/ TermChild(k)
             \/ StopChild(k)
    BY <1>1, <2>3 DEF FilesTyped, BecomeChild, CheckIP, Exit, Ffinish, Leave, TermChild,
       StopChild
  <2> QED
    BY <1>3, <2>1, <2>2, <2>3 DEF ChildStep, ChildMain
<1> QED
  BY <1>2, <1>3, NextGroups

LEMMA TypeStep == ASSUME TypeInv, [Next]_vars PROVE TypeInv'
<1>1. CASE Next
  BY <1>1, ServersStep, KidsStep, FilesStep, TypeInvNext DEF FilesTyped
<1>2. CASE UNCHANGED vars
  BY <1>2, TypeInvDef, TypeInvNext DEF vars, ServersTyped, KidsTyped, Versions, Saved
<1> QED
  BY <1>1, <1>2

LEMMA TypeInit == ASSUME Init PROVE TypeInv
<1>1. NewServer \in ServerState /\ NewServer.vfs = 0 /\ NewServer.asked = 0
  BY EditAssumption DEF NewServer, ServerState
<1>2. ServersTyped /\ Versions
  BY <1>1 DEF Init, ServersTyped, Versions
<1>3. NoChild.pc # "hup"
  BY DEF NoChild
<1>4. KidsTyped /\ Saved
  BY <1>3, ChildStates DEF Init, KidsTyped, Saved
<1> QED
  BY <1>2, <1>4, TypeInvDef, EditAssumption DEF Init

LEMMA TypeInvariant == Spec => []TypeInv
  BY TypeInit, TypeStep, PTL DEF Spec

\* Every variable has its type, no server has read a version of vfs.cfg that is not
\* there yet, and every line that DENYIP has written without an error is in deny_list.cfg
\* (smallFTPd.cpp main(), signaly.cpp, ftpcommands.cpp Fdenyip).
THEOREM TypeCorrect == Spec => []TypeOK
<1>1. TypeInv => TypeOK
  BY DEF TypeInv
<1> QED
  BY <1>1, TypeInvariant, PTL

-----------------------------------------------------------------------------
(***************************************************************************)
(* A server changes by its own steps, and by signals.                      *)
(***************************************************************************)
OwnStep(v) == Load(v) \/ Main(v) \/ Accept(v) \/ Handler(v)

LEMMA OthersKept ==
  ASSUME TypeInv, NEW v \in Server, NEW w \in Server, OwnStep(v), w # v
  PROVE  srv'[w] = srv[w]
<1>0. srv \in [Server -> ServerState]
  BY TypeInvDef DEF ServersTyped
<1>1. CASE Load(v) \/ Accept(v)
  BY <1>0, <1>1 DEF Load, Accept, Go
<1>2. CASE Main(v)
  <2>1. ASSUME NEW l, Go(v, l) PROVE srv'[w] = srv[w]
    BY <1>0, <2>1 DEF Go
  <2>2. CASE Bind(v) \/ PidFails(v) \/ CheckFinish(v) \/ SystemFails(v)
    BY <2>1, <2>2 DEF Bind, PidFails, CheckFinish, SystemFails
  <2>3. CASE WritePid(v) \/ Reload(v) \/ ClearReload(v)
    BY <1>0, <2>1, <2>3 DEF WritePid, Reload, ClearReload
  <2>4. CASE \E k \in Child, a \in Addr : Fork(v, k, a)
    BY <1>0, <2>4 DEF Fork
  <2>5. CASE Konec(v)
    BY <1>0, <2>5 DEF Konec
  <2> QED
    BY <1>2, <2>2, <2>3, <2>4, <2>5 DEF Main
<1>3. CASE Handler(v)
  BY <1>0, <1>3 DEF Handler, HUPHandler, TermHandler, ReapChild, WaitReturns
<1> QED
  BY <1>1, <1>2, <1>3 DEF OwnStep

LEMMA ServerChanges ==
  ASSUME TypeInv, Next, NEW v \in Server
  PROVE  \/ OwnStep(v) \/ srv'[v] = srv[v]
         \/ \E sig \in Signals : srv'[v] = Signalled(srv[v], sig)
<1>0. srv \in [Server -> ServerState]
  BY TypeInvDef DEF ServersTyped
<1>1. ASSUME NEW w \in Server, ServerStep(w)
      PROVE  \/ OwnStep(v) \/ srv'[v] = srv[v]
             \/ \E sig \in Signals : srv'[v] = Signalled(srv[v], sig)
  <2>1. CASE Reconfigure(w)
    <3>1. srv' = [srv EXCEPT ![w] = Signalled(srv[w], "HUP")]
      BY <2>1 DEF Reconfigure
    <3> QED
      BY <1>0, <3>1 DEF Signals
  <2>2. CASE OwnStep(w)
    BY <2>2, OthersKept
  <2> QED
    BY <1>1, <2>1, <2>2 DEF ServerStep, OwnStep
<1>2. ASSUME NEW k \in Child, ChildStep(k)
      PROVE  srv'[v] = srv[v] \/ \E sig \in Signals : srv'[v] = Signalled(srv[v], sig)
  <2>1. CASE BecomeChild(k) \/ CheckIP(k) \/ (\E a \in Addr : Fdenyip(k, a)) \/ Leave(k)
             \/ TermChild(k)
    BY <2>1 DEF BecomeChild, CheckIP, Fdenyip, Leave, TermChild
  <2>2. CASE DenyipSignal(k) \/ Ffinish(k)
    BY <2>2 DEF DenyipSignal, Ffinish, KillServer, Signals
  <2>3. CASE Exit(k) \/ StopChild(k)
    <3> DEFINE w == kid[k].server
    <3>1. srv' = [srv EXCEPT ![w] = Signalled(srv[w], "CHLD")]
      BY <2>3 DEF Exit, StopChild
    <3> HIDE DEF w
    <3> QED
      BY <1>0, <3>1 DEF Signals
  <2> QED
    BY <1>2, <2>1, <2>2, <2>3 DEF ChildStep, ChildMain
<1> QED
  BY <1>1, <1>2, NextGroups

\* A signal that arrives changes what is pending, and nothing else.
LEMMA SignalledFields ==
  ASSUME NEW s \in ServerState, NEW sig \in Signals
  PROVE  LET t == Signalled(s, sig) IN
         /\ t.pc = s.pc /\ t.finish = s.finish /\ t.reload = s.reload /\ t.late = s.late
         /\ t.vfs = s.vfs /\ t.asked = s.asked /\ t.denied = s.denied
         /\ t.reaping = s.reaping /\ t.named = s.named /\ t.blind = s.blind
         /\ s.pending \subseteq t.pending
         /\ t.pending \subseteq s.pending \cup {sig}
<1>1. CASE s.pc \in {"new", "ended"}
  BY <1>1 DEF Signalled
<1>2. CASE s.pc \notin {"new", "ended"}
  <2> DEFINE t == [s EXCEPT !.pending = @ \cup {sig}]
  <2>1. Signalled(s, sig) = t
    BY <1>2 DEF Signalled
  <2>2. /\ t.pc = s.pc /\ t.finish = s.finish /\ t.reload = s.reload /\ t.late = s.late
        /\ t.vfs = s.vfs /\ t.asked = s.asked /\ t.denied = s.denied
        /\ t.reaping = s.reaping /\ t.named = s.named /\ t.blind = s.blind
        /\ t.pending = s.pending \cup {sig}
    BY DEF ServerState
  <2> QED
    BY <2>1, <2>2
<1> QED
  BY <1>1, <1>2

-----------------------------------------------------------------------------
(***************************************************************************)
(* No reload of vfs.cfg is forgotten, and one late client is all.          *)
(***************************************************************************)
Remembers(s) ==
  /\ s.pc = "clear" => s.asked <= s.vfs
  /\ s.vfs < s.asked => s.reload

\* A server that was told to finish can only be at the check of the loop, or on its way
\* out, when it took a client since.
Finishes(s) ==
  /\ s.late <= 1
  /\ s.late # 0 => s.finish /\ s.pc \in {"check", "konec", "ended"}

LoopInv == \A v \in Server : Remembers(srv[v]) /\ Finishes(srv[v])

LEMMA OwnStepLoop ==
  ASSUME TypeInv, NEW v \in Server, Remembers(srv[v]), Finishes(srv[v]), OwnStep(v)
  PROVE  Remembers(srv'[v]) /\ Finishes(srv'[v])
<1> DEFINE s == srv[v]
<1> USE DEF Remembers, Finishes
<1>1. s \in ServerState /\ srv \in [Server -> ServerState]
  BY ServerFields, TypeInvDef DEF ServersTyped
<1>2. s.vfs \in Nat /\ s.asked \in Nat /\ s.late \in 0..2 /\ s.asked <= vfsFile /\ vfsFile \in Nat
  BY ServerFields, TypeInvDef, EditAssumption
<1>3. ASSUME NEW l \in {"pid", "check", "accept", "reload", "fork", "konec"}, Go(v, l),
             s.late # 0 => l \in {"check", "konec"}
      PROVE  Remembers(srv'[v]) /\ Finishes(srv'[v])
  <2>1. srv'[v] = [s EXCEPT !.pc = l]
    BY <1>1, <1>3 DEF Go
  <2> QED
    BY <1>1, <1>2, <1>3, <2>1 DEF ServerState
<1>4. CASE Load(v)
  <2>1. /\ srv'[v].pc = "bind" /\ srv'[v].vfs = vfsFile /\ srv'[v].asked = vfsFile
        /\ srv'[v].late = s.late /\ s.pc = "new"
    BY <1>1, <1>4 DEF Load, ServerState
  <2> QED
    BY <1>2, <2>1
<1>5. CASE Bind(v) \/ PidFails(v) \/ Accept(v) \/ SystemFails(v)
  BY <1>3, <1>5 DEF Bind, PidFails, Accept, SystemFails, At
<1>14. CASE WritePid(v)
  <2>1. /\ srv'[v].pc = "check" /\ srv'[v].vfs = s.vfs /\ srv'[v].asked = s.asked
        /\ srv'[v].late = s.late /\ s.pc = "pid"
    BY <1>1, <1>14 DEF WritePid, ServerState, At
  <2>2. srv'[v].reload = s.reload /\ srv'[v].finish = s.finish
    BY <1>1, <1>14 DEF WritePid, ServerState
  <2> QED
    BY <1>2, <2>1, <2>2
<1>6. CASE CheckFinish(v)
  <2>1. CASE s.finish
    BY <1>3, <1>6, <2>1 DEF CheckFinish
  <2>2. CASE ~s.finish
    BY <1>3, <1>6, <2>2 DEF CheckFinish
  <2> QED
    BY <2>1, <2>2
<1>7. CASE Reload(v)
  <2>1. CASE s.reload
    <3>1. /\ srv'[v].pc = "clear" /\ srv'[v].vfs = vfsFile /\ srv'[v].asked = s.asked
          /\ srv'[v].late = s.late /\ s.pc = "reload"
      BY <1>1, <1>7, <2>1 DEF Reload, ServerState, At
    <3> QED
      BY <1>2, <3>1
  <2>2. CASE ~s.reload
    BY <1>3, <1>7, <2>2 DEF Reload, At
  <2> QED
    BY <2>1, <2>2
<1>8. CASE ClearReload(v)
  <2>1. /\ srv'[v].pc = "fork" /\ srv'[v].vfs = s.vfs /\ srv'[v].asked = s.asked
        /\ srv'[v].late = s.late /\ s.pc = "clear"
    BY <1>1, <1>8 DEF ClearReload, ServerState, At
  <2> QED
    BY <1>2, <2>1
<1>9. ASSUME NEW k \in Child, NEW a \in Addr, Fork(v, k, a)
      PROVE  Remembers(srv'[v]) /\ Finishes(srv'[v])
  <2>1. s.late = 0 /\ s.pc = "fork"
    BY <1>9 DEF Fork, At
  <2>2. /\ srv'[v].pc = "check" /\ srv'[v].vfs = s.vfs /\ srv'[v].asked = s.asked
        /\ srv'[v].late = IF s.finish /\ s.late < 2 THEN s.late + 1 ELSE s.late
    BY <1>1, <1>9 DEF Fork, ServerState
  <2>3. srv'[v].reload = s.reload /\ srv'[v].finish = s.finish
    BY <1>1, <1>9, Zenon DEF Fork, ServerState
  <2>4. CASE s.finish
    BY <1>2, <2>1, <2>2, <2>3, <2>4
  <2>5. CASE ~s.finish
    BY <1>2, <2>1, <2>2, <2>3, <2>5
  <2> QED
    BY <2>4, <2>5
<1>10. CASE Konec(v)
  <2> DEFINE r == [NewServer EXCEPT !.pc = "ended", !.late = s.late, !.finish = s.finish]
  <2>1. srv'[v] = r
    BY <1>1, <1>10 DEF Konec
  <2>2. r.pc = "ended" /\ r.vfs = 0 /\ r.asked = 0 /\ r.late = s.late /\ r.finish = s.finish
    BY DEF NewServer
  <2> HIDE DEF r
  <2> QED
    BY <1>2, <2>1, <2>2
<1>11. CASE HUPHandler(v)
  <2>1. /\ srv'[v].pc = s.pc /\ srv'[v].vfs = s.vfs /\ srv'[v].late = s.late
        /\ srv'[v].asked = Asked(v)
    BY <1>1, <1>11 DEF HUPHandler, ServerState
  <2>2. srv'[v].reload /\ srv'[v].finish = s.finish
    BY <1>1, <1>11 DEF HUPHandler, ServerState
  <2>3. s.pc = "clear" => Asked(v) = s.asked
    BY DEF Asked
  <2> QED
    BY <1>2, <2>1, <2>2, <2>3
<1>12. CASE TermHandler(v)
  <2>1. /\ srv'[v].pc = s.pc /\ srv'[v].vfs = s.vfs /\ srv'[v].late = s.late
        /\ srv'[v].asked = s.asked /\ srv'[v].reload = s.reload /\ srv'[v].finish
    BY <1>1, <1>12 DEF TermHandler, ServerState
  <2> QED
    BY <1>2, <2>1
<1>13. CASE ReapChild(v) \/ WaitReturns(v)
  <2>1. /\ srv'[v].pc = s.pc /\ srv'[v].vfs = s.vfs /\ srv'[v].late = s.late
        /\ srv'[v].asked = s.asked /\ srv'[v].reload = s.reload /\ srv'[v].finish = s.finish
    BY <1>1, <1>13 DEF ReapChild, WaitReturns, ServerState
  <2> QED
    BY <1>2, <2>1
<1> HIDE DEF s, Remembers, Finishes
<1> QED
  BY <1>4, <1>5, <1>6, <1>7, <1>8, <1>9, <1>10, <1>11, <1>12, <1>13, <1>14
     DEF OwnStep, Main, Handler

LEMMA LoopStep == ASSUME TypeInv, LoopInv, [Next]_vars PROVE LoopInv'
<1>1. CASE Next
  <2> SUFFICES ASSUME NEW v \in Server PROVE Remembers(srv'[v]) /\ Finishes(srv'[v])
    BY DEF LoopInv
  <2>1. Remembers(srv[v]) /\ Finishes(srv[v])
    BY DEF LoopInv
  <2>2. CASE OwnStep(v)
    BY <2>1, <2>2, OwnStepLoop
  <2>3. CASE srv'[v] = srv[v]
    BY <2>1, <2>3
  <2>4. ASSUME NEW sig \in Signals, srv'[v] = Signalled(srv[v], sig)
        PROVE  Remembers(srv'[v]) /\ Finishes(srv'[v])
    BY <2>1, <2>4, SignalledFields, ServerFields DEF Remembers, Finishes
  <2> QED
    BY <1>1, <2>2, <2>3, <2>4, ServerChanges
<1>2. CASE UNCHANGED vars
  BY <1>2 DEF vars, LoopInv
<1> QED
  BY <1>1, <1>2

LEMMA LoopInvariant == Spec => [](TypeInv /\ LoopInv)
<1>1. Init => LoopInv
  <2>1. Remembers(NewServer) /\ Finishes(NewServer)
    BY DEF NewServer, Remembers, Finishes
  <2> QED
    BY <2>1 DEF Init, LoopInv
<1>2. TypeInv /\ LoopInv /\ [Next]_vars => LoopInv'
  BY LoopStep
<1> QED
  BY <1>1, <1>2, TypeInvariant, PTL DEF Spec

\* A server whose tree is older than the vfs.cfg that a SIGHUP was about has its flag
\* reload_config_file set, whatever other signals and failures come between
\* (signaly.cpp HUPHandler, smallFTPd.cpp main()).
THEOREM NoReloadForgotten == Spec => []ReloadRemembered
<1>1. TypeInv /\ LoopInv => ReloadRemembered
  BY DEF LoopInv, Remembers, ReloadRemembered
<1> QED
  BY <1>1, LoopInvariant, PTL

\* However the SIGTERM of FINISH meets the main loop, one client at most is accepted
\* after it (signaly.cpp TermHandler, smallFTPd.cpp main()).
THEOREM FewLateClients == Spec => []OneLateClient
<1>1. TypeInv /\ LoopInv => OneLateClient
  BY DEF LoopInv, Finishes, OneLateClient
<1> QED
  BY <1>1, LoopInvariant, PTL

-----------------------------------------------------------------------------
(***************************************************************************)
(* wait() in ReapChild never blocks, unless children are stopped.          *)
(***************************************************************************)
NeverStopped == "stop" \notin Events

IsZombie(k, v) == ChildOf(k, v) /\ kid[k].pc = "zombie"

\* There is a zombie for every wait() that is under way or to come, or no child at all.
\* (While a SIGCHLD is pending or handled, main() does not fork.)
Reapable(v) ==
  \/ \A k \in Child : ~ChildOf(k, v)
  \/ /\ "CHLD" \in srv[v].pending \/ srv[v].reaping => \E k \in Child : IsZombie(k, v)
     /\ "CHLD" \in srv[v].pending /\ srv[v].reaping =>
          \E j, k \in Child : IsZombie(j, v) /\ IsZombie(k, v) /\ j # k

Quiet(v) == ~Up(v) => srv[v].pending = {} /\ ~srv[v].reaping

ReapInv == \A v \in Server : Quiet(v) /\ Reapable(v)

\* Steps that end no child of v and send v no SIGCHLD.
LEMMA StillReapable ==
  ASSUME NEW v \in Server, Reapable(v),
         "CHLD" \in srv'[v].pending => "CHLD" \in srv[v].pending,
         srv'[v].reaping => srv[v].reaping,
         \A k \in Child : (ChildOf(k, v)' <=> ChildOf(k, v)) /\ (IsZombie(k, v)' <=> IsZombie(k, v))
  PROVE  Reapable(v)'
  BY Zenon DEF Reapable

LEMMA SameKidsOf ==
  ASSUME NEW v \in Server, UNCHANGED kid
  PROVE  \A k \in Child : (ChildOf(k, v)' <=> ChildOf(k, v)) /\ (IsZombie(k, v)' <=> IsZombie(k, v))
  BY DEF ChildOf, IsZombie

\* The steps of another server.
LEMMA OtherKids ==
  ASSUME TypeInv, NEW v \in Server, NEW w \in Server, w # v, OwnStep(w)
  PROVE  \A k \in Child : (ChildOf(k, v)' <=> ChildOf(k, v)) /\ (IsZombie(k, v)' <=> IsZombie(k, v))
<1>0. kid \in [Child -> ChildState]
  BY TypeInvDef DEF KidsTyped
<1>1. CASE UNCHANGED kid
  BY <1>1, SameKidsOf
<1>2. ASSUME NEW k \in Child, NEW a \in Addr, Fork(w, k, a)
      PROVE  \A j \in Child : (ChildOf(j, v)' <=> ChildOf(j, v)) /\ (IsZombie(j, v)' <=> IsZombie(j, v))
  <2>1. kid[k].pc = "none" /\ kid'[k].server = w
    BY <1>0, <1>2 DEF Fork
  <2>2. \A j \in Child : j # k => kid'[j] = kid[j]
    BY <1>0, <1>2 DEF Fork
  <2> QED
    BY <2>1, <2>2 DEF ChildOf, IsZombie
<1>3. CASE Konec(w)
  <2>1. \A j \in Child : kid'[j] = IF j \in Zombies(w) THEN NoChild ELSE kid[j]
    BY <1>3 DEF Konec
  <2>2. \A j \in Zombies(w) : ~ChildOf(j, v)
    BY DEF Zombies, ChildOf
  <2> QED
    BY <2>1, <2>2 DEF ChildOf, IsZombie, NoChild
<1>4. CASE WaitReturns(w)
  <2>1. ASSUME NEW z \in Zombies(w), kid' = [kid EXCEPT ![z] = NoChild]
        PROVE  \A j \in Child : (ChildOf(j, v)' <=> ChildOf(j, v)) /\ (IsZombie(j, v)' <=> IsZombie(j, v))
    <3>1. ~ChildOf(z, v) /\ kid'[z].pc = "none"
      BY <1>0, <2>1 DEF Zombies, ChildOf, NoChild
    <3>2. \A j \in Child : j # z => kid'[j] = kid[j]
      BY <1>0, <2>1
    <3> QED
      BY <3>1, <3>2 DEF ChildOf, IsZombie
  <2> QED
    BY <1>1, <1>4, <2>1 DEF WaitReturns
<1> QED
  BY <1>1, <1>2, <1>3, <1>4
     DEF OwnStep, Load, Accept, Main, Bind, WritePid, PidFails, CheckFinish, Reload, ClearReload, SystemFails, Handler, HUPHandler, TermHandler, ReapChild

\* The server's own steps.
LEMMA OwnReapable ==
  ASSUME TypeInv, NEW v \in Server, Quiet(v), Reapable(v), OwnStep(v)
  PROVE  Quiet(v)' /\ Reapable(v)'
<1> DEFINE s == srv[v]
<1>0. /\ s \in ServerState /\ srv \in [Server -> ServerState] /\ kid \in [Child -> ChildState]
  BY ServerFields, TypeInvDef DEF ServersTyped, KidsTyped
<1>1. ASSUME UNCHANGED kid, srv'[v].pending \subseteq s.pending, srv'[v].reaping => s.reaping,
             srv'[v].pc \notin {"new", "ended"}
      PROVE  Quiet(v)' /\ Reapable(v)'
  BY <1>1, SameKidsOf, StillReapable DEF Quiet, Up
<1>2. ASSUME NEW l, Go(v, l)
      PROVE  srv'[v].pc = l /\ srv'[v].pending = s.pending /\ srv'[v].reaping = s.reaping
  BY <1>0, <1>2 DEF Go, ServerState
<1>3. CASE Load(v)
  <2>1. srv'[v].pc = "bind" /\ srv'[v].pending = s.pending /\ srv'[v].reaping = s.reaping
    BY <1>0, <1>3 DEF Load, ServerState
  <2> QED
    BY <1>1, <1>3, <2>1 DEF Load
<1>4. CASE Bind(v) \/ PidFails(v) \/ Accept(v) \/ SystemFails(v)
  BY <1>1, <1>2, <1>4 DEF Bind, PidFails, Accept, SystemFails
<1>13. CASE WritePid(v)
  <2>1. srv'[v].pc = "check" /\ srv'[v].pending = s.pending /\ srv'[v].reaping = s.reaping
    BY <1>0, <1>13 DEF WritePid, ServerState
  <2> QED
    BY <1>1, <1>13, <2>1 DEF WritePid
<1>5. CASE CheckFinish(v)
  <2>1. CASE s.finish
    BY <1>1, <1>2, <1>5, <2>1 DEF CheckFinish
  <2>2. CASE ~s.finish
    BY <1>1, <1>2, <1>5, <2>2 DEF CheckFinish
  <2> QED
    BY <2>1, <2>2
<1>6. CASE Reload(v)
  <2>1. CASE Go(v, "fork")
    BY <1>1, <1>2, <1>6, <2>1 DEF Reload
  <2>2. CASE ~Go(v, "fork")
    <3>1. srv' = [srv EXCEPT ![v].vfs = vfsFile, ![v].pc = "clear"]
      BY <1>6, <2>2 DEF Reload
    <3>2. srv'[v].pc = "clear" /\ srv'[v].pending = s.pending /\ srv'[v].reaping = s.reaping
      BY <1>0, <3>1 DEF ServerState
    <3> QED
      BY <1>1, <1>6, <3>2 DEF Reload
  <2> QED
    BY <2>1, <2>2
<1>7. CASE ClearReload(v)
  <2>1. srv'[v].pc = "fork" /\ srv'[v].pending = s.pending /\ srv'[v].reaping = s.reaping
    BY <1>0, <1>7 DEF ClearReload, ServerState
  <2> QED
    BY <1>1, <1>7, <2>1 DEF ClearReload
<1>8. ASSUME NEW k \in Child, NEW a \in Addr, Fork(v, k, a) PROVE Quiet(v)' /\ Reapable(v)'
  <2>1. s.pending = {} /\ ~s.reaping
    BY <1>8 DEF Fork, At
  <2>2. srv'[v].pc = "check" /\ srv'[v].pending = s.pending /\ srv'[v].reaping = s.reaping
    BY <1>0, <1>8, Zenon DEF Fork, ServerState
  <2> QED
    BY <2>1, <2>2 DEF Quiet, Reapable
<1>9. CASE Konec(v)
  <2> DEFINE r == [NewServer EXCEPT !.pc = "ended", !.late = s.late, !.finish = s.finish]
  <2>1. srv'[v] = r
    BY <1>0, <1>9 DEF Konec
  <2>2. r.pending = {} /\ ~r.reaping
    BY DEF NewServer
  <2> HIDE DEF r
  <2> QED
    BY <2>1, <2>2 DEF Quiet, Reapable
<1>10. CASE HUPHandler(v) \/ TermHandler(v)
  <2>1. srv'[v].pc = s.pc /\ srv'[v].pending \subseteq s.pending /\ srv'[v].reaping = s.reaping
    <3>1. CASE HUPHandler(v)
      BY <1>0, <3>1 DEF HUPHandler, ServerState
    <3>2. CASE TermHandler(v)
      BY <1>0, <3>2 DEF TermHandler, ServerState
    <3> QED
      BY <1>10, <3>1, <3>2
  <2>2. s.pc \notin {"new", "ended"} /\ UNCHANGED kid
    BY <1>10 DEF HUPHandler, TermHandler, Quiet, Up
  <2> QED
    BY <1>1, <2>1, <2>2
<1>11. CASE ReapChild(v)
  <2>1. /\ srv'[v].pc = s.pc /\ "CHLD" \in s.pending /\ ~s.reaping
        /\ "CHLD" \notin srv'[v].pending /\ srv'[v].reaping /\ UNCHANGED kid
    BY <1>0, <1>11 DEF ReapChild, ServerState
  <2>2. s.pc \notin {"new", "ended"}
    BY <2>1 DEF Quiet, Up
  <2>3. Reapable(v)'
    BY <2>1, SameKidsOf, Zenon DEF Reapable
  <2> QED
    BY <2>1, <2>2, <2>3 DEF Quiet, Up
<1>12. CASE WaitReturns(v)
  <2>1. /\ srv'[v].pc = s.pc /\ s.reaping /\ srv'[v].pending = s.pending /\ ~srv'[v].reaping
    BY <1>0, <1>12 DEF WaitReturns, ServerState
  <2>2. s.pc \notin {"new", "ended"}
    BY <2>1 DEF Quiet, Up
  <2>3. CASE UNCHANGED kid
    BY <1>1, <2>1, <2>2, <2>3
  <2>4. ASSUME NEW z \in Zombies(v), kid' = [kid EXCEPT ![z] = NoChild] PROVE Reapable(v)'
    <3>1. z \in Child /\ ChildOf(z, v)
      BY DEF Zombies
    <3>2. \A k \in Child : k # z => kid'[k] = kid[k]
      BY <1>0, <2>4, <3>1
    <3>3. \A k \in Child : k # z /\ IsZombie(k, v) => IsZombie(k, v)'
      BY <3>2 DEF IsZombie, ChildOf
    <3>4. "CHLD" \in s.pending => \E k \in Child : IsZombie(k, v)'
      BY <2>1, <3>1, <3>3, Zenon DEF Reapable
    <3> QED
      BY <2>1, <3>4, Zenon DEF Reapable
  <2> QED
    BY <1>12, <2>1, <2>2, <2>3, <2>4 DEF WaitReturns, Quiet, Up
<1> HIDE DEF s
<1> QED
  BY <1>3, <1>4, <1>5, <1>6, <1>7, <1>8, <1>9, <1>10, <1>11, <1>12, <1>13
     DEF OwnStep, Main, Handler

\* Signals that are not SIGCHLD, and children that live on.
LEMMA QuietSignal ==
  ASSUME TypeInv, NEW v \in Server, Quiet(v), Reapable(v), NEW sig \in {"HUP", "TERM"},
         srv'[v] = srv[v] \/ srv'[v] = Signalled(srv[v], sig),
         \A k \in Child : (ChildOf(k, v)' <=> ChildOf(k, v)) /\ (IsZombie(k, v)' <=> IsZombie(k, v))
  PROVE  Quiet(v)' /\ Reapable(v)'
<1>1. sig \in Signals /\ srv[v] \in ServerState
  BY ServerFields DEF Signals
<1>2. CASE srv'[v] = srv[v]
  BY <1>2, StillReapable DEF Quiet, Up
<1>3. CASE srv'[v] = Signalled(srv[v], sig)
  <2>1. /\ srv'[v].pc = srv[v].pc /\ srv'[v].reaping = srv[v].reaping
        /\ srv'[v].pending \subseteq srv[v].pending \cup {sig}
    BY <1>1, <1>3, SignalledFields
  <2>2. ~Up(v) => srv'[v] = srv[v]
    BY <1>3 DEF Signalled, Up
  <2>3. Quiet(v)'
    BY <2>1, <2>2 DEF Quiet, Up
  <2> QED
    BY <2>1, <2>3, StillReapable
<1> QED
  BY <1>2, <1>3

LEMMA LivesOn ==
  ASSUME TypeInv, NEW v \in Server, NEW k \in Child, kid[k].pc \notin {"none", "zombie"},
         NEW r \in LiveChild, r.server = kid[k].server, kid' = [kid EXCEPT ![k] = r]
  PROVE  \A j \in Child : (ChildOf(j, v)' <=> ChildOf(j, v)) /\ (IsZombie(j, v)' <=> IsZombie(j, v))
<1>1. r.pc \notin {"none", "zombie"}
  BY DEF LiveChild
<1>2. \A j \in Child : kid'[j] = IF j = k THEN r ELSE kid[j]
  BY TypeInvDef DEF KidsTyped
<1> QED
  BY <1>1, <1>2 DEF ChildOf, IsZombie

\* What the steps of a child that lives on do to it.
LEMMA LiveSteps ==
  ASSUME TypeInv, NEW k \in Child,
         \/ BecomeChild(k) \/ CheckIP(k) \/ (\E a \in Addr : Fdenyip(k, a)) \/ Leave(k)
         \/ DenyipSignal(k) \/ Ffinish(k) \/ (TermChild(k) /\ ~UNCHANGED kid)
  PROVE  /\ kid[k].pc \notin {"none", "zombie"}
         /\ \E r \in LiveChild : r.server = kid[k].server /\ kid' = [kid EXCEPT ![k] = r]
<1> DEFINE s == kid[k]
<1>0. s.pc \notin {"none", "zombie"} => s \in LiveChild
  BY LiveFields
<1>1. ASSUME s.pc \notin {"none", "zombie"}, NEW l \in {"check", "serve", "hup", "exit"},
             kid' = [kid EXCEPT ![k].pc = l]
      PROVE  \E r \in LiveChild : r.server = s.server /\ kid' = [kid EXCEPT ![k] = r]
  <2> DEFINE r == [s EXCEPT !.pc = l]
  <2>1. r \in LiveChild /\ r.server = s.server
    BY <1>0, <1>1 DEF LiveChild
  <2>2. kid' = [kid EXCEPT ![k] = r]
    BY <1>1
  <2> HIDE DEF r
  <2> QED
    BY <2>1, <2>2
<1>2. CASE BecomeChild(k)
  <2> DEFINE r == [s EXCEPT !.parent = FALSE, !.pc = "check"]
  <2>1. s.pc = "born" /\ kid' = [kid EXCEPT ![k] = r]
    BY <1>2 DEF BecomeChild
  <2>2. r \in LiveChild /\ r.server = s.server
    BY <1>0, <2>1 DEF LiveChild
  <2> HIDE DEF r
  <2> QED
    BY <2>1, <2>2
<1>3. CASE CheckIP(k)
  <2>1. CASE s.addr \in s.denied
    BY <1>1, <1>3, <2>1 DEF CheckIP
  <2>2. CASE s.addr \notin s.denied
    BY <1>1, <1>3, <2>2 DEF CheckIP
  <2> QED
    BY <2>1, <2>2
<1>4. ASSUME NEW a \in Addr, Fdenyip(k, a)
      PROVE  s.pc \notin {"none", "zombie"}
             /\ \E r \in LiveChild : r.server = s.server /\ kid' = [kid EXCEPT ![k] = r]
  <2>0. PICK lost \in BOOLEAN :
          kid' = [kid EXCEPT ![k].denied = @ \cup {a}, ![k].arg = a, ![k].saved = ~lost,
                             ![k].pc = "hup"]
    BY <1>4 DEF Fdenyip
  <2> DEFINE r == [s EXCEPT !.denied = @ \cup {a}, !.arg = a, !.saved = ~lost, !.pc = "hup"]
  <2>1. s.pc = "serve" /\ kid' = [kid EXCEPT ![k] = r]
    BY <1>4, <2>0 DEF Fdenyip
  <2>2. r \in LiveChild /\ r.server = s.server
    BY <1>0, <2>1 DEF LiveChild
  <2> HIDE DEF r
  <2> QED
    BY <2>1, <2>2
<1>5. NextRequest(k) \in {"serve", "exit"}
  BY DEF NextRequest
<1>6. CASE Ffinish(k) \/ Leave(k)
  BY <1>1, <1>5, <1>6 DEF Ffinish, Leave
<1>8. CASE DenyipSignal(k)
  <2> DEFINE r == [s EXCEPT !.pc = NextRequest(k), !.saved = FALSE]
  <2>1. s.pc = "hup" /\ kid' = [kid EXCEPT ![k] = r]
    BY <1>8 DEF DenyipSignal
  <2>2. r \in LiveChild /\ r.server = s.server
    BY <1>0, <1>5, <2>1 DEF LiveChild
  <2> HIDE DEF r
  <2> QED
    BY <2>1, <2>2
<1>7. CASE TermChild(k) /\ ~UNCHANGED kid
  <2> DEFINE r == [s EXCEPT !.run = FALSE]
  <2>1. s.pc \notin {"none", "zombie"} /\ kid' = [kid EXCEPT ![k] = r]
    BY <1>7 DEF TermChild
  <2>2. r \in LiveChild /\ r.server = s.server
    BY <1>0, <2>1 DEF LiveChild
  <2> HIDE DEF r
  <2> QED
    BY <2>1, <2>2
<1> HIDE DEF s
<1> QED
  BY <1>2, <1>3, <1>4, <1>6, <1>7, <1>8 DEF s

\* A child that ends leaves a zombie, together with the SIGCHLD.
LEMMA ExitReapable ==
  ASSUME TypeInv, NEW v \in Server, Quiet(v), Reapable(v), NEW k \in Child, Exit(k)
  PROVE  Quiet(v)' /\ Reapable(v)'
<1> DEFINE w == kid[k].server
<1>0. srv \in [Server -> ServerState] /\ kid \in [Child -> ChildState]
  BY TypeInvDef DEF ServersTyped, KidsTyped
<1>1. w \in Server /\ kid[k].pc = "exit"
  BY LiveFields DEF Exit
<1>2. srv' = [srv EXCEPT ![w] = Signalled(srv[w], "CHLD")]
  BY DEF Exit
<1>3. \A j \in Child : j # k => kid'[j] = kid[j]
  BY <1>0 DEF Exit
<1>4. kid'[k] = IF Up(w) THEN Zombie(w) ELSE NoChild
  BY <1>0 DEF Exit
<1>5. CASE w # v
  <2>1. srv'[v] = srv[v]
    BY <1>0, <1>2, <1>5
  <2>2. ~ChildOf(k, v) /\ ~ChildOf(k, v)'
    BY <1>4, <1>5 DEF ChildOf, Zombie, NoChild
  <2>3. \A j \in Child : (ChildOf(j, v)' <=> ChildOf(j, v)) /\ (IsZombie(j, v)' <=> IsZombie(j, v))
    BY <1>3, <2>2 DEF ChildOf, IsZombie
  <2>4. Quiet(v)'
    BY <2>1 DEF Quiet, Up
  <2> QED
    BY <2>1, <2>3, <2>4, StillReapable
<1>6. CASE w = v /\ ~Up(v)
  <2>1. srv'[v] = srv[v]
    BY <1>0, <1>2, <1>6 DEF Signalled, Up
  <2> QED
    BY <1>6, <2>1 DEF Quiet, Reapable, Up
<1>7. CASE w = v /\ Up(v)
  <2>1. srv'[v] = Signalled(srv[v], "CHLD")
    BY <1>0, <1>1, <1>2, <1>7
  <2>2. srv'[v].pc = srv[v].pc /\ srv'[v].reaping = srv[v].reaping
    BY <2>1, SignalledFields, ServerFields DEF Signals
  <2>3. ChildOf(k, v) /\ ~IsZombie(k, v)
    BY <1>1, <1>7 DEF ChildOf, IsZombie
  <2>4. IsZombie(k, v)'
    BY <1>4, <1>7 DEF ChildOf, IsZombie, Zombie
  <2>5. \A j \in Child : IsZombie(j, v) => j # k /\ IsZombie(j, v)'
    BY <1>3, <2>3 DEF ChildOf, IsZombie
  <2>6. Reapable(v)'
    BY <2>2, <2>3, <2>4, <2>5, Zenon DEF Reapable
  <2>7. Quiet(v)'
    BY <1>7, <2>2 DEF Quiet, Up
  <2> QED
    BY <2>6, <2>7
<1> HIDE DEF w
<1> QED
  BY <1>5, <1>6, <1>7

LEMMA ReapStep == ASSUME NeverStopped, TypeInv, ReapInv, [Next]_vars PROVE ReapInv'
<1> SUFFICES ASSUME NEW v \in Server PROVE Quiet(v)' /\ Reapable(v)'
  BY DEF ReapInv
<1>0. Quiet(v) /\ Reapable(v)
  BY DEF ReapInv
<1>1. ASSUME NEW w \in Server, ServerStep(w) PROVE Quiet(v)' /\ Reapable(v)'
  <2>1. CASE OwnStep(w) /\ w = v
    BY <1>0, <2>1, OwnReapable
  <2>2. CASE OwnStep(w) /\ w # v
    <3>1. srv'[v] = srv[v]
      BY <2>2, OthersKept
    <3> QED
      BY <1>0, <2>2, <3>1, OtherKids, QuietSignal
  <2>3. CASE Reconfigure(w)
    <3>1. srv' = [srv EXCEPT ![w] = Signalled(srv[w], "HUP")] /\ UNCHANGED kid
      BY <2>3 DEF Reconfigure
    <3>2. srv'[v] = srv[v] \/ srv'[v] = Signalled(srv[v], "HUP")
      BY <3>1, TypeInvDef DEF ServersTyped
    <3> QED
      BY <1>0, <3>1, <3>2, SameKidsOf, QuietSignal
  <2> QED
    BY <1>1, <2>1, <2>2, <2>3 DEF ServerStep, OwnStep
<1>2. ASSUME NEW k \in Child, ChildStep(k) PROVE Quiet(v)' /\ Reapable(v)'
  <2>1. CASE Exit(k)
    BY <1>0, <2>1, ExitReapable
  <2>2. CASE UNCHANGED kid /\ TermChild(k)
    BY <1>0, <2>2, SameKidsOf, QuietSignal DEF TermChild
  <2>3. CASE \/ BecomeChild(k) \/ CheckIP(k) \/ (\E a \in Addr : Fdenyip(k, a)) \/ Leave(k)
             \/ DenyipSignal(k) \/ Ffinish(k) \/ (TermChild(k) /\ ~UNCHANGED kid)
    <3>1. \A j \in Child :
            (ChildOf(j, v)' <=> ChildOf(j, v)) /\ (IsZombie(j, v)' <=> IsZombie(j, v))
      <4>1. PICK r \in LiveChild : r.server = kid[k].server /\ kid' = [kid EXCEPT ![k] = r]
        BY <2>3, LiveSteps
      <4>2. kid[k].pc \notin {"none", "zombie"}
        BY <2>3, LiveSteps
      <4> QED
        BY <4>1, <4>2, LivesOn
    <3>2. \E sig \in {"HUP", "TERM"} : srv'[v] = srv[v] \/ srv'[v] = Signalled(srv[v], sig)
      BY <2>3 DEF BecomeChild, CheckIP, Fdenyip, Leave, DenyipSignal, Ffinish, TermChild, KillServer
    <3> QED
      BY <1>0, <3>1, <3>2, QuietSignal
  <2> QED
    BY <1>2, <2>1, <2>2, <2>3 DEF ChildStep, ChildMain, StopChild, NeverStopped
<1>3. CASE UNCHANGED vars
  BY <1>0, <1>3, SameKidsOf, QuietSignal DEF vars
<1> QED
  BY <1>1, <1>2, <1>3, NextGroups

\* As long as no child is stopped, wait() in the handler of SIGCHLD returns at once,
\* though several SIGCHLD may have become one (signaly.cpp ReapChild).
THEOREM WaitReturnsAtOnce == ASSUME NeverStopped PROVE Spec => []ReapNeverBlocks
<1>1. Init => ReapInv
  <2>1. NewServer.pending = {} /\ ~NewServer.reaping
    BY DEF NewServer
  <2> QED
    BY <2>1 DEF Init, ReapInv, Quiet, Reapable
<1>2. TypeInv /\ ReapInv /\ [Next]_vars => ReapInv'
  BY ReapStep
<1>3. TypeInv /\ ReapInv => ReapNeverBlocks
  BY DEF ReapInv, Reapable, ReapNeverBlocks, IsZombie, Zombies
<1> QED
  BY <1>1, <1>2, <1>3, TypeInvariant, PTL DEF Spec

-----------------------------------------------------------------------------
(***************************************************************************)
(* One server that nobody tells to finish: its pid file stays, and through *)
(* it every DENYIP reaches it before the next fork.                        *)
(***************************************************************************)
LoneServer ==
  /\ \A v, w \in Server : v = w
  /\ "FINISH" \notin Events /\ "TERM" \notin Events

\* What DENYIP has arranged has been read from deny_list.cfg, or a SIGHUP will see to it,
\* or the list could not be read.
Informed(v) ==
  /\ "TERM" \notin srv[v].pending
  /\ Looping(v) => /\ srv[v].named => pidFile = v
                   /\ \/ "HUP" \in srv[v].pending \/ srv[v].blind
                      \/ arranged \subseteq srv[v].denied
  /\ srv[v].pc \in {"new", "bind", "pid"} =>
       arranged = {} /\ ~srv[v].named /\ \A k \in Child : kid[k].pc = "none"

\* A child does not take itself for the server, and one from a denied address does not
\* pass CheckIP.
Checked(k) ==
  /\ kid[k].pc \in {"check", "serve", "hup", "exit"} => ~kid[k].parent
  /\ kid[k].pc \in {"born", "check"} /\ kid[k].kept => kid[k].addr \in kid[k].denied
  /\ kid[k].pc \in {"serve", "hup"} => ~kid[k].kept

DenyInv == (\A v \in Server : Informed(v)) /\ (\A k \in Child : Checked(k))

\* The server's record changes in fields that do not matter here.
\* What the server knows of promises stays as it is.
SameNews(v) ==
  /\ srv'[v].pending = srv[v].pending /\ srv'[v].denied = srv[v].denied
  /\ srv'[v].named = srv[v].named /\ srv'[v].blind = srv[v].blind

LEMMA StillInformed ==
  ASSUME NEW v \in Server, Informed(v), UNCHANGED <<kid, arranged>>,
         "TERM" \notin srv'[v].pending, "HUP" \in srv[v].pending => "HUP" \in srv'[v].pending,
         srv'[v].denied = srv[v].denied, srv'[v].named = srv[v].named,
         srv'[v].blind = srv[v].blind, Looping(v)' => Looping(v) /\ UNCHANGED pidFile,
         srv'[v].pc \in {"new", "bind", "pid"} => srv[v].pc \in {"new", "bind", "pid"}
  PROVE  Informed(v)'
  BY DEF Informed

LEMMA SameChecked == ASSUME DenyInv, UNCHANGED kid PROVE \A k \in Child : Checked(k)'
  BY DEF DenyInv, Checked

LEMMA InformedStep ==
  ASSUME LoneServer, TypeInv, DenyInv, NEW v \in Server, OwnStep(v) PROVE Informed(v)'
<1> DEFINE s == srv[v]
<1>0. s \in ServerState /\ srv \in [Server -> ServerState] /\ Informed(v)
  BY ServerFields, TypeInvDef DEF ServersTyped, DenyInv
<1>1. "TERM" \notin s.pending
  BY <1>0 DEF Informed
<1>2. ASSUME NEW l, Go(v, l)
      PROVE  srv'[v].pc = l /\ SameNews(v)
  BY <1>0, <1>2 DEF Go, ServerState, SameNews
<1>3. CASE Load(v)
  <2>1. /\ srv'[v].pc = "bind" /\ srv'[v].pending = s.pending /\ s.pc = "new"
        /\ srv'[v].named = s.named
    BY <1>0, <1>3 DEF Load, ServerState
  <2> QED
    BY <1>0, <1>1, <1>3, <2>1 DEF Load, Informed, Looping
<1>4. CASE Bind(v) \/ SystemFails(v)
  <2>1. CASE Go(v, "konec")
    <3>1. srv'[v].pc = "konec" /\ SameNews(v)
      BY <1>2, <2>1
    <3> QED
      BY <1>0, <1>1, <1>4, <3>1, StillInformed DEF Bind, SystemFails, Looping, SameNews
  <2>2. CASE Bind(v) /\ Go(v, "pid")
    <3>1. srv'[v].pc = "pid" /\ SameNews(v)
      BY <1>2, <2>2
    <3>2. s.pc = "bind" /\ UNCHANGED <<kid, arranged>>
      BY <2>2 DEF Bind, At
    <3> QED
      BY <1>0, <1>1, <3>1, <3>2, StillInformed DEF Looping, SameNews
  <2> QED
    BY <1>4, <2>1, <2>2 DEF Bind, SystemFails
<1>5. CASE WritePid(v) \/ PidFails(v)
  <2>1. srv'[v].pc = "check" /\ srv'[v].pending = s.pending /\ s.pc = "pid"
    BY <1>0, <1>2, <1>5 DEF WritePid, PidFails, At, ServerState, SameNews
  <2>2. UNCHANGED <<kid, arranged>> /\ (srv'[v].named => pidFile' = v)
    BY <1>0, <1>2, <1>5 DEF WritePid, PidFails, At, Informed, SameNews
  <2> QED
    BY <1>0, <1>1, <2>1, <2>2 DEF Informed, Looping
<1>6. ASSUME Looping(v), UNCHANGED <<kid, arranged, pidFile>>, SameNews(v),
             srv'[v].pc \in {"check", "accept", "reload", "clear", "fork", "konec"}
      PROVE  Informed(v)'
  BY <1>0, <1>1, <1>6, StillInformed DEF SameNews
<1>7. CASE CheckFinish(v) \/ Accept(v)
  <2>1. srv'[v].pc \in {"konec", "accept", "reload"} /\ Looping(v)
        /\ SameNews(v)
    <3>1. ASSUME NEW l \in {"konec", "accept", "reload"}, Go(v, l)
          PROVE  /\ srv'[v].pc \in {"konec", "accept", "reload"} /\ Looping(v)
                 /\ SameNews(v)
      <4>1. Looping(v)
        BY <1>7 DEF CheckFinish, Accept, At, Looping
      <4> QED
        BY <1>2, <3>1, <4>1
    <3> QED
      BY <1>7, <3>1 DEF CheckFinish, Accept
  <2> QED
    BY <1>6, <1>7, <2>1 DEF CheckFinish, Accept
<1>8. CASE Reload(v)
  <2>1. CASE Go(v, "fork")
    BY <1>2, <1>6, <1>8, <2>1 DEF Reload, At, Looping
  <2>2. CASE ~Go(v, "fork")
    <3>1. srv' = [srv EXCEPT ![v].vfs = vfsFile, ![v].pc = "clear"]
      BY <1>8, <2>2 DEF Reload
    <3>2. srv'[v].pc = "clear" /\ SameNews(v)
      BY <1>0, <3>1 DEF ServerState, SameNews
    <3> QED
      BY <1>6, <1>8, <3>2 DEF Reload, At, Looping
  <2> QED
    BY <2>1, <2>2
<1>9. CASE ClearReload(v)
  <2>1. srv'[v].pc = "fork" /\ SameNews(v)
    BY <1>0, <1>9 DEF ClearReload, ServerState, SameNews
  <2> QED
    BY <1>6, <1>9, <2>1 DEF ClearReload, At, Looping
<1>10. ASSUME NEW k \in Child, NEW a \in Addr, Fork(v, k, a) PROVE Informed(v)'
  <2>1. srv'[v].pc = "check" /\ SameNews(v)
    BY <1>0, <1>10, Zenon DEF Fork, ServerState, SameNews
  <2>2. UNCHANGED <<arranged, pidFile>> /\ Looping(v)
    BY <1>10 DEF Fork, At, Looping
  <2> QED
    BY <1>0, <1>1, <2>1, <2>2 DEF Informed, SameNews
<1>11. CASE Konec(v)
  <2> DEFINE r == [NewServer EXCEPT !.pc = "ended", !.late = s.late, !.finish = s.finish]
  <2>1. srv'[v] = r
    BY <1>0, <1>11 DEF Konec
  <2>2. r.pending = {} /\ r.pc = "ended"
    BY DEF NewServer
  <2> HIDE DEF r
  <2> QED
    BY <2>1, <2>2 DEF Informed, Looping
<1>12. CASE HUPHandler(v)
  <2>0. PICK blind \in BOOLEAN : srv' = HeardOf(v, blind)
    BY <1>12 DEF HUPHandler, HeardOf
  <2>1. /\ srv'[v].pc = s.pc /\ srv'[v].named = s.named
        /\ srv'[v].blind \/ srv'[v].denied = denyFile
    BY <1>0, <2>0 DEF HeardOf, Denied, ServerState
  <2>2. "TERM" \notin srv'[v].pending
    BY <1>0, <1>1, <2>0 DEF HeardOf, ServerState
  <2>3. arranged \subseteq denyFile
    BY TypeInvDef
  <2> QED
    BY <1>0, <1>12, <2>1, <2>2, <2>3 DEF HUPHandler, Informed, Looping
<1>13. CASE TermHandler(v)
  BY <1>1, <1>13 DEF TermHandler
<1>14. CASE ReapChild(v)
  <2>1. /\ srv'[v].pc = s.pc /\ srv'[v].denied = s.denied
        /\ srv'[v].pending = s.pending \ {"CHLD"}
        /\ srv'[v].named = s.named /\ srv'[v].blind = s.blind
    BY <1>0, <1>14 DEF ReapChild, ServerState
  <2> QED
    BY <1>0, <1>1, <1>14, <2>1, StillInformed DEF ReapChild, Looping
<1>15. CASE WaitReturns(v)
  <2>1. srv'[v].pc = s.pc /\ SameNews(v)
    BY <1>0, <1>15 DEF WaitReturns, ServerState, SameNews
  <2>2. (\A k \in Child : kid[k].pc = "none") => \A k \in Child : kid'[k].pc = "none"
    BY <1>15 DEF WaitReturns, Zombies
  <2> QED
    BY <1>0, <1>1, <1>15, <2>1, <2>2 DEF WaitReturns, Looping, Informed, SameNews
<1> HIDE DEF s
<1> QED
  BY <1>3, <1>4, <1>5, <1>7, <1>8, <1>9, <1>10, <1>11, <1>12, <1>13, <1>14, <1>15
     DEF OwnStep, Main, Handler

\* A signal other than SIGTERM, from a child that lives or from the administrator.
LEMMA InformedSignal ==
  ASSUME TypeInv, NEW v \in Server, Informed(v), NEW sig \in {"CHLD", "HUP"},
         srv'[v] = srv[v] \/ srv'[v] = Signalled(srv[v], sig), UNCHANGED <<pidFile, arranged>>,
         srv[v].pc \in {"new", "bind", "pid"} => UNCHANGED kid
  PROVE  Informed(v)'
<1>1. sig \in Signals /\ srv[v] \in ServerState
  BY ServerFields DEF Signals
<1>2. CASE srv'[v] = srv[v]
  BY <1>2 DEF Informed, Looping
<1>3. CASE srv'[v] = Signalled(srv[v], sig)
  <2>1. /\ srv'[v].pc = srv[v].pc /\ srv'[v].denied = srv[v].denied
        /\ srv'[v].named = srv[v].named /\ srv'[v].blind = srv[v].blind
        /\ srv[v].pending \subseteq srv'[v].pending
        /\ srv'[v].pending \subseteq srv[v].pending \cup {sig}
    BY <1>1, <1>3, SignalledFields
  <2> QED
    BY <2>1 DEF Informed, Looping
<1> QED
  BY <1>2, <1>3

LEMMA InformedByChild ==
  ASSUME LoneServer, TypeInv, DenyInv, NEW v \in Server, NEW k \in Child, ChildStep(k)
  PROVE  Informed(v)'
<1>0. /\ Informed(v) /\ Checked(k)
      /\ srv \in [Server -> ServerState] /\ kid \in [Child -> ChildState]
  BY TypeInvDef DEF ServersTyped, KidsTyped, DenyInv
<1>1. kid[k].pc # "none" => srv[v].pc \notin {"new", "bind", "pid"}
  BY <1>0 DEF Informed
<1>2. CASE BecomeChild(k) \/ CheckIP(k) \/ (\E a \in Addr : Fdenyip(k, a)) \/ Leave(k)
  <2>1. srv'[v] = srv[v] /\ UNCHANGED <<pidFile, arranged>> /\ kid[k].pc # "none"
    BY <1>2 DEF BecomeChild, CheckIP, Fdenyip, Leave
  <2> QED
    BY <1>0, <1>1, <2>1, InformedSignal
<1>3. CASE DenyipSignal(k)
  <2>1. /\ kid[k].pc = "hup" /\ UNCHANGED pidFile
        /\ arranged' = arranged \/ pidFile # NoServer
        /\ srv'[v] = IF v = pidFile THEN Signalled(srv[v], "HUP") ELSE srv[v]
    BY <1>3 DEF DenyipSignal, KillServer
  <2>2. /\ srv'[v].pc = srv[v].pc /\ "TERM" \notin srv'[v].pending
        /\ srv'[v].denied = srv[v].denied /\ srv'[v].named = srv[v].named
        /\ srv'[v].blind = srv[v].blind /\ srv[v].pending \subseteq srv'[v].pending
    <3>1. "TERM" \notin srv[v].pending
      BY <1>0 DEF Informed
    <3> QED
      BY <2>1, <3>1, SignalledFields, ServerFields DEF Signals
  <2>3. ASSUME Looping(v), pidFile # NoServer PROVE "HUP" \in srv'[v].pending
    <3>1. srv'[v] = Signalled(srv[v], "HUP") /\ pidFile = v
      BY <2>1, <2>3, TypeInvDef DEF LoneServer
    <3>2. srv'[v] = [srv[v] EXCEPT !.pending = @ \cup {"HUP"}]
      BY <2>3, <3>1 DEF Signalled, Looping
    <3> QED
      BY <1>0, <3>1, <3>2 DEF ServerState
  <2> QED
    BY <1>0, <1>1, <2>1, <2>2, <2>3 DEF Informed, Looping
<1>4. CASE Ffinish(k) \/ TermChild(k)
  BY <1>4 DEF Ffinish, TermChild, LoneServer
<1>5. CASE Exit(k) \/ StopChild(k)
  <2> DEFINE w == kid[k].server
  <2>1. srv' = [srv EXCEPT ![w] = Signalled(srv[w], "CHLD")]
    BY <1>5 DEF Exit, StopChild
  <2> HIDE DEF w
  <2>2. srv'[v] = srv[v] \/ srv'[v] = Signalled(srv[v], "CHLD")
    BY <1>0, <2>1
  <2>3. kid[k].pc # "none" /\ UNCHANGED <<pidFile, arranged>>
    BY <1>0, <1>5 DEF Exit, StopChild, Checked
  <2> QED
    BY <1>0, <1>1, <2>2, <2>3, InformedSignal
<1> QED
  BY <1>2, <1>3, <1>4, <1>5 DEF ChildStep, ChildMain

\* One child changes to r.
LEMMA CheckedUpdate ==
  ASSUME TypeInv, DenyInv, NEW k \in Child, NEW r, kid' = [kid EXCEPT ![k] = r],
         r.pc \in {"check", "serve", "hup", "exit"} => ~r.parent,
         r.pc \in {"born", "check"} /\ r.kept => r.addr \in r.denied,
         r.pc \in {"serve", "hup"} => ~r.kept
  PROVE  \A j \in Child : Checked(j)'
<1> SUFFICES ASSUME NEW j \in Child PROVE Checked(j)'
  OBVIOUS
<1>1. CASE j = k
  <2>1. kid'[j] = r
    BY <1>1, TypeInvDef DEF KidsTyped
  <2> QED
    BY <2>1 DEF Checked
<1>2. CASE j # k
  <2>1. kid'[j] = kid[j]
    BY <1>2, TypeInvDef DEF KidsTyped
  <2> QED
    BY <2>1 DEF Checked, DenyInv
<1> QED
  BY <1>1, <1>2

LEMMA CheckedByServer ==
  ASSUME LoneServer, TypeInv, DenyInv, NEW v \in Server, OwnStep(v)
  PROVE  \A k \in Child : Checked(k)'
<1>1. CASE UNCHANGED kid
  BY <1>1, SameChecked
<1>2. ASSUME NEW k \in Child, NEW a \in Addr, Fork(v, k, a) PROVE \A j \in Child : Checked(j)'
  <2> DEFINE r == [pc |-> "born", server |-> v, addr |-> a, arg |-> a, parent |-> TRUE,
                   run |-> TRUE, denied |-> srv[v].denied,
                     kept |-> a \in arranged /\ ~srv[v].blind, saved |-> FALSE]
  <2>1. kid' = [kid EXCEPT ![k] = r]
    BY <1>2 DEF Fork
  <2>2. srv[v].blind \/ arranged \subseteq srv[v].denied
    BY <1>2 DEF Fork, At, Looping, DenyInv, Informed
  <2>3. r.pc = "born" /\ r.addr = a /\ r.denied = srv[v].denied
    OBVIOUS
  <2>4. r.kept => a \in arranged /\ ~srv[v].blind
    OBVIOUS
  <2> HIDE DEF r
  <2> QED
    BY <2>1, <2>2, <2>3, <2>4, CheckedUpdate
<1>3. CASE Konec(v)
  <2>1. \A j \in Child : kid'[j] = IF j \in Zombies(v) THEN NoChild ELSE kid[j]
    BY <1>3 DEF Konec
  <2> QED
    BY <2>1 DEF DenyInv, Checked, NoChild
<1>4. ASSUME NEW z \in Zombies(v), kid' = [kid EXCEPT ![z] = NoChild]
      PROVE  \A j \in Child : Checked(j)'
  <2>1. z \in Child /\ NoChild.pc = "none"
    BY DEF Zombies, NoChild
  <2> QED
    BY <1>4, <2>1, CheckedUpdate
<1> QED
  BY <1>1, <1>2, <1>3, <1>4 DEF OwnStep, Load, Accept, Main, Bind, WritePid, PidFails, CheckFinish,
     Reload, ClearReload, SystemFails, Handler, HUPHandler, TermHandler, ReapChild, WaitReturns

LEMMA CheckedByChild ==
  ASSUME LoneServer, TypeInv, DenyInv, NEW k \in Child, ChildStep(k)
  PROVE  \A j \in Child : Checked(j)'
<1> DEFINE s == kid[k]
<1>0. s.pc \notin {"none", "zombie"} => s \in LiveChild
  BY LiveFields
<1>1. Checked(k)
  BY DEF DenyInv
<1>2. CASE BecomeChild(k)
  <2> DEFINE r == [s EXCEPT !.parent = FALSE, !.pc = "check"]
  <2>1. s.pc = "born" /\ kid' = [kid EXCEPT ![k] = r]
    BY <1>2 DEF BecomeChild
  <2>2. r.pc = "check" /\ ~r.parent /\ r.addr = s.addr /\ r.denied = s.denied /\ r.kept = s.kept
    BY <1>0, <2>1 DEF LiveChild
  <2> HIDE DEF r
  <2> QED
    BY <1>1, <2>1, <2>2, CheckedUpdate DEF Checked
<1>3. ASSUME s.pc \notin {"none", "zombie"}, NEW l \in {"serve", "exit"},
             kid' = [kid EXCEPT ![k].pc = l], l = "serve" => ~s.kept, ~s.parent
      PROVE  \A j \in Child : Checked(j)'
  <2> DEFINE r == [s EXCEPT !.pc = l]
  <2>1. kid' = [kid EXCEPT ![k] = r]
    BY <1>3
  <2>2. r.pc = l /\ r.parent = s.parent /\ r.kept = s.kept
    BY <1>0, <1>3 DEF LiveChild
  <2> HIDE DEF r
  <2> QED
    BY <1>3, <2>1, <2>2, CheckedUpdate
<1>4. CASE CheckIP(k)
  <2>1. s.pc = "check" /\ ~s.parent
    BY <1>1, <1>4 DEF CheckIP, Checked
  <2>2. CASE s.addr \in s.denied
    BY <1>3, <1>4, <2>1, <2>2 DEF CheckIP
  <2>3. CASE s.addr \notin s.denied
    BY <1>1, <1>3, <1>4, <2>1, <2>3 DEF CheckIP, Checked
  <2> QED
    BY <2>2, <2>3
<1>5. ASSUME NEW a \in Addr, Fdenyip(k, a) PROVE \A j \in Child : Checked(j)'
  <2>0. PICK lost \in BOOLEAN :
          kid' = [kid EXCEPT ![k].denied = @ \cup {a}, ![k].arg = a, ![k].saved = ~lost,
                             ![k].pc = "hup"]
    BY <1>5 DEF Fdenyip
  <2> DEFINE r == [s EXCEPT !.denied = @ \cup {a}, !.arg = a, !.saved = ~lost, !.pc = "hup"]
  <2>1. s.pc = "serve" /\ kid' = [kid EXCEPT ![k] = r]
    BY <1>5, <2>0 DEF Fdenyip
  <2>2. r.pc = "hup" /\ r.parent = s.parent /\ r.kept = s.kept
    BY <1>0, <2>1 DEF LiveChild
  <2> HIDE DEF r
  <2> QED
    BY <1>1, <2>1, <2>2, CheckedUpdate DEF Checked
<1>6. NextRequest(k) \in {"serve", "exit"}
  BY DEF NextRequest
<1>7. CASE DenyipSignal(k)
  <2> DEFINE r == [s EXCEPT !.pc = NextRequest(k), !.saved = FALSE]
  <2>1. s.pc = "hup" /\ ~s.parent /\ ~s.kept /\ kid' = [kid EXCEPT ![k] = r]
    BY <1>1, <1>7 DEF DenyipSignal, Checked
  <2>2. r.pc \in {"serve", "exit"} /\ r.parent = s.parent /\ r.kept = s.kept
    BY <1>0, <1>6, <2>1 DEF LiveChild
  <2> HIDE DEF r
  <2> QED
    BY <2>1, <2>2, CheckedUpdate
<1>7a. CASE Leave(k)
  <2>1. s.pc \in {"serve", "hup"} /\ ~s.parent /\ ~s.kept
    BY <1>1, <1>7a DEF Leave, Checked
  <2> QED
    BY <1>3, <1>7a, <2>1 DEF Leave
<1>8. CASE Ffinish(k) \/ TermChild(k)
  BY <1>8 DEF Ffinish, TermChild, LoneServer
<1>9. CASE Exit(k)
  <2> DEFINE r == IF Up(s.server) THEN Zombie(s.server) ELSE NoChild
  <2>1. kid' = [kid EXCEPT ![k] = r]
    BY <1>9 DEF Exit
  <2>2. r.pc \in {"none", "zombie"}
    BY DEF Zombie, NoChild
  <2> HIDE DEF r
  <2> QED
    BY <2>1, <2>2, CheckedUpdate
<1>10. CASE StopChild(k)
  BY <1>10, SameChecked DEF StopChild
<1> HIDE DEF s
<1> QED
  BY <1>2, <1>4, <1>5, <1>7, <1>7a, <1>8, <1>9, <1>10 DEF ChildStep, ChildMain

LEMMA DenyStep == ASSUME LoneServer, TypeInv, DenyInv, [Next]_vars PROVE DenyInv'
<1>1. ASSUME NEW w \in Server, ServerStep(w) PROVE DenyInv'
  <2>1. CASE OwnStep(w)
    <3>1. ASSUME NEW v \in Server PROVE Informed(v)'
      BY <2>1, InformedStep DEF LoneServer
    <3> QED
      BY <2>1, <3>1, CheckedByServer DEF DenyInv
  <2>2. CASE Reconfigure(w)
    <3>1. srv' = [srv EXCEPT ![w] = Signalled(srv[w], "HUP")]
          /\ UNCHANGED <<kid, pidFile, arranged>>
      BY <2>2 DEF Reconfigure
    <3>2. ASSUME NEW v \in Server PROVE Informed(v)'
      <4>1. srv'[v] = srv[v] \/ srv'[v] = Signalled(srv[v], "HUP")
        BY <3>1, TypeInvDef DEF ServersTyped
      <4> QED
        BY <3>1, <4>1, InformedSignal DEF DenyInv
    <3> QED
      BY <3>1, <3>2, SameChecked DEF DenyInv
  <2> QED
    BY <1>1, <2>1, <2>2 DEF ServerStep, OwnStep
<1>2. ASSUME NEW k \in Child, ChildStep(k) PROVE DenyInv'
  BY <1>2, InformedByChild, CheckedByChild DEF DenyInv
<1>3. CASE UNCHANGED vars
  <2>1. ASSUME NEW v \in Server PROVE Informed(v)'
    BY <1>3, InformedSignal DEF vars, DenyInv
  <2> QED
    BY <1>3, <2>1, SameChecked DEF vars, DenyInv
<1> QED
  BY <1>1, <1>2, <1>3, NextGroups

LEMMA DenyInvariant == ASSUME LoneServer PROVE Spec => []DenyInv
<1>1. Init => DenyInv
  <2>1. NewServer.pending = {} /\ NewServer.pc = "new" /\ NoChild.pc = "none"
    BY DEF NewServer, NoChild
  <2> QED
    BY <2>1 DEF Init, DenyInv, Informed, Checked, Looping, NewServer
<1>2. TypeInv /\ DenyInv /\ [Next]_vars => DenyInv'
  BY DenyStep
<1> QED
  BY <1>1, <1>2, TypeInvariant, PTL DEF Spec

\* One server that has written its PID into smallFTPd.PID keeps it there, whatever its
\* children do when they end (smallFTPd.cpp main(), the label KONEC) and whatever files
\* cannot be written.
THEOREM PidFileStays == ASSUME LoneServer PROVE Spec => []PidFileKept
<1>1. DenyInv => PidFileKept
  BY DEF DenyInv, Informed, PidFileKept
<1> QED
  BY <1>1, DenyInvariant, PTL

\* A client from an address that DENYIP wrote to the list, and sent a SIGHUP for, before
\* the client's process was forked is not served, though another process did that, unless
\* the server's last look at the list failed (ftpcommands.cpp fdenyip, signaly.cpp
\* HUPHandler, pomocne.cpp LoadIPDenyList and CheckIP).
THEOREM DeniedAddressesStayOut == ASSUME LoneServer PROVE Spec => []DenyEnforced
<1>1. DenyInv => DenyEnforced
  BY DEF DenyInv, Checked, DenyEnforced
<1> QED
  BY <1>1, DenyInvariant, PTL
================================================================================

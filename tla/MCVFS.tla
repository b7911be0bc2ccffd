-------------------------------- MODULE MCVFS --------------------------------
(***************************************************************************)
(* Small instances of VFS: a disk with two shared directories and two that *)
(* are not, and the files vfs.cfg that share them.                         *)
(***************************************************************************)
EXTENDS VFS

Disk == {<<>>, <<"d">>, <<"pub">>, <<"pub", "d">>, <<"pub", "d", "e">>, <<"pub", "x">>,
         <<"pubs">>, <<"inc">>, <<"inc", "d">>, <<"inc", "d", "w">>}
Locked == {<<"pub", "x">>}
Links == <<"pub", "l">> :> <<"inc", "d">> @@ <<"inc", "d", "l">> :> <<"pub", "d">>
      @@ <<"pub", "d", "l">> :> <<"pub">> @@ <<"inc", "l">> :> <<"pubs">>
Beginnings == {<<"pub", "pubs">>}
Files == {<<"f">>, <<"pub", "f">>, <<"pub", "d", "f">>, <<"inc", "f">>, <<"inc", "d", "f">>,
          <<"pubs", "f">>}

Owned(u) == [user |-> u, urights |-> Right, orights |-> {}]
Db == <<"pub", "d", "f">> :> Owned("alice") @@ <<"d">> :> Owned("alice")
   @@ <<"inc", "f">> :> Owned("bob") @@ <<"pubs", "f">> :> Owned("bob")
   @@ <<"inc", "d">> :> [user |-> "alice", urights |-> Right, orights |-> {"read"}]
   @@ <<"pub">> :> [user |-> "bob", urights |-> Right, orights |-> Right]

Line(p, v, u, r, o) == [phys |-> p, virt |-> v, user |-> u, urights |-> r, orights |-> o]
First == {Line(<<"inc">>, <<"v">>, NoUser, {}, Right),
          Line(<<"inc", "d">>, <<"v", "w">>, "alice", Right, {}),
          Line(<<"pub", "l">>, <<"v", "d">>, NoUser, {}, {"read"}),
          Line(<<"pub", "x">>, <<"v">>, NoUser, {}, {"read"}),
          Line(<<>>, <<"v">>, NoUser, {}, {"read", "write"})}
Second == {Line(<<"inc", "d">>, <<"v", "w">>, "alice", Right, {}),
           Line(<<"inc">>, <<"v">>, NoUser, {}, Right),
           Line(<<"pub", "d", "e">>, <<"d">>, "bob", {"read"}, {"read"}),
           Line(<<"none">>, <<"w">>, NoUser, {}, {"read"}),
           Line(<<".", "d">>, <<"v", "w">>, "alice", Right, {}),
           Wrong}
Files2 == {[root |-> <<"pub">>, lines |-> <<a, b>>] : a \in First, b \in Second}
          \cup {[root |-> r, lines |-> <<>>] : r \in {<<>>, <<"pub">>, <<".", "pub">>, NoDir}}

Parts == {"..", "d", "l", "v", "w"}
Ways == SeqOf(Parts, 2) \ {<<>>}
Dirs == Ways \cup {<<"/">>, <<".">>, <<"/", "pub", "d">>}
        \cup {<<"/">> \o p : p \in {q \in Ways : Head(q) \in {"d", "v"}}}
FileDirs == {Append(p, "f") : p \in Dirs \cup {<<>>, <<"/", "v", "l", ".">>}}
================================================================================

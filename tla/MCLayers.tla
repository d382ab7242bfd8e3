------------------------------ MODULE MCLayers ------------------------------
EXTENDS Layers

A == <<"a">>
B == <<"b">>
C == <<"c">>
Order == A :> 4 @@ B :> 5 @@ C :> 6 @@ <<"wh", "a">> :> 1 @@ <<"wh", "c">> :> 2
         @@ <<"wh", "wh", "opq">> :> 0
Map == createIDMap({[start |-> 5, length |-> 1], [start |-> 6, length |-> 1]})

File(mode, uid, data, time, ino) == Node("file", mode, uid, data, time, ino)
Link(uid, ino)   == [Node("symlink", 1, uid, 0, 4, ino) EXCEPT !.to = <<B>>]
Top              == Node("dir", 1, 5, 0, 4, <<0, 0>>)
Files(i)   == {File(1, 5, 1, 4, <<1, i>>), File(2, 6, 2, 8, <<2, i>>), File(1, 5, 2, 7, <<3, i>>)}
Folders(i) == {Node("dir", 1, 5, 0, 4, <<4, i>>), Node("dir", 2, 6, 0, 9, <<5, i>>)}

Tree(a, c, b) ==
  LET at == (<<A>> :> a) @@ (<<A, C>> :> c) @@ (<<B>> :> b)
      in == {p \in DOMAIN at : at[p].kind # "none"}
  IN  [p \in {Root} \cup in |-> IF p = Root THEN Top ELSE at[p]]
None == [kind |-> "none"]

(* The directories of the trees have inodes d, the files inodes i: a tree  *)
(* may have files of another one, but a directory is in one tree.          *)
Trees(d, i) ==
  {Tree(a, None, b) : a \in Files(i) \cup {None, Link(5, <<6, i>>)}, b \in Files(i + 2) \cup {None}}
  \cup {Tree(a, None, a) : a \in Files(i)}
  \cup {Tree(a, c, b) : a \in Folders(d), c \in Files(i) \cup {None},
                        b \in {None, File(1, 5, 1, 4, <<1, i>>)}}
White(i) == Node("white", 0, 0, 0, 4, <<7, i>>)
Uppers ==
  {Tree(a, c, b) : a \in Folders(2) \cup {[d EXCEPT !.opq = TRUE] : d \in Folders(2)},
                   c \in {None, White(2), File(2, 6, 2, 8, <<2, 2>>)},
                   b \in {None, White(2), White(3), File(2, 6, 2, 8, <<2, 2>>)}}
  \cup {Tree(a, None, a) : a \in Files(2)}
  \cup {Tree(a, None, b) : a \in {None, White(2)} \cup Files(2), b \in {None} \cup Files(2)}

Options == [TarOptions EXCEPT !.order = Order]
MCDiffs ==
  {[kind |-> "diff", old |-> o, new |-> n, opts |-> Options] :
     o \in Trees(1, 1), n \in Trees(2, 1) \cup Trees(2, 2)}
Layered ==
  {[kind |-> k, old |-> o, new |-> n, opts |-> [Options EXCEPT !.format = "overlay", !.map = Map]] :
     o \in Trees(1, 1), n \in Uppers, k \in {"overlay", "upper"}}

(* Copying.                                                                *)
D == <<"d">>
E == <<"e">>
F == <<"f">>
L == <<"l">>
N == <<"n">>
CopyTree(to) ==
  LET at == (Root :> Top) @@ (<<D>> :> Node("dir", 1, 5, 0, 4, <<1>>)) @@ (<<D, F>> :> File(1, 5, 1, 4, <<2>>))
            @@ (<<E>> :> Node("dir", 1, 5, 0, 4, <<3>>)) @@ (<<F>> :> File(1, 5, 2, 4, <<4>>))
            @@ (<<L>> :> [Link(5, <<5>>) EXCEPT !.to = to])
  IN  {at, at @@ (<<E, D>> :> Node("dir", 1, 5, 0, 4, <<6>>)), at @@ (<<E, D>> :> File(1, 5, 3, 4, <<7>>)),
       at @@ (<<E, F>> :> Node("dir", 1, 5, 0, 4, <<8>>)), at @@ (<<D, L>> :> File(1, 5, 1, 4, <<2>>))}
Ends(p) == {Written(p, e) : e \in {"", "/", "/."}}
Sources == UNION {Ends(p) : p \in {<<D>>, <<F>>, <<L>>, <<N>>}} \cup {Written(<<D, F>>, "")}
Targets == UNION {Ends(p) : p \in {<<E>>, <<F>>, <<L>>, <<N>>, <<E, N>>}} \cup {Written(<<N, N>>, "")}
NameOrder == D :> 1 @@ E :> 2 @@ F :> 3 @@ L :> 4 @@ N :> 5 @@ Dot :> 0 @@ <<"c">> :> 6 @@ <<".i">> :> 7
(* No directory is copied into itself.                                     *)
Apart(t, a, b) ==
  LET from == EvalSymlinks(t, a.path)
      to   == EvalSymlinks(t, FollowDestination(t, b).path)
  IN  from = NoPath \/ to = NoPath \/ ~IsPrefix(from, to) \/ ~IsDir(t, from)
Copies ==
  {j \in {[kind |-> "copy", old |-> t, src |-> a, dst |-> b, followLink |-> f,
           opts |-> [TarOptions EXCEPT !.order = NameOrder]] :
            t \in UNION {CopyTree(to) : to \in {<<D>>, <<F>>, <<E>>, <<N>>}}, a \in Sources, b \in Targets, f \in BOOLEAN} :
     Apart(j.old, j.src, j.dst)}

(* Build contexts.                                                         *)
ContextTree(m) ==
  (Root :> Top) @@ (<<D>> :> Node("dir", m[4], 5, 0, 4, <<1>>)) @@ (<<D, F>> :> File(m[1], 5, 1, 4, <<2>>))
  @@ (<<D, C>> :> File(m[2], 5, 1, 4, <<3>>)) @@ (<<F>> :> File(m[3], 5, 1, 4, <<4>>))
  @@ (Dockerignore :> File(1, 5, 1, 4, <<5>>))
Excludes == {<<"d">>, <<"*">>, <<"d", "/", "*">>, <<"*", "*", "/", "f">>, <<"f">>, <<"!", "f">>,
             <<"!", "d">>, <<"!", "d", "/", "c">>, <<"d", "/", "f">>, <<"?">>,
             <<"*", "*", "/", "d">>, <<"d", "/", "*", "*">>, <<"!", "*", "/", "c">>}
Contexts ==
  {[kind |-> "context", new |-> ContextTree(m), excludes |-> x, dockerfile |-> f,
    opts |-> [TarOptions EXCEPT !.order = NameOrder]] :
     m \in {<<1, 1, 1, 1>>, <<0, 1, 1, 1>>, <<1, 0, 1, 1>>, <<1, 1, 0, 1>>, <<1, 1, 1, 0>>},
     x \in {<<e>> : e \in Excludes} \cup {<<e, g>> : e, g \in Excludes}
           \cup {<<e, g, h>> : e, h \in Excludes, g \in {<<"!", "d">>, <<"*">>}},
     f \in {<<F>>, <<D, F>>}}

MCArchives == Layered \cup Copies \cup Contexts

Spec == InitLayers /\ [][NextLayers]_vars
=============================================================================

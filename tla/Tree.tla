-------------------------------- MODULE Tree --------------------------------
(***************************************************************************)
(* Directory trees and the calls of package os on them, as the packages    *)
(* archive, fileutils and idtools use them (external to the repository).   *)
(*                                                                         *)
(* A name is a sequence of tokens, so that a prefix of a name is a prefix  *)
(* of the sequence: <<"a">>, and <<"wh", "a">> for ".wh.a".  A path is a   *)
(* sequence of names, the root is the empty one.  A tree is a function     *)
(* from its paths to nodes; the root is always there, so the empty         *)
(* function can stand for the error of a call that changes a tree.         *)
(***************************************************************************)
EXTENDS Naturals, Sequences, FiniteSets, SequencesExt

Root    == <<>>
Dir(p)  == IF p = Root THEN Root ELSE Front(p)
Base(p) == IF p = Root THEN <<>> ELSE Last(p)
Below(p, q) == IsStrictPrefix(p, q)    \* q is inside the directory p

NoTree == <<>>       \* an error instead of a tree
Now    == 100        \* the modification time that a change of a directory leaves

(* Times count quarters of a second.                                       *)
Sec(time)  == time \div 4
Nsec(time) == time % 4

(* uid stands for the pair of uid and gid; opq is the extended attribute   *)
(* trusted.overlay.opaque, cap is security.capability; "white" is the      *)
(* character device 0/0, "dev" another one; to is where a symbolic link     *)
(* leads: a path from the root, or Outside of the tree that is unpacked.    *)
Outside == <<<<"..">>>>
Node(kind, mode, uid, data, time, ino) ==
  [kind |-> kind, mode |-> mode, uid |-> uid, data |-> data, time |-> time,
   ino |-> ino, cap |-> "", opq |-> FALSE, to |-> Root]
Folder(uid) == Node("dir", 1, uid, 0, Now, <<>>)
Size(n)     == IF n.data = 0 THEN 0 ELSE 1    \* all contents but the empty one have one size

IsDir(t, p) == p \in DOMAIN t /\ t[p].kind = "dir"
Stat(t, p)  == IF p \in DOMAIN t THEN "ok"
               ELSE IF \E q \in DOMAIN t : Below(q, p) /\ ~IsDir(t, q) THEN "ENOTDIR" ELSE "ENOENT"
Inside(t, p) == {q \in DOMAIN t : Below(p, q)}
Links(t, p)  == {q \in DOMAIN t : t[q].kind # "dir" /\ t[q].ino = t[p].ino}

Touch(t, p) == IF p \in DOMAIN t THEN [t EXCEPT ![p].time = Now] ELSE t
Put(t, p, n) ==
  IF ~IsDir(t, Dir(p)) THEN NoTree
  ELSE [q \in DOMAIN t \cup {p} |-> IF q = p THEN n ELSE Touch(t, Dir(p))[q]]
RemoveAll(t, p) ==
  IF p \notin DOMAIN t THEN t
  ELSE Touch([q \in {r \in DOMAIN t : ~IsPrefix(p, r)} |-> t[q]], Dir(p))
MkdirAll(t, p, n) ==
  IF Stat(t, p) = "ENOTDIR" THEN NoTree
  ELSE [q \in DOMAIN t \cup {r \in {SubSeq(p, 1, k) : k \in 0 .. Len(p)} : TRUE} |->
          IF q \notin DOMAIN t THEN n
          ELSE IF IsPrefix(q, p) /\ q # p /\ SubSeq(p, 1, Len(q) + 1) \notin DOMAIN t
               THEN Touch(t, q)[q] ELSE t[q]]

(* The order in which Walk visits, and in which sort.Sort puts, paths: a   *)
(* directory before what is in it.                                         *)
Before(order, p, q) ==
  \/ Below(p, q)
  \/ \E i \in 1 .. Len(p) : /\ i <= Len(q) /\ SubSeq(p, 1, i - 1) = SubSeq(q, 1, i - 1)
                            /\ p[i] # q[i] /\ order[p[i]] < order[q[i]]
Sorted(order, S) == SetToSortSeq(S, LAMBDA p, q : Before(order, p, q))
=============================================================================

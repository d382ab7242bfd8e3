------------------------------ MODULE Changes ------------------------------
(***************************************************************************)
(* Differences of directory trees (docker/pkg/archive/changes.go,          *)
(* changes_linux.go, changes_unix.go): ChangesDirs compares two trees,     *)
(* ExportChanges packs the differences as a layer.                         *)
(***************************************************************************)
EXTENDS Archive

Change(path, kind) == [path |-> path, kind |-> kind]

sameFsTime(a, b) ==
  Sec(a) = Sec(b) /\ (Nsec(a) = Nsec(b) \/ Nsec(a) = 0 \/ Nsec(b) = 0)

(* data is the device of a device file.  In the code the test for a        *)
(* directory is one bit of the mode, which block devices and sockets have  *)
(* too: they are no kinds of nodes here.                                   *)
statDifferent(old, new) ==
  \/ old.kind # new.kind \/ old.mode # new.mode \/ old.uid # new.uid
  \/ old.kind \in {"dev", "white"} /\ old.data # new.data
  \/ old.kind # "dir" /\ (~sameFsTime(old.time, new.time) \/ Size(old) # Size(new))

(* walker.walk: a path that is the same file in both trees (equal inodes   *)
(* on one device) is left out of both, with what is in it.                 *)
SameInode(t, other, r) ==
  r \in DOMAIN t /\ r \in DOMAIN other /\ r # Root /\ t[r].ino = other[r].ino
Pruned(t, other) ==
  [p \in {q \in DOMAIN t : \A r \in DOMAIN t : SameInode(t, other, r) => ~IsPrefix(r, q)} |-> t[p]]

(* FileInfo.addChanges.  A directory of the new tree with a change inside  *)
(* is a change itself; what was in a directory that is none any more is    *)
(* not listed.                                                             *)
addChanges(new, old) ==
  LET added   == {p \in DOMAIN new : p \notin DOMAIN old}
      changed == {p \in (DOMAIN new \cap DOMAIN old) \ {Root} :
                    statDifferent(old[p], new[p]) \/ old[p].cap # new[p].cap}
      deleted == {p \in DOMAIN old : p \notin DOMAIN new /\ IsDir(new, Dir(p))}
      around  == {p \in DOMAIN new \ {Root} :
                    IsDir(new, p) /\ \E q \in added \cup changed \cup deleted : Below(p, q)}
  IN  {Change(p, "A") : p \in added} \cup {Change(p, "D") : p \in deleted}
      \cup {Change(p, "C") : p \in (changed \cup around) \ added}

ChangesDirs(new, old) == addChanges(Pruned(new, old), Pruned(old, new))

(* The loop body of ExportChanges: out is the header that a change gives,  *)
(* if any.  After a file without its data every header is refused.         *)
ExportChange(ta, t, c, opts) ==
  LET next == [ta EXCEPT !.out = <<>>]
      gone == Header(Whiteout(c.path), "file", Root, Node("file", 0, 0, 0, Now, <<>>))
  IN  IF c.kind # "D" THEN addTarFile(next, t, c.path, c.path, opts)
      ELSE IF ta.broken THEN next ELSE [next EXCEPT !.out = <<gone>>]

(* Two trees are the same to a user: all but the inodes, and the times    *)
(* that matter up to what an archive keeps or to what no comparison sees.  *)
(* Those of files matter, and those of dirs.                               *)
SameTime(a, b) == Sec(a + 2) = Sec(b + 2) \/ sameFsTime(a, b)
SameNode(n, m, times) ==
  /\ n.kind = m.kind /\ n.mode = m.mode /\ n.uid = m.uid /\ n.data = m.data /\ n.cap = m.cap
  /\ n.to = m.to
  /\ times => SameTime(n.time, m.time)
SameTree(t, u, dirs) ==
  /\ DOMAIN t = DOMAIN u
  /\ \A p \in DOMAIN t \ {Root} : SameNode(t[p], u[p], t[p].kind # "dir" \/ p \in dirs)

(* A change of content that nothing shows: same size, same second, and one *)
(* of the two times without a fraction; or a link that leads elsewhere.    *)
Hidden(old, new) ==
  \E p \in DOMAIN old \cap DOMAIN new :
     /\ old[p].data # new[p].data \/ old[p].to # new[p].to
     /\ ~statDifferent(old[p], new[p]) /\ old[p].ino # new[p].ino
=============================================================================

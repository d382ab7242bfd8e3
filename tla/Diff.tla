-------------------------------- MODULE Diff --------------------------------
(***************************************************************************)
(* Carrying the difference of two directories as a layer                   *)
(* (docker/pkg/archive/changes.go, archive.go, diff.go): ChangesDirs       *)
(* compares them, ExportChanges packs the changes into a pipe, UnpackLayer *)
(* reads them from it and changes a copy of the old directory.             *)
(*                                                                         *)
(* One step packs one change and unpacks its header.  The packer only      *)
(* reads the new directory and the unpacker only the pipe, so how far the  *)
(* one is ahead of the other makes no difference.                          *)
(***************************************************************************)
EXTENDS Changes

CONSTANT Diffs      \* the differences to carry: old, new, and the options

Name == Seq(STRING)
Path == Seq(Name)
NodeType ==
  [kind : {"dir", "file", "symlink", "dev"}, mode : Nat, uid : Nat, data : Nat, time : Nat,
   ino : Seq(Nat), cap : STRING, opq : BOOLEAN, to : Path]

(* A directory tree as it is on a disk: what is in a directory is below    *)
(* it, the names of one inode show one node, a link leads nowhere outside, *)
(* and no name is that of a whiteout.  An inode is a pair, which those     *)
(* that unpacking makes are not.                                           *)
PlainName(name) == name # <<>> /\ ~HasWhiteout(name) /\ name \notin {Dot, DotDot}
OnDisk(t) ==
  /\ IsDir(t, Root)
  /\ \A p \in DOMAIN t :
       /\ p \in Path /\ t[p] \in NodeType /\ Len(t[p].ino) = 2
       /\ \A k \in 1 .. Len(p) : PlainName(p[k]) /\ IsDir(t, SubSeq(p, 1, k - 1))
       /\ t[p].kind = "dir" => t[p].data = 0 /\ t[p].cap = "" /\ t[p].to = Root
       /\ t[p].kind = "symlink" => t[p].to # Outside
  /\ \A p, q \in DOMAIN t : t[p].kind # "dir" /\ t[q].kind # "dir" /\ t[p].ino = t[q].ino => t[p] = t[q]

(* A path with one inode in both is one file, or one directory with all    *)
(* that is in it; the files of the new directory can be read, and those    *)
(* of several names have no special bits, which unpacking loses.           *)
Comparable(old, new) ==
  /\ OnDisk(old) /\ OnDisk(new)
  /\ \A r \in DOMAIN new : SameInode(new, old, r) =>
       \A q \in DOMAIN new \cup DOMAIN old : IsPrefix(r, q) =>
         q \in DOMAIN new /\ q \in DOMAIN old /\ old[q] = new[q]
  /\ \A p \in DOMAIN new : new[p].kind = "file" => new[p].mode # 0
  /\ \A p, q \in DOMAIN new : p # q /\ new[p].kind # "dir" /\ new[q].kind # "dir" /\ new[p].ino = new[q].ino =>
       Unprivileged(new[p].mode) = new[p].mode

ASSUME DiffsAssumption ==
  \A j \in Diffs : /\ j.kind = "diff" /\ Comparable(j.old, j.new)
                   /\ j.opts = [TarOptions EXCEPT !.order = j.opts.order]

VARIABLES
  job,      \* what is done: its kind, the two trees, the options
  todo,     \* the changes not exported yet
  ta,       \* the tarAppender
  s,        \* the locals of UnpackLayer
  outcome   \* "run", then "ok" or the error

diffVars == <<job, todo, ta, s, outcome>>

InitDiff ==
  /\ job \in Diffs
  /\ todo = ChangesDirs(job.new, job.old)
  /\ ta = NewTarAppender
  /\ s = StartUnpack(job.old)
  /\ outcome = "run"

(* The changes are exported by path; a change may give no header.          *)
NextChange ==
  /\ outcome = "run"
  /\ \E c \in todo :
       /\ \A d \in todo : ~Before(job.opts.order, d.path, c.path)
       /\ todo' = todo \ {c}
       /\ ta' = ExportChange(ta, job.new, c, job.opts)
  /\ s' = IF ta'.out = <<>> THEN s ELSE UnpackLayerEntry(s, ta'.out[1], job.opts)
  /\ outcome' = IF s'.err = "" THEN "run" ELSE s'.err
  /\ UNCHANGED job

(* At the end of the archive the directories get their times.              *)
NextTime ==
  /\ outcome = "run" /\ todo = {} /\ s.dirs # <<>>
  /\ s' = SetTime(s)
  /\ outcome' = IF s'.err = "" THEN "run" ELSE s'.err
  /\ UNCHANGED <<job, todo, ta>>
Done ==
  /\ outcome = "run" /\ todo = {} /\ s.dirs = <<>>
  /\ outcome' = "ok"
  /\ UNCHANGED <<job, todo, ta, s>>

NextDiff == NextChange \/ NextTime \/ Done
SpecDiff == InitDiff /\ [][NextDiff]_diffVars

---------------------------------------------------------------------------
(* A layer carries all of a difference: the changes between two            *)
(* directories, exported and unpacked onto the old one, give the new one,  *)
(* with the times of every directory whose entries changed, although       *)
(* unpacking touches the directories on its way.  What Comparable leaves   *)
(* out is lost or refused: files that cannot be read, and special mode     *)
(* bits of files of several names.  (changes.go, archive.go, diff.go)      *)
Regained ==
  job.kind = "diff" /\ outcome # "run" /\ ~Hidden(job.old, job.new) =>
    /\ outcome = "ok"
    /\ SameTree(s.t, job.new,
                {p \in DOMAIN job.new : IsDir(job.old, p) => Inside(job.old, p) # Inside(job.new, p)})
=============================================================================

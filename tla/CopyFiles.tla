----------------------------- MODULE CopyFiles -----------------------------
(***************************************************************************)
(* Copying a file or directory by way of an archive, as cp does            *)
(* (docker/pkg/archive/copy.go).  A path as a caller writes it is a clean  *)
(* path and its ending: "", "/" or "/.".                                   *)
(***************************************************************************)
EXTENDS Packing, Symlinks

Written(path, end) == [path |-> path, end |-> end]
assertsDirectory(w)     == w.end # ""
specifiesCurrentDir(w)  == w.end = "/."
BaseName(w) == IF specifiesCurrentDir(w) THEN Dot ELSE Base(w.path)
SplitPathDirEntry(w) ==
  IF specifiesCurrentDir(w) THEN [dir |-> w.path, base |-> Dot]
  ELSE [dir |-> Dir(w.path), base |-> Base(w.path)]

(* os.Lstat of a written path: an ending follows links and asks for a      *)
(* directory.                                                              *)
Lstat(t, w) ==
  LET parent == EvalSymlinks(t, Dir(w.path))
      p      == IF w.path = Root THEN Root ELSE Append(parent, Base(w.path))
      real   == EvalSymlinks(t, w.path)
  IN  IF w.end = "" THEN IF parent # NoPath /\ p \in DOMAIN t THEN t[p].kind ELSE Stat(t, w.path)
      ELSE IF real = NoPath THEN IF Stat(t, w.path) = "ok" THEN "ENOENT" ELSE Stat(t, w.path)
      ELSE IF IsDir(t, real) THEN "dir" ELSE "ENOTDIR"
Missing(st) == st \in {"ENOENT", "ENOTDIR"}

CopyInfo(w, exists, isDir, rebase) ==
  [at |-> w, exists |-> exists, isDir |-> isDir, rebase |-> rebase, err |-> FALSE]
NoInfo == [CopyInfo(Written(Root, ""), FALSE, FALSE, <<>>) EXCEPT !.err = TRUE]

\* A bug GetRebaseName does not have: the name of the link's target stays.
NoRebaseName(w, resolved) == [at |-> Written(resolved, w.end), rebase |-> <<>>]
GetRebaseName(w, resolved) ==
  LET full == Written(resolved, w.end)
  IN  [at |-> full, rebase |-> IF BaseName(w) # BaseName(full) THEN BaseName(w) ELSE <<>>]

(* Without followLink only the part before the last separator is resolved: *)
(* all of the path when it ends with one.                                  *)
ResolveHostSourcePath(t, w, followLink) ==
  LET real   == EvalSymlinks(t, w.path)
      parent == EvalSymlinks(t, Dir(w.path))
  IN  IF followLink \/ w.end # ""
      THEN LET r == GetRebaseName(w, real)
           IN  [r EXCEPT !.rebase = IF followLink \/ w.end = "/" THEN @ ELSE <<>>]
      ELSE [at |-> Written(IF parent = NoPath THEN NoPath ELSE Append(parent, Base(w.path)), ""),
            rebase |-> <<>>]

CopyInfoSourcePath(t, w, followLink) ==
  LET r == ResolveHostSourcePath(t, w, followLink)
  IN  IF r.at.path = NoPath \/ Missing(Lstat(t, r.at)) THEN NoInfo
      ELSE CopyInfo(r.at, TRUE, Lstat(t, r.at) = "dir", r.rebase)

(* A destination that is a link is where the link leads, also when nothing *)
(* is there; the directory that it is in must exist.  n links have been    *)
(* followed.                                                               *)
maxSymlinkIter == 10
RECURSIVE Followed(_, _, _)
Followed(t, w, n) ==
  IF Lstat(t, w) # "symlink" THEN w
  ELSE IF n > maxSymlinkIter THEN Written(NoPath, "")
  ELSE Followed(t, Written(t[Append(EvalSymlinks(t, Dir(w.path)), Base(w.path))].to, ""), n + 1)
FollowDestination(t, w) == Followed(t, w, 0)
CopyInfoDestinationPath(t, w) ==
  LET at     == FollowDestination(t, w)
      st     == Lstat(t, at)
      parent == EvalSymlinks(t, SplitPathDirEntry(at).dir)
  IN  IF at.path = NoPath THEN NoInfo
      ELSE IF ~Missing(st) THEN CopyInfo(at, TRUE, st = "dir", <<>>)
      ELSE IF st = "ENOTDIR" \/ parent = NoPath \/ ~IsDir(t, parent) THEN NoInfo
      ELSE CopyInfo(at, FALSE, FALSE, <<>>)

(* RebaseArchiveEntries: every name of these archives begins with oldBase. *)
RebaseArchiveEntries(stream, oldBase, newBase) ==
  LET renamed(name) == IF name # Root /\ name[1] = oldBase THEN <<newBase>> \o Tail(name) ELSE name
  IN  [i \in 1 .. Len(stream) |->
         [stream[i] EXCEPT !.name = renamed(@), !.link = IF stream[i].type = "link" THEN renamed(@) ELSE @]]

(* PrepareArchiveCopy: where to unpack, and what.                          *)
PrepareArchiveCopy(stream, src, dst) ==
  LET to      == SplitPathDirEntry(dst.at)
      srcBase == IF src.rebase # <<>> THEN src.rebase ELSE SplitPathDirEntry(src.at).base
      rebased == [dir |-> to.dir, stream |-> RebaseArchiveEntries(stream, srcBase, to.base), err |-> ""]
      refuse(err) == [dir |-> Root, stream |-> <<>>, err |-> err]
  IN  CASE dst.exists /\ dst.isDir -> [dir |-> dst.at.path, stream |-> stream, err |-> ""]
        [] dst.exists /\ ~dst.isDir /\ src.isDir -> refuse("ErrCannotCopyDir")
        [] dst.exists /\ ~dst.isDir /\ ~src.isDir -> rebased
        [] ~dst.exists /\ src.isDir -> rebased
        [] ~dst.exists /\ ~src.isDir /\ assertsDirectory(dst.at) -> refuse("ErrDirNotExists")
        [] OTHER -> rebased

(* TarResource, with TarResourceRebase and TarResourceRebaseOpts.          *)
TarResource(t, src, order) ==
  LET from    == SplitPathDirEntry(src.at)
      include == IF from.base = Dot THEN Root ELSE <<from.base>>
      opts    == [TarOptions EXCEPT !.includes = <<include>>, !.sourceDir = TRUE, !.order = order,
                                    !.rebase = (include :> IF src.rebase = <<>> THEN <<>> ELSE <<src.rebase>>)]
  IN  TarWithOptions(t, from.dir, opts).out

(* CopyResource and CopyTo up to the Untar, which gets these options.      *)
CopyResource(t, src, dst, followLink, order) ==
  LET from == CopyInfoSourcePath(t, src, followLink)
      to   == CopyInfoDestinationPath(t, dst)
      plan == PrepareArchiveCopy(TarResource(t, from, order), from, to)
  IN  IF from.err \/ to.err THEN [dir |-> Root, stream |-> <<>>, err |-> "stat"] ELSE plan
CopyToOptions(dir, order) ==
  [TarOptions EXCEPT !.noLchown = TRUE, !.noOverwrite = TRUE, !.dest = dir, !.order = order]

(***************************************************************************)
(* What cp does, stated on trees: the name under which the source arrives, *)
(* and the tree with the source merged there.                              *)
(***************************************************************************)
CpTarget(t, src, dst, followLink) ==
  LET from   == IF followLink \/ src.end # "" THEN EvalSymlinks(t, src.path)
                ELSE LET d == EvalSymlinks(t, Dir(src.path))
                     IN  IF d = NoPath THEN NoPath ELSE Append(d, Base(src.path))
      at     == FollowDestination(t, dst)
      parent == EvalSymlinks(t, IF at.end = "/." THEN at.path ELSE Dir(at.path))
      there  == EvalSymlinks(t, at.path)
      no     == [from |-> Root, to |-> NoPath]
  IN  IF from \notin DOMAIN t \/ (src.end # "" /\ ~IsDir(t, from)) THEN no
      ELSE IF there # NoPath
           THEN IF IsDir(t, there)
                THEN [from |-> from, to |-> IF specifiesCurrentDir(src) THEN there
                                            ELSE Append(there, Base(src.path))]
                ELSE IF IsDir(t, from) \/ at.end # "" THEN no ELSE [from |-> from, to |-> there]
      ELSE IF parent = NoPath \/ ~IsDir(t, parent) \/ (at.end # "" /\ ~IsDir(t, from)) THEN no
      ELSE [from |-> from, to |-> Append(parent, Base(at.path))]

CpConflict(t, c) ==
  \E q \in DOMAIN t : IsPrefix(c.from, q) /\
    LET there == c.to \o SubSeq(q, Len(c.from) + 1, Len(q))
    IN  there \in DOMAIN t /\ IsDir(t, there) # IsDir(t, q)
CpResult(t, c) ==
  LET copied == {c.to \o SubSeq(q, Len(c.from) + 1, Len(q)) : q \in {r \in DOMAIN t : IsPrefix(c.from, r)}}
  IN  [p \in DOMAIN t \cup copied |->
         IF p \in copied THEN t[c.from \o SubSeq(p, Len(c.to) + 1, Len(p))] ELSE t[p]]
=============================================================================

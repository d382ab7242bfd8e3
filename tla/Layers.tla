------------------------------- MODULE Layers -------------------------------
(***************************************************************************)
(* Unpacking as it happens: one step for each header of the archive, so    *)
(* that an error leaves what was unpacked before it.                       *)
(*                                                                         *)
(* A job is an archive made from a tree and the tree it is unpacked onto:  *)
(*   "diff"     ExportChanges of ChangesDirs(new, old), onto old, one      *)
(*              change at a time (Diff);                                   *)
(*   "overlay"  the upper directory of an overlay packed with the overlay  *)
(*              format, as a layer onto the lower directory;               *)
(*   "upper"    the same archive unpacked with the overlay format, onto    *)
(*              an empty directory;                                        *)
(*   "copy"     CopyResource from one path of a tree to another;           *)
(*   "context"  a build context, unpacked onto an empty directory, as the  *)
(*              daemon does (external).                                    *)
(***************************************************************************)
EXTENDS Diff, Overlay, CopyFiles, Context

CONSTANT Archives     \* the jobs of the other kinds

VARIABLE stream       \* the headers not read yet; none for a "diff"

vars == <<job, todo, ta, s, outcome, stream>>

EmptyTree == [p \in {Root} |-> Folder(0)]
Plan(j)   == CopyResource(j.old, j.src, j.dst, j.followLink, j.opts.order)
Refused(j) ==
  CASE j.kind = "copy"    -> Plan(j).err
    [] j.kind = "context" -> IF validateContextDirectory(j.new, j.excludes) THEN "unreadable" ELSE ""
    [] OTHER              -> ""
ContextTar(j) == TarWithOptions(j.new, Root, createTarStream(j.excludes, j.dockerfile, j.opts.order))
Stream(j) ==
  CASE j.kind = "copy"    -> Plan(j).stream
    [] j.kind = "context" -> ContextTar(j).out
    [] OTHER              -> TarWithOptions(j.new, Root, j.opts).out
UntarOptions(j) ==
  IF j.kind = "copy" THEN CopyToOptions(EvalSymlinks(j.old, Plan(j).dir), j.opts.order) ELSE j.opts

InitArchive ==
  /\ job \in Archives
  /\ todo = {} /\ ta = NewTarAppender
  /\ stream = IF Refused(job) = "" THEN Stream(job) ELSE <<>>
  /\ s = StartUnpack(IF job.kind \in {"upper", "context"} THEN EmptyTree ELSE job.old)
  /\ outcome = IF Refused(job) = "" THEN "run" ELSE Refused(job)

(* UnpackLayer, as ApplyLayer and ApplyUncompressedLayer call it.          *)
LayerHeader ==
  /\ outcome = "run" /\ job.kind = "overlay" /\ stream # <<>>
  /\ s' = UnpackLayerEntry(s, Head(stream), job.opts)
  /\ outcome' = IF s'.err = "" THEN "run" ELSE s'.err
  /\ stream' = Tail(stream)
  /\ UNCHANGED <<job, todo, ta>>

(* Unpack, as Untar and UntarUncompressed call it.                         *)
UntarHeader ==
  /\ outcome = "run" /\ job.kind \in {"upper", "copy", "context"} /\ stream # <<>>
  /\ s' = UnpackEntry(s, Head(stream), UntarOptions(job))
  /\ outcome' = IF s'.err = "" THEN "run" ELSE s'.err
  /\ stream' = Tail(stream)
  /\ UNCHANGED <<job, todo, ta>>

(* The steps of a difference, and the end of every archive.                *)
Drained == stream = <<>> /\ UNCHANGED stream /\ NextDiff

InitLayers == (InitDiff /\ stream = <<>>) \/ InitArchive
NextLayers == LayerHeader \/ UntarHeader \/ Drained

---------------------------------------------------------------------------
(* The whiteouts of overlay become those of a layer and nothing is lost:   *)
(* the packed upper directory, unpacked as a layer onto the lower one,     *)
(* gives what overlay shows of the two.  (archive_linux.go, diff.go)  And  *)
(* OverlayChanges names every file that was added, changed or deleted, or  *)
(* a directory around it that was deleted or is opaque; a link to nothing  *)
(* counts as no file that it could change.  (changes.go)  No tree has a    *)
(* file of several names with special mode bits, which unpacking loses.    *)
Listed(list, c, old) ==
  \E i \in 1 .. Len(list) :
    \/ IsPrefix(list[i].path, c.path) /\ list[i].kind = "D"
    \/ list[i] = c
    \/ list[i] = Change(c.path, "A") /\ EvalSymlinks(old, c.path) = NoPath
ShowsMerged ==
  job.kind = "overlay" /\ outcome # "run" =>
    LET merged == Merged(job.old, job.new)
        found  == OverlayChanges(job.new, <<job.old>>, job.opts.order)
    IN  /\ outcome = "ok" /\ SameTree(s.t, merged, {})
        /\ ~found.err => \A c \in ChangesDirs(merged, job.old) :
             c.kind # "C" \/ ~IsDir(merged, c.path) => Listed(found.list, c, job.old)

(* And unpacked with the overlay format it is the upper directory again,   *)
(* deleted files and opaque directories included, with the owners of all   *)
(* but the whiteouts; and names of one file are names of one file.         *)
(* (archive.go, archive_linux.go)                                          *)
UpperAgain ==
  job.kind = "upper" /\ outcome # "run" =>
    /\ outcome = "ok" /\ DOMAIN s.t = DOMAIN job.new
    /\ \A p \in DOMAIN s.t \ {Root} :
         /\ s.t[p].opq = job.new[p].opq
         /\ IF job.new[p].kind = "white" THEN s.t[p].kind = "white"
            ELSE /\ SameNode(s.t[p], job.new[p], TRUE)
                 /\ ~IsDir(job.new, p) => \A q \in Links(job.new, p) : s.t[p].ino = s.t[q].ino

(* CopyResource does what cp does: a file or directory arrives under the   *)
(* name that cp gives it, merged with what is there, and is refused where  *)
(* cp refuses it, with links and endings of both paths.  A file copied     *)
(* onto itself, which cp refuses, is to stay as it is, and no directory is *)
(* copied into itself.  (copy.go)                                          *)
CopiesLikeCp ==
  job.kind = "copy" /\ outcome # "run" =>
    LET c == CpTarget(job.old, job.src, job.dst, job.followLink)
    IN  IF c.to = NoPath \/ CpConflict(job.old, c) THEN outcome # "ok"
        ELSE /\ outcome = "ok" /\ DOMAIN s.t = DOMAIN CpResult(job.old, c)
             /\ \A p \in DOMAIN s.t : LET n == CpResult(job.old, c)[p] IN
                  s.t[p].kind = n.kind /\ s.t[p].data = n.data /\ s.t[p].to = n.to

(* The build gets the files that .dockerignore leaves and the Dockerfile,  *)
(* and no other, unless the context is refused: a directory that is passed *)
(* over loses no file that an exception without wildcards brings back.     *)
(* This is not so of what is in a directory that a "**" pattern excludes,  *)
(* and Matches does not know it: a Dockerfile there is lost (Buried), and  *)
(* if the Walk enters it for an exception, other files come (Reentered).   *)
(* (tar.go, archive.go, fileutils.go)                                      *)
ContextArrives ==
  job.kind = "context" /\ outcome \notin {"run", "unreadable"}
  /\ ~WildException(job.excludes) /\ ~Overlooked(job.new, job.excludes, job.dockerfile) =>
    LET came == {p \in DOMAIN s.t : ~IsDir(s.t, p)}
        due  == InContext(job.new, job.excludes, job.dockerfile)
    IN  /\ \A p \in due \ came : p = job.dockerfile /\ Buried(job.excludes, p)
        /\ \A p \in came \ due : Reentered(job.excludes, p)
=============================================================================

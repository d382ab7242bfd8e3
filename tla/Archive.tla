------------------------------ MODULE Archive ------------------------------
(***************************************************************************)
(* Tar archives of directory trees (docker/pkg/archive/archive.go,         *)
(* archive_linux.go, archive_unix.go, diff.go): packing a tree, unpacking  *)
(* a tree, and unpacking a layer with its whiteouts onto another tree.     *)
(*                                                                         *)
(* An archive is a sequence of headers; a header carries the node that it  *)
(* describes.  package archive/tar is external: it rounds times to whole   *)
(* seconds, and what follows a file without its data is lost.              *)
(* Sockets, which addTarFile refuses, fifos and block devices are no kinds *)
(* of nodes here, and ".." alone is no name in an archive.                 *)
(***************************************************************************)
EXTENDS Tree, IdMaps, Names, TLC

(* whiteouts.go                                                            *)
WhiteoutPrefix     == <<"wh">>
WhiteoutMetaPrefix == <<"wh", "wh">>
WhiteoutLinkDir    == <<"wh", "wh", "plnk">>
WhiteoutOpaqueDir  == <<"wh", "wh", "opq">>
Dot                == <<".">>
DotDot             == <<"..">>

HasWhiteout(name) == IsPrefix(WhiteoutPrefix, name)
Whiteout(p)       == Append(Dir(p), WhiteoutPrefix \o Base(p))

TarOptions == [map |-> <<>>, format |-> "aufs", includes |-> <<>>, patterns |-> <<>>,
               sourceDir |-> FALSE, rebase |-> [i \in {} |-> ""], chown |-> Unmapped,
               noLchown |-> FALSE, noOverwrite |-> FALSE, inUserNS |-> FALSE,
               hostUserNS |-> FALSE, dest |-> Root, cwd |-> {}, order |-> [n \in {} |-> 0]]

Header(name, type, link, node) == [name |-> name, type |-> type, link |-> link, node |-> node]

(***************************************************************************)
(* Packing                                                                 *)
(***************************************************************************)

(* FileInfoHeader and tar.Writer.WriteHeader: what a header keeps of a node. *)
FileInfoHeader(name, n) ==
  Header(name, n.kind, Root,
         [n EXCEPT !.time = Sec(n.time + 2) * 4, !.ino = <<>>, !.opq = FALSE])

\* A bug ConvertWrite does not have: an opaque directory is packed as any other.
ConvertWriteDeleted(hdr, n) ==
  IF n.kind # "white" THEN <<hdr>>
  ELSE <<[hdr EXCEPT !.name = Whiteout(hdr.name), !.type = "file", !.node.kind = "file", !.node.mode = 6]>>

(* overlayWhiteoutConverter.ConvertWrite: the headers written for hdr.     *)
ConvertWrite(hdr, n) ==
  LET white == [hdr EXCEPT !.name = Whiteout(hdr.name), !.type = "file",
                           !.node.kind = "file", !.node.mode = 6, !.node.data = 0]
      wo    == Header(Append(hdr.name, WhiteoutOpaqueDir), "file", Root,
                      [hdr.node EXCEPT !.kind = "file", !.data = 0, !.time = 0])
  IN  IF n.kind = "white" THEN <<white>>
      ELSE IF n.kind = "dir" /\ n.opq THEN <<hdr, wo>>
      ELSE <<hdr>>

NewTarAppender == [out |-> <<>>, seen |-> [i \in {} |-> Root], broken |-> FALSE]

(* The header of a file that is then not opened is written all the same:   *)
(* what follows it is not its data.                                        *)
Cut(hdrs, broken) ==
  IF broken THEN Append(Front(hdrs), [Last(hdrs) EXCEPT !.type = "cut"]) ELSE hdrs

(* tarAppender.addTarFile.  Its caller logs an error and goes on.  A file  *)
(* of mode 0 cannot be opened, and every later header is then refused.     *)
addTarFile(ta, t, path, name, opts) ==
  IF path \notin DOMAIN t THEN ta
  ELSE
  LET n      == t[path]
      linked == n.kind # "dir" /\ Cardinality(Links(t, path)) > 1
      again  == linked /\ n.ino \in DOMAIN ta.seen
      seen   == IF linked /\ ~again
                THEN [i \in DOMAIN ta.seen \cup {n.ino} |-> IF i = n.ino THEN name ELSE ta.seen[i]]
                ELSE ta.seen
      plain  == FileInfoHeader(name, n)
      hdr    == IF again THEN [plain EXCEPT !.type = "link", !.link = ta.seen[n.ino]] ELSE plain
      remap  == n.kind # "white" /\ ~HasWhiteout(Base(name)) /\ opts.map # <<>>
      id     == IF remap THEN ToContainer(n.uid, opts.map) ELSE n.uid
      owned  == [hdr EXCEPT !.node.uid = IF opts.chown # Unmapped THEN opts.chown ELSE id]
      hdrs   == IF opts.format = "overlay" THEN ConvertWrite(owned, n) ELSE <<owned>>
      broken == Last(hdrs).type = "file" /\ Size(Last(hdrs).node) > 0 /\ n.mode = 0
  IN  IF remap /\ id = Unmapped THEN [ta EXCEPT !.seen = seen]
      ELSE IF ta.broken THEN [ta EXCEPT !.seen = seen]
      ELSE [out |-> ta.out \o Cut(hdrs, broken), seen |-> seen, broken |-> broken]

(***************************************************************************)
(* Unpacking                                                               *)
(***************************************************************************)

(* filepath.Clean: "./a" is "a"; a name has its "." in front.              *)
Clean(name) == IF name # Root /\ name[1] = Dot THEN Tail(name) ELSE name

(* The set-uid bit and its like are the eights of a mode.                  *)
Unprivileged(mode) == mode % 8

(* A name of the file to which a header leads: a change of its owner takes *)
(* its special bits and capabilities.  Its mode and time are set again     *)
(* only if Lstat(hdr.Linkname) finds a name: in the working directory, not *)
(* in the one that is unpacked into.  opts.cwd has what it finds there.    *)
LinkedNode(m, n, link, opts) ==
  LET chowned == IF opts.noLchown THEN m
                 ELSE [m EXCEPT !.uid = n.uid, !.mode = Unprivileged(@), !.cap = ""]
      capable == IF n.cap = "" THEN chowned ELSE [chowned EXCEPT !.cap = n.cap]
  IN  IF link \in opts.cwd THEN [capable EXCEPT !.mode = n.mode, !.time = n.time] ELSE capable

(* createTarFile: the tree with the file of the header at path, NoTree for *)
(* an error, also for a file whose data ends early ("cut").  ino is the    *)
(* inode that a new file gets.                                             *)
createTarFile(t, path, hdr, ino, opts) ==
  LET n      == [hdr.node EXCEPT !.ino = ino,
                                 !.uid = IF opts.noLchown THEN 0
                                         ELSE IF opts.chown # Unmapped THEN opts.chown ELSE @]
      merged == [t EXCEPT ![path].mode = n.mode, ![path].time = n.time,
                          ![path].uid = IF opts.noLchown THEN @ ELSE n.uid,
                          ![path].cap = IF n.cap = "" THEN @ ELSE n.cap]
  IN  CASE hdr.type = "dir" -> IF IsDir(t, path) THEN merged
                               ELSE IF path \in DOMAIN t THEN NoTree ELSE Put(t, path, n)
        [] hdr.type = "file" -> Put(t, path, n)
        [] hdr.type \in {"dev", "white"} ->
             IF opts.inUserNS THEN t ELSE IF opts.hostUserNS THEN NoTree ELSE Put(t, path, n)
        [] hdr.type = "link" ->
             LET target == opts.dest \o Clean(hdr.link) IN
             IF target \notin DOMAIN t \/ IsDir(t, target) THEN NoTree
             ELSE LET linked == Put(t, path, t[target])
                  IN  IF linked = NoTree THEN NoTree
                      ELSE [q \in DOMAIN linked |->
                              IF q \in Links(linked, path) THEN LinkedNode(linked[q], n, hdr.link, opts)
                              ELSE linked[q]]
        [] hdr.type = "symlink" -> IF n.to = Outside THEN NoTree ELSE Put(t, path, n)
        [] OTHER -> NoTree

(* The locals of Unpack and UnpackLayer: the tree under dest, the headers  *)
(* of directories, unpackedPaths, aufsHardlinks, and the result so far.    *)
StartUnpack(t) == [t |-> t, dirs |-> <<>>, unpacked |-> {}, plnk |-> [n \in {} |-> 0],
                   err |-> "", count |-> 0]
Fail(s, err)   == [s EXCEPT !.err = err]

(* The parent directory is made when it is not there.                      *)
WithParent(t, name, uid) ==
  IF Stat(t, Dir(name)) = "ENOENT" THEN MkdirAll(t, Dir(name), Folder(uid)) ELSE t

(* The end of both loops for a header: the file is made, the header of a   *)
(* directory kept for the times.                                           *)
Extract(s, t, name, hdr, opts) ==
  LET made == createTarFile(t, name, hdr, <<s.count + 1>>, opts)
  IN  IF made = NoTree THEN Fail([s EXCEPT !.t = t], "create")
      ELSE [s EXCEPT !.t = made, !.count = @ + 1, !.unpacked = @ \cup {name},
                     !.dirs = IF hdr.type = "dir" THEN Append(@, [hdr EXCEPT !.name = name]) ELSE @]

\* A bug remapIDs does not have: the ids of the container are taken for the host's.
keepIDs(hdr, opts)  == hdr
remapIDs(hdr, opts) == [hdr EXCEPT !.node.uid = ToHost(@, opts.map)]

Flat(path) == Join(path)     \* the characters of a path, for the patterns

(* The breakout check of both: the name leads out of the directory.        *)
BreaksOut(name) == Clean(name) # Root /\ Clean(name)[1] = DotDot

(* The loop body of Unpack.                                                *)
UnpackEntry(s, h, opts) ==
  LET name == opts.dest \o Clean(h.name)
      t    == WithParent(s.t, name, RootPair(opts.map))
      hdr  == remapIDs(h, opts)
      gone == IF IsDir(t, name) /\ h.type = "dir" THEN t ELSE RemoveAll(t, name)
      orig == Append(Dir(name), SubSeq(Base(name), 2, Len(Base(name))))
  IN  IF \E i \in DOMAIN opts.patterns : IsPrefix(opts.patterns[i], Flat(Clean(h.name))) THEN s
      ELSE IF BreaksOut(h.name) THEN Fail(s, "breakout")
      ELSE IF t = NoTree THEN Fail(s, "mkdir")
      ELSE IF /\ opts.noOverwrite /\ name \in DOMAIN t
              /\ IsDir(t, name) # (h.type = "dir") THEN Fail([s EXCEPT !.t = t], "overwrite")
      ELSE IF IsDir(t, name) /\ name = opts.dest THEN [s EXCEPT !.t = t]
      ELSE IF hdr.node.uid = Unmapped THEN Fail([s EXCEPT !.t = gone], "id")
      ELSE IF opts.format = "overlay" /\ Base(name) = WhiteoutOpaqueDir THEN
        \* ConvertRead: an opaque directory
        IF Dir(name) \in DOMAIN gone THEN [s EXCEPT !.t = [gone EXCEPT ![Dir(name)].opq = TRUE]]
        ELSE Fail([s EXCEPT !.t = gone], "xattr")
      ELSE IF opts.format = "overlay" /\ HasWhiteout(Base(name)) THEN
        \* ConvertRead: a deleted file is a character device
        IF orig \in DOMAIN gone \/ ~IsDir(gone, Dir(name)) THEN Fail([s EXCEPT !.t = gone], "mknod")
        ELSE [s EXCEPT !.t = Put(gone, orig, Node("white", 0, hdr.node.uid, 0, Now, <<-1>> \o orig))]
      ELSE Extract(s, gone, name, hdr, opts)

(* What UnpackLayer does with a whiteout.                                  *)
Opaque(t, dir, unpacked) ==
  LET kept == {q \in DOMAIN t : Below(dir, q) =>
                 \A k \in Len(dir) + 1 .. Len(q) : SubSeq(q, 1, k) \in unpacked}
      rest == [q \in kept |-> t[q]]
  IN  [q \in kept |-> IF \E r \in DOMAIN t \ kept : Dir(r) = q THEN Touch(rest, q)[q] ELSE t[q]]
ApplyWhiteout(s, t, name) ==
  IF Base(name) = WhiteoutOpaqueDir
  THEN IF Dir(name) \in DOMAIN t THEN [s EXCEPT !.t = Opaque(t, Dir(name), s.unpacked)]
       ELSE Fail([s EXCEPT !.t = t], "lstat")
  ELSE [s EXCEPT !.t = RemoveAll(t, Append(Dir(name), SubSeq(Base(name), 2, Len(Base(name)))))]

(* A header of a link into /.wh..wh.plnk is replaced by the header of the  *)
(* file there, which remapIDs then changes in place.                       *)
UnpackLayerFile(s, t, name, h, opts) ==
  LET gone   == IF IsDir(t, name) /\ h.type = "dir" THEN t ELSE RemoveAll(t, name)
      plnk   == h.type = "link" /\ h.link # Root /\ IsPrefix(WhiteoutLinkDir, h.link[1])
      target == Base(h.link)
      src    == remapIDs(IF plnk /\ target \in DOMAIN s.plnk THEN s.plnk[target] ELSE h, opts)
      kept   == IF plnk /\ target \in DOMAIN s.plnk THEN [s EXCEPT !.plnk[target] = src] ELSE s
  IN  IF plnk /\ target \notin DOMAIN s.plnk THEN Fail([s EXCEPT !.t = gone], "hardlink")
      ELSE IF src.node.uid = Unmapped THEN Fail([kept EXCEPT !.t = gone], "id")
      ELSE Extract(kept, gone, name, src, opts)

(* The loop body of UnpackLayer.                                           *)
UnpackLayerEntry(s, h, opts) ==
  LET name == Clean(h.name)
      t    == WithParent(s.t, name, 0)
      meta == name # Root /\ IsPrefix(WhiteoutMetaPrefix, name[1])
      plnk == meta /\ IsPrefix(WhiteoutLinkDir, name[1]) /\ h.type = "file"
      s2   == IF plnk THEN [s EXCEPT !.t = t, !.plnk = (Base(name) :> h) @@ @] ELSE [s EXCEPT !.t = t]
      cut  == meta /\ IsPrefix(WhiteoutLinkDir, name[1]) /\ h.type = "cut"
  IN  IF BreaksOut(h.name) THEN Fail(s, "breakout")
      ELSE IF t = NoTree THEN Fail(s, "mkdir")
      ELSE IF cut THEN Fail([s EXCEPT !.t = t], "create")
      ELSE IF meta /\ name # <<WhiteoutOpaqueDir>> THEN s2
      ELSE IF HasWhiteout(Base(name)) THEN ApplyWhiteout(s2, t, name)
      ELSE UnpackLayerFile(s2, t, name, h, opts)

\* A bug SetTime does not have: directories keep the time of the unpacking.
SetNoTime(s) == [s EXCEPT !.dirs = Tail(@)]

(* The last loop of both, for the next header of a directory: its time is  *)
(* set when nothing is put into the directories any more.                  *)
SetTime(s) ==
  LET h == Head(s.dirs)
  IN  IF h.name \notin DOMAIN s.t THEN Fail(s, "chtimes")
      ELSE [s EXCEPT !.t[h.name].time = h.node.time, !.dirs = Tail(@)]
=============================================================================

------------------------------ MODULE Context ------------------------------
(***************************************************************************)
(* The build context of BuildImage (docker/tar.go): the directory without  *)
(* what .dockerignore excludes.                                            *)
(***************************************************************************)
EXTENDS Packing

Dockerignore == <<<<".i">>>>

(* A file or directory is unreadable when its mode is 0.                   *)
Unreadable(t, p) == t[p].kind \in {"file", "dir"} /\ t[p].mode = 0

(* validateContextDirectory: whether it returns an error.  It leaves out   *)
(* all of an excluded directory.                                           *)
validateContextDirectory(t, excludes) ==
  \E p \in DOMAIN t :
    /\ Unreadable(t, p) /\ ~P!Matches(Flat(p), excludes)
    /\ \A k \in 1 .. Len(p) - 1 : ~P!Matches(Flat(SubSeq(p, 1, k)), excludes)

(* createTarStream: the options for TarWithOptions.  The Dockerfile and    *)
(* .dockerignore are sent even when they are excluded.                     *)
createTarStream(excludes, dockerfile, order) ==
  LET forced == SelectSeq(<<Dockerignore, dockerfile>>, LAMBDA f : P!Matches(Flat(f), excludes))
  IN  [TarOptions EXCEPT !.patterns = excludes, !.includes = <<Root>> \o forced,
                         !.noLchown = TRUE, !.order = order]

(* The files that a build can expect, by the meaning of the patterns.      *)
InContext(t, excludes, dockerfile) ==
  {p \in DOMAIN t \ {Root} : ~IsDir(t, p) /\
     (~P!Excluded(Flat(p), excludes) \/ p \in {Dockerignore, dockerfile})}

(* An exception with a wildcard keeps no directory from being passed over: *)
(* the Walk compares prefixes of its text.                                 *)
WildException(excludes) ==
  \E i \in 1 .. Len(excludes) : excludes[i][1] = "!" /\ ToSet(excludes[i]) \cap {"*", "?"} # {}

(* Matches tries a pattern on that directory around a file alone which is  *)
(* as deep as the pattern has slashes, although its comment says "one of   *)
(* our parent dirs" (fileutils.go, 82).  These directories around p a      *)
(* "**" pattern excludes at another depth: a file in them does not match.  *)
NamedDeep(excludes, p) ==
  {k \in 1 .. Len(p) - 1 :
     \E i \in 1 .. Len(excludes) :
       /\ excludes[i][1] # "!" /\ P!Glob(excludes[i], Flat(SubSeq(p, 1, k)))
       /\ k # Len(P!Split(excludes[i]))}

(* The Walk skips them with what is in them, a Dockerfile too, although it *)
(* is to be sent "no matter what" (tar.go, 33), since createTarStream does *)
(* not find it excluded.                                                   *)
Buried(excludes, p) == P!Excluded(Flat(p), excludes) /\ NamedDeep(excludes, p) # {}

(* But where an exception has it enter one, files in it are sent.          *)
Reentered(excludes, p) ==
  \E k \in NamedDeep(excludes, p), j \in 1 .. Len(excludes) :
    excludes[j][1] = "!" /\ IsPrefix(Flat(SubSeq(p, 1, k)) \o <<"/">>, Tail(excludes[j]) \o <<"/">>)

(* An unreadable file that an exception brings back into an excluded       *)
(* directory, or that is sent although it is excluded, is not validated,   *)
(* nor is an unreadable directory around it: validateContextDirectory does *)
(* not check all that is sent, as the comment on it (tar.go, 72) has it.   *)
Overlooked(t, excludes, dockerfile) ==
  /\ ~validateContextDirectory(t, excludes)
  /\ \E p \in DOMAIN t : /\ p \in InContext(t, excludes, dockerfile) \/ Reentered(excludes, p)
                        /\ \E k \in 1 .. Len(p) : Unreadable(t, SubSeq(p, 1, k))
=============================================================================

------------------------------ MODULE Symlinks ------------------------------
(***************************************************************************)
(* Following symbolic links in a tree (package path/filepath, external to  *)
(* the repository).                                                        *)
(***************************************************************************)
EXTENDS Tree

(* filepath.EvalSymlinks, and what os.Stat follows: links lead to a path   *)
(* from the root; NoPath is an error.  Links of the inputs have no loops.  *)
NoPath == <<<<"none">>>>
RECURSIVE Resolved(_, _)
Resolved(t, p) ==
  LET links == {k \in 1 .. Len(p) : SubSeq(p, 1, k) \in DOMAIN t /\ t[SubSeq(p, 1, k)].kind = "symlink"}
      k     == CHOOSE i \in links : \A j \in links : i <= j
  IN  IF links = {} THEN p ELSE Resolved(t, t[SubSeq(p, 1, k)].to \o SubSeq(p, k + 1, Len(p)))
EvalSymlinks(t, p) == IF Resolved(t, p) \in DOMAIN t THEN Resolved(t, p) ELSE NoPath
=============================================================================

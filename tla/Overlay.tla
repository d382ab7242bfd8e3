------------------------------ MODULE Overlay ------------------------------
(***************************************************************************)
(* The changes of a writable layer of an overlay                           *)
(* (docker/pkg/archive/changes.go, changes_linux.go), and what overlay     *)
(* shows of two layers.                                                    *)
(***************************************************************************)
EXTENDS Changes, Symlinks

overlayDeletedFile(p, n) == IF n.kind = "white" \/ (n.kind = "dir" /\ n.opq) THEN p ELSE Root

(* The function that changes gives to Walk, as OverlayChanges calls it:    *)
(* nothing is skipped, and overlayDeletedFile finds what was deleted (for  *)
(* aufs, Changes gives it other functions).  c collects the changes and    *)
(* changedDirs; layers is a sequence of trees, the top one first.  A layer *)
(* that has a file where path needs a directory makes Stat fail with an    *)
(* error other than "does not exist", and changes with it.                 *)
VisitChange(c, rw, layers, p) ==
  LET n      == rw[p]
      gone   == overlayDeletedFile(p, n)
      at(i)  == Resolved(layers[i], p)
      found  == {i \in 1 .. Len(layers) : Stat(layers[i], at(i)) # "ENOENT"}
      first  == CHOOSE i \in found : \A j \in found : i <= j
      below  == layers[first][at(first)]
      kind   == IF gone # Root THEN "D" ELSE IF found = {} THEN "A" ELSE "C"
      equal  == /\ kind = "C" /\ below.kind = "dir" /\ n.kind = "dir"
                /\ n.mode = below.mode /\ sameFsTime(n.time, below.time) /\ Size(n) = Size(below)
      parent == Dir(p)
      dirs   == IF n.kind = "dir" THEN c.dirs \cup {p} ELSE c.dirs
      also   == kind \in {"A", "D"} /\ parent \notin dirs /\ parent # Root
      list   == IF also THEN Append(c.list, Change(parent, "C")) ELSE c.list
  IN  IF c.err THEN c
      ELSE IF kind = "C" /\ Stat(layers[first], at(first)) = "ENOTDIR" THEN [c EXCEPT !.err = TRUE]
      ELSE IF equal THEN c
      ELSE [c EXCEPT !.list = Append(list, Change(IF gone # Root THEN gone ELSE p, kind)),
                     !.dirs = IF also THEN dirs \cup {parent} ELSE dirs]

changes(rw, layers, order) ==
  FoldLeft(LAMBDA c, p : VisitChange(c, rw, layers, p),
           [list |-> <<>>, dirs |-> {}, err |-> FALSE],
           Sorted(order, DOMAIN rw \ {Root}))
OverlayChanges(rw, layers, order) == changes(rw, layers, order)

(* What overlay shows of a lower tree under an upper one.                  *)
Merged(lower, upper) ==
  LET shown  == {p \in DOMAIN upper : upper[p].kind # "white"}
      shines == {p \in DOMAIN lower \ DOMAIN upper :
                   \A q \in DOMAIN upper : Below(q, p) => IsDir(upper, q) /\ ~upper[q].opq}
  IN  [p \in shown \cup shines |-> IF p \in shown THEN upper[p] ELSE lower[p]]
=============================================================================

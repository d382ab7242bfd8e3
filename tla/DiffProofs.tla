----------------------------- MODULE DiffProofs -----------------------------
(***************************************************************************)
(* Proofs about Diff: a layer carries all of a difference, whatever the    *)
(* two directories.                                                        *)
(***************************************************************************)
EXTENDS Diff, WellFoundedInduction, TLAPS

---------------------------------------------------------------------------
(* Paths                                                                   *)

LEMMA PrefixOfSeq ==
  ASSUME NEW R, NEW S, NEW p \in Seq(R), NEW q \in Seq(S)
  PROVE  IsPrefix(p, q) <=> Len(p) <= Len(q) /\ \A i \in 1 .. Len(p) : p[i] = q[i]
<1>1. Len(p) \in Nat /\ Len(q) \in Nat
  OBVIOUS
<1>2. ASSUME Len(p) <= Len(q)
      PROVE  SubSeq(p, 1, Len(p)) = SubSeq(q, 1, Len(p)) <=> \A i \in 1 .. Len(p) : p[i] = q[i]
  <2>1. SubSeq(p, 1, Len(p)) = [i \in 1 .. Len(p) |-> p[i]]
    BY <1>1, <1>2
  <2>2. SubSeq(q, 1, Len(p)) = [i \in 1 .. Len(p) |-> q[i]]
    BY <1>1, <1>2
  <2> QED BY <2>1, <2>2
<1> QED BY <1>2 DEF IsPrefix

LEMMA PrefixByPlace ==
  ASSUME NEW p \in Path, NEW q \in Path
  PROVE  IsPrefix(p, q) <=> Len(p) <= Len(q) /\ \A i \in 1 .. Len(p) : p[i] = q[i]
BY PrefixOfSeq DEF Path

LEMMA SameSeq ==
  ASSUME NEW S, NEW p \in Seq(S), NEW q \in Seq(S), Len(p) = Len(q), \A i \in 1 .. Len(p) : p[i] = q[i]
  PROVE  p = q
OBVIOUS

LEMMA Concatenated ==
  ASSUME NEW S, NEW p \in Seq(S), NEW q \in Seq(S)
  PROVE  /\ p \o q \in Seq(S) /\ Len(p \o q) = Len(p) + Len(q)
         /\ \A i \in 1 .. Len(p) : (p \o q)[i] = p[i]
         /\ \A i \in 1 .. Len(q) : (p \o q)[Len(p) + i] = q[i]
OBVIOUS

LEMMA SamePath ==
  ASSUME NEW p \in Path, NEW q \in Path, Len(p) = Len(q), \A i \in 1 .. Len(p) : p[i] = q[i]
  PROVE  p = q
BY SameSeq DEF Path

LEMMA PrefixOrder ==
  ASSUME NEW p \in Path, NEW q \in Path, NEW r \in Path
  PROVE  /\ IsPrefix(p, p)
         /\ IsPrefix(p, q) /\ IsPrefix(q, p) => p = q
         /\ IsPrefix(p, q) /\ IsPrefix(q, r) => IsPrefix(p, r)
         /\ IsPrefix(p, r) /\ IsPrefix(q, r) => IsPrefix(p, q) \/ IsPrefix(q, p)
<1>1. Len(p) \in Nat /\ Len(q) \in Nat /\ Len(r) \in Nat
  BY DEF Path
<1>2. IsPrefix(p, p)
  BY <1>1, PrefixByPlace
<1>3. ASSUME IsPrefix(p, q), IsPrefix(q, p) PROVE p = q
  BY <1>1, <1>3, PrefixByPlace, SamePath
<1>4. ASSUME IsPrefix(p, q), IsPrefix(q, r) PROVE IsPrefix(p, r)
  BY <1>1, <1>4, PrefixByPlace
<1>5. ASSUME IsPrefix(p, r), IsPrefix(q, r) PROVE IsPrefix(p, q) \/ IsPrefix(q, p)
  BY <1>1, <1>5, PrefixByPlace
<1> QED BY <1>2, <1>3, <1>4, <1>5

LEMMA RootIsFirst ==
  /\ Root \in Path /\ Len(Root) = 0
  /\ \A p \in Path : IsPrefix(Root, p) /\ (IsPrefix(p, Root) => p = Root) /\ (Len(p) = 0 => p = Root)
<1>1. Root \in Path /\ Len(Root) = 0
  BY DEF Root, Path
<1> SUFFICES ASSUME NEW p \in Path
             PROVE  IsPrefix(Root, p) /\ (IsPrefix(p, Root) => p = Root) /\ (Len(p) = 0 => p = Root)
  BY <1>1
<1>2. Len(p) \in Nat
  BY DEF Path
<1>3. IsPrefix(Root, p)
  BY <1>1, <1>2, PrefixByPlace
<1>4. Len(p) = 0 => p = Root
  BY <1>1, SamePath
<1>5. IsPrefix(p, Root) => Len(p) = 0
  BY <1>1, <1>2, PrefixByPlace
<1> QED BY <1>3, <1>4, <1>5

(* A prefix is the path up to its length.                                  *)
LEMMA PrefixIsStart ==
  ASSUME NEW p \in Path, NEW k \in 0 .. Len(p)
  PROVE  /\ SubSeq(p, 1, k) \in Path /\ Len(SubSeq(p, 1, k)) = k /\ IsPrefix(SubSeq(p, 1, k), p)
         /\ \A q \in Path : IsPrefix(q, p) /\ Len(q) = k => q = SubSeq(p, 1, k)
<1>1. Len(p) \in Nat /\ k \in Nat /\ k <= Len(p)
  BY DEF Path
<1>2. SubSeq(p, 1, k) \in Path /\ Len(SubSeq(p, 1, k)) = k
  BY <1>1 DEF Path
<1>3. \A i \in 1 .. k : SubSeq(p, 1, k)[i] = p[i]
  BY <1>1 DEF Path
<1>4. IsPrefix(SubSeq(p, 1, k), p)
  BY <1>1, <1>2, <1>3, PrefixByPlace
<1>5. ASSUME NEW q \in Path, IsPrefix(q, p), Len(q) = k
      PROVE  q = SubSeq(p, 1, k)
  <2>1. \A i \in 1 .. k : q[i] = p[i]
    BY <1>5, PrefixByPlace
  <2> QED BY <1>2, <1>3, <1>5, <2>1, SamePath
<1> QED BY <1>2, <1>4, <1>5

LEMMA DirIsAbove ==
  ASSUME NEW p \in Path, p # Root
  PROVE  /\ Dir(p) \in Path /\ Below(Dir(p), p) /\ Len(Dir(p)) = Len(p) - 1 /\ Dir(p) = SubSeq(p, 1, Len(p) - 1)
         /\ \A q \in Path : Below(q, p) => IsPrefix(q, Dir(p))
<1>1. Len(p) \in Nat /\ Len(p) # 0
  BY RootIsFirst DEF Path
<1>2. Dir(p) = SubSeq(p, 1, Len(p) - 1)
  BY DEF Dir, Front
<1>3. Len(p) - 1 \in 0 .. Len(p)
  BY <1>1
<1>4. Dir(p) \in Path /\ Len(Dir(p)) = Len(p) - 1 /\ IsPrefix(Dir(p), p)
  BY <1>2, <1>3, PrefixIsStart
<1>5. Dir(p) # p
  BY <1>1, <1>4
<1>6. ASSUME NEW q \in Path, Below(q, p) PROVE IsPrefix(q, Dir(p))
  <2>1. IsPrefix(q, p) /\ q # p /\ Len(q) \in Nat
    BY <1>6 DEF Below, IsStrictPrefix, Path
  <2>2. Len(q) <= Len(p) /\ \A i \in 1 .. Len(q) : q[i] = p[i]
    BY <2>1, PrefixByPlace
  <2>3. Len(q) # Len(p)
    BY <2>1, <2>2, SamePath
  <2>4. \A i \in 1 .. Len(Dir(p)) : Dir(p)[i] = p[i]
    BY <1>4, PrefixByPlace
  <2>5. Len(q) <= Len(Dir(p)) /\ \A i \in 1 .. Len(q) : q[i] = Dir(p)[i]
    BY <1>1, <1>4, <2>1, <2>2, <2>3, <2>4
  <2> QED BY <1>4, <2>5, PrefixByPlace
<1> QED BY <1>2, <1>4, <1>5, <1>6 DEF Below, IsStrictPrefix

LEMMA BelowOrder ==
  ASSUME NEW p \in Path, NEW q \in Path, NEW r \in Path
  PROVE  /\ ~Below(p, p) /\ (IsPrefix(p, q) <=> p = q \/ Below(p, q))
         /\ Below(p, q) => ~IsPrefix(q, p)
         /\ Below(p, q) /\ IsPrefix(q, r) => Below(p, r)
         /\ IsPrefix(p, q) /\ Below(q, r) => Below(p, r)
BY PrefixOrder DEF Below, IsStrictPrefix

---------------------------------------------------------------------------
(* Trees on a disk                                                         *)

LEMMA DiskPaths ==
  ASSUME NEW t, OnDisk(t), NEW p \in DOMAIN t
  PROVE  /\ p \in Path /\ t[p] \in NodeType /\ Len(t[p].ino) = 2
         /\ t[p].kind = "dir" => t[p].data = 0 /\ t[p].cap = "" /\ t[p].to = Root
         /\ t[p].kind = "symlink" => t[p].to # Outside
         /\ \A k \in 1 .. Len(p) : PlainName(p[k])
BY DEF OnDisk

(* What is above a path is a directory.                                    *)
LEMMA AboveIsDir ==
  ASSUME NEW t, OnDisk(t), NEW p \in DOMAIN t, NEW q \in Path, Below(q, p)
  PROVE  q \in DOMAIN t /\ IsDir(t, q)
<1>1. p \in Path /\ \A k \in 1 .. Len(p) : IsDir(t, SubSeq(p, 1, k - 1))
  BY DEF OnDisk
<1>2. IsPrefix(q, p) /\ q # p /\ Len(q) \in Nat /\ Len(p) \in Nat
  BY <1>1 DEF Below, IsStrictPrefix, Path
<1>3. Len(q) <= Len(p)
  BY <1>1, <1>2, PrefixByPlace
<1>4. Len(q) # Len(p)
  <2>1. SUFFICES ASSUME Len(q) = Len(p) PROVE FALSE
    OBVIOUS
  <2>2. q = SubSeq(p, 1, Len(p)) /\ p = SubSeq(p, 1, Len(p))
    BY <1>1, <1>2, <2>1, PrefixIsStart, PrefixOrder
  <2> QED BY <1>2, <2>2
<1>5. Len(q) + 1 \in 1 .. Len(p) /\ (Len(q) + 1) - 1 = Len(q) /\ Len(q) \in 0 .. Len(p)
  BY <1>2, <1>3, <1>4
<1>6. q = SubSeq(p, 1, Len(q))
  BY <1>1, <1>2, <1>5, PrefixIsStart
<1>7. IsDir(t, SubSeq(p, 1, (Len(q) + 1) - 1))
  BY <1>1, <1>5
<1>8. IsDir(t, q)
  BY <1>5, <1>6, <1>7
<1> QED BY <1>8 DEF IsDir

LEMMA DirIsDir ==
  ASSUME NEW t, OnDisk(t), NEW p \in DOMAIN t, p # Root
  PROVE  IsDir(t, Dir(p))
BY DiskPaths, DirIsAbove, AboveIsDir

---------------------------------------------------------------------------
(* Changes                                                                 *)

Added(n, o)   == {p \in DOMAIN n : p \notin DOMAIN o}
Altered(n, o) == {p \in (DOMAIN n \cap DOMAIN o) \ {Root} :
                    statDifferent(o[p], n[p]) \/ o[p].cap # n[p].cap}
Deleted(n, o) == {p \in DOMAIN o : p \notin DOMAIN n /\ IsDir(n, Dir(p))}
Around(n, o)  == {p \in DOMAIN n \ {Root} :
                    IsDir(n, p) /\ \E q \in Added(n, o) \cup Altered(n, o) \cup Deleted(n, o) : Below(p, q)}

LEMMA ChangesByKind ==
  ASSUME NEW n, NEW o
  PROVE  addChanges(n, o) = {Change(p, "A") : p \in Added(n, o)} \cup {Change(p, "D") : p \in Deleted(n, o)}
           \cup {Change(p, "C") : p \in (Altered(n, o) \cup Around(n, o)) \ Added(n, o)}
BY DEF addChanges, Added, Altered, Deleted, Around

LEMMA NoDifference ==
  ASSUME NEW x
  PROVE  ~statDifferent(x, x)
BY DEF statDifferent, sameFsTime

(* A file that both trees share is no difference, and neither is what is   *)
(* in a directory that they share: to leave them out of the comparison, as *)
(* the walk of both trees does, loses no change.  (changes_linux.go)       *)
LEMMA PrunedChanges ==
  ASSUME NEW o, NEW n, Comparable(o, n)
  PROVE  ChangesDirs(n, o) = addChanges(n, o)
<1> DEFINE Shared(q) == \E r \in DOMAIN n : SameInode(n, o, r) /\ IsPrefix(r, q)
           m == Pruned(n, o)
           l == Pruned(o, n)
<1>1. OnDisk(o) /\ OnDisk(n) /\ DOMAIN n \subseteq Path /\ DOMAIN o \subseteq Path
  BY DiskPaths DEF Comparable
<1>2. \A r : SameInode(o, n, r) <=> SameInode(n, o, r)
  BY DEF SameInode
<1>3. \A r : SameInode(n, o, r) => r \in DOMAIN n /\ r \in DOMAIN o
  BY DEF SameInode
<1>4. DOMAIN m = {q \in DOMAIN n : ~Shared(q)} /\ \A q \in DOMAIN m : m[q] = n[q]
  BY DEF Pruned
<1>5. DOMAIN l = {q \in DOMAIN o : ~Shared(q)} /\ \A q \in DOMAIN l : l[q] = o[q]
  BY <1>2, <1>3 DEF Pruned
<1>6. \A q \in DOMAIN n \cup DOMAIN o : Shared(q) => q \in DOMAIN n /\ q \in DOMAIN o /\ o[q] = n[q]
  BY DEF Comparable
<1>7. \A p \in Path, q \in Path : Shared(p) /\ IsPrefix(p, q) => Shared(q)
  BY <1>1, PrefixOrder
<1> HIDE DEF Shared, m, l
<1>8. Added(m, l) = Added(n, o)
  BY <1>4, <1>5, <1>6 DEF Added
<1>9. Altered(m, l) = Altered(n, o)
  <2>1. \A p \in DOMAIN n \cap DOMAIN o :
          Shared(p) => ~(statDifferent(o[p], n[p]) \/ o[p].cap # n[p].cap)
    BY <1>6, NoDifference
  <2> QED BY <1>4, <1>5, <2>1 DEF Altered
<1>10. Deleted(m, l) = Deleted(n, o)
  <2>1. Root \in DOMAIN n
    BY <1>1 DEF OnDisk, IsDir
  <2>2. \A p \in DOMAIN o : p \notin DOMAIN m <=> p \notin DOMAIN n \/ Shared(p)
    BY <1>4
  <2>3. \A p \in DOMAIN o : ~Shared(p) => (p \notin DOMAIN m <=> p \notin DOMAIN n)
    BY <1>4
  <2>4. ASSUME NEW p \in DOMAIN o, p \notin DOMAIN n
        PROVE  ~Shared(p) /\ (IsDir(n, Dir(p)) <=> IsDir(m, Dir(p)))
    <3>1. ~Shared(p)
      BY <1>6, <2>4
    <3>2. p \in Path /\ p # Root
      BY <1>1, <2>1, <2>4
    <3>3. Dir(p) \in Path /\ IsPrefix(Dir(p), p)
      BY <3>2, DirIsAbove DEF Below, IsStrictPrefix
    <3>4. ~Shared(Dir(p))
      BY <1>7, <3>1, <3>2, <3>3
    <3> QED BY <1>4, <3>1, <3>4 DEF IsDir
  <2> QED BY <1>5, <2>3, <2>4 DEF Deleted
<1>11. Around(m, l) = Around(n, o)
  <2>1. \A q \in Added(n, o) \cup Altered(n, o) \cup Deleted(n, o) : q \in Path /\ ~Shared(q)
    BY <1>1, <1>6, NoDifference DEF Added, Altered, Deleted
  <2>2. ASSUME NEW p \in DOMAIN n, NEW q \in Added(n, o) \cup Altered(n, o) \cup Deleted(n, o), Below(p, q)
        PROVE  ~Shared(p)
    BY <1>1, <1>7, <2>1, <2>2 DEF Below, IsStrictPrefix
  <2> QED BY <1>4, <1>8, <1>9, <1>10, <2>2 DEF Around, IsDir
<1>12. ChangesDirs(n, o) = addChanges(m, l)
  BY DEF ChangesDirs, m, l
<1> QED BY <1>8, <1>9, <1>10, <1>11, <1>12, ChangesByKind

LEMMA ChangeIs ==
  ASSUME NEW o, NEW n, Comparable(o, n), NEW c \in addChanges(n, o)
  PROVE  /\ c = Change(c.path, c.kind) /\ c.path \in Path /\ c.path # Root
         /\ \/ c.kind = "A" /\ c.path \in Added(n, o)
            \/ c.kind = "D" /\ c.path \in Deleted(n, o)
            \/ c.kind = "C" /\ c.path \in (Altered(n, o) \cup Around(n, o)) \ Added(n, o)
<1>1. Root \in DOMAIN o /\ Root \in DOMAIN n /\ DOMAIN n \subseteq Path /\ DOMAIN o \subseteq Path
  BY DiskPaths DEF Comparable, OnDisk, IsDir
<1>2. \A p : /\ p \in Added(n, o) => p \in Path /\ p # Root
             /\ p \in Deleted(n, o) => p \in Path /\ p # Root
             /\ p \in Altered(n, o) \cup Around(n, o) => p \in Path /\ p # Root
  BY <1>1 DEF Added, Deleted, Altered, Around
<1>3. \/ \E p \in Added(n, o) : c = Change(p, "A")
      \/ \E p \in Deleted(n, o) : c = Change(p, "D")
      \/ \E p \in (Altered(n, o) \cup Around(n, o)) \ Added(n, o) : c = Change(p, "C")
  BY ChangesByKind
<1> QED BY <1>2, <1>3 DEF Change

LEMMA ChangePaths ==
  ASSUME NEW o, NEW n, Comparable(o, n), NEW c \in addChanges(n, o)
  PROVE  /\ c.path \in Path /\ c.path # Root
         /\ c.kind # "D" => c.path \in DOMAIN n
         /\ c.kind = "D" => c.path \in DOMAIN o /\ c.path \notin DOMAIN n /\ IsDir(n, Dir(c.path))
BY ChangeIs DEF Added, Altered, Deleted, Around

LEMMA OneChange ==
  ASSUME NEW o, NEW n, Comparable(o, n), NEW c \in addChanges(n, o), NEW d \in addChanges(n, o),
         c.path = d.path
  PROVE  c = d
<1>1. /\ c.kind = "A" <=> c.path \notin DOMAIN o
      /\ c.kind = "D" <=> c.path \notin DOMAIN n
      /\ c.kind \in {"A", "D", "C"} /\ c = Change(c.path, c.kind)
  BY ChangeIs DEF Added, Altered, Deleted, Around
<1>2. /\ d.kind = "A" <=> d.path \notin DOMAIN o
      /\ d.kind = "D" <=> d.path \notin DOMAIN n
      /\ d.kind \in {"A", "D", "C"} /\ d = Change(d.path, d.kind)
  BY ChangeIs DEF Added, Altered, Deleted, Around
<1> QED BY <1>1, <1>2

(* What is new is listed; what is not listed did not change.               *)
LEMMA AddedIsListed ==
  ASSUME NEW o, NEW n, NEW p \in DOMAIN n, p \notin DOMAIN o
  PROVE  \E c \in addChanges(n, o) : c.path = p /\ c.kind = "A"
<1>1. Change(p, "A") \in addChanges(n, o)
  BY ChangesByKind DEF Added
<1> QED BY <1>1 DEF Change

LEMMA AlteredIsListed ==
  ASSUME NEW o, NEW n, NEW p \in Altered(n, o) \cup Around(n, o)
  PROVE  \E c \in addChanges(n, o) : c.path = p /\ c.kind # "D"
<1>1. Change(p, "A") \in addChanges(n, o) \/ Change(p, "C") \in addChanges(n, o)
  BY ChangesByKind
<1> QED BY <1>1 DEF Change

LEMMA UnlistedIsSame ==
  ASSUME NEW o, NEW n, NEW p \in DOMAIN n \cap DOMAIN o, p # Root,
         \A c \in addChanges(n, o) : c.path # p
  PROVE  ~statDifferent(o[p], n[p]) /\ o[p].cap = n[p].cap
BY AlteredIsListed DEF Altered

(* Every directory around a change is listed.                              *)
LEMMA AboveIsListed ==
  ASSUME NEW o, NEW n, Comparable(o, n), NEW c \in addChanges(n, o),
         NEW p \in Path, p # Root, Below(p, c.path)
  PROVE  IsDir(n, p) /\ \E d \in addChanges(n, o) : d.path = p /\ d.kind # "D"
<1> DEFINE real == Added(n, o) \cup Altered(n, o) \cup Deleted(n, o)
<1>1. OnDisk(n) /\ DOMAIN n \subseteq Path /\ DOMAIN o \subseteq Path
  BY DiskPaths DEF Comparable
<1>2. PICK q \in real : IsPrefix(c.path, q)
  <2>1. CASE c.path \in Around(n, o)
    BY <2>1 DEF Around, Below, IsStrictPrefix
  <2>2. CASE c.path \in real
    BY <2>2, ChangePaths, PrefixOrder
  <2> QED BY <2>1, <2>2, ChangeIs
<1>3. q \in Path
  BY <1>1, <1>2 DEF Added, Altered, Deleted
<1>4. Below(p, q)
  BY <1>2, <1>3, ChangePaths, BelowOrder
<1>5. IsDir(n, p)
  <2>1. CASE q \in DOMAIN n
    BY <1>1, <1>4, <2>1, AboveIsDir
  <2>2. CASE q \notin DOMAIN n
    <3>1. IsDir(n, Dir(q)) /\ q # Root
      BY <1>1, <1>2, <2>2 DEF Added, Altered, Deleted, OnDisk, IsDir
    <3>2. IsPrefix(p, Dir(q)) /\ Dir(q) \in Path
      BY <1>3, <1>4, <3>1, DirIsAbove
    <3>3. Dir(q) \in DOMAIN n
      BY <3>1 DEF IsDir
    <3>4. p = Dir(q) \/ Below(p, Dir(q))
      BY <3>2, BelowOrder
    <3> QED BY <1>1, <3>1, <3>3, <3>4, AboveIsDir
  <2> QED BY <2>1, <2>2
<1>6. p \in Around(n, o)
  BY <1>2, <1>4, <1>5 DEF Around, IsDir
<1> QED BY <1>5, <1>6, AlteredIsListed

---------------------------------------------------------------------------
(* A set of naturals that is not empty has a least element.                *)
Smaller == {p \in Nat \X Nat : p[1] < p[2]}

LEMMA SmallerWF == IsWellFoundedOn(Smaller, Nat)
  BY NatLessThanWellFounded DEF OpToRel, Smaller

LEMMA SmallerDef == \A j, k \in Nat : j < k => <<j, k>> \in Smaller
  BY DEF Smaller

LEMMA LeastElement ==
  ASSUME NEW S, S \subseteq Nat, S # {}
  PROVE  \E m \in S : \A k \in S : m <= k
<1>1. PICK m \in S : \A k \in S : <<k, m>> \notin Smaller
  BY SmallerWF, WFMin, Zenon
<1>2. ASSUME NEW k \in S PROVE m <= k
  <2>1. m \in Nat /\ k \in Nat BY <1>2
  <2>2. ~(k < m) BY <1>1, <2>1, SmallerDef
  <2> QED BY <2>1, <2>2
<1> QED BY <1>2

(* What is gone is listed, or is in a directory that is listed: it was     *)
(* deleted, or it became something else.                                   *)
LEMMA GoneIsListed ==
  ASSUME NEW o, NEW n, Comparable(o, n), NEW p \in DOMAIN o, p \notin DOMAIN n
  PROVE  \E c \in addChanges(n, o) : IsPrefix(c.path, p) /\ (c.kind = "D" \/ ~IsDir(n, c.path))
<1> DEFINE S == {k \in 0 .. Len(p) : SubSeq(p, 1, k) \notin DOMAIN n}
<1>1. OnDisk(o) /\ OnDisk(n) /\ p \in Path /\ Len(p) \in Nat
  <2>1. OnDisk(o) /\ OnDisk(n)
    BY DEF Comparable
  <2>2. p \in Path
    BY <2>1, DiskPaths
  <2> QED BY <2>1, <2>2 DEF Path
<1>2. SubSeq(p, 1, Len(p)) = p
  BY <1>1, PrefixOrder, PrefixIsStart
<1>3. PICK k \in S : \A j \in S : k <= j
  <2>1. S \subseteq Nat
    OBVIOUS
  <2>2. Len(p) \in 0 .. Len(p)
    BY <1>1
  <2>3. Len(p) \in S
    BY <1>2, <2>2
  <2> QED BY <2>1, <2>3, LeastElement
<1> DEFINE q == SubSeq(p, 1, k)
<1>4. k \in 0 .. Len(p) /\ q \in Path /\ Len(q) = k /\ IsPrefix(q, p) /\ q \notin DOMAIN n
  BY <1>1, <1>3, PrefixIsStart
<1> HIDE DEF S
<1>5. q # Root /\ q \in DOMAIN o
  <2>1. q # Root
    BY <1>1, <1>4 DEF OnDisk, IsDir
  <2>2. q = p \/ Below(q, p)
    BY <1>1, <1>4, BelowOrder
  <2>3. q \in DOMAIN o
    BY <1>1, <1>4, <2>2, AboveIsDir
  <2> QED BY <2>1, <2>3
<1>6. Dir(q) \in Path /\ Below(Dir(q), q) /\ Len(Dir(q)) = k - 1
  BY <1>4, <1>5, DirIsAbove
<1>7. Dir(q) \in DOMAIN n
  <2>1. k # 0
    BY <1>4, <1>5, RootIsFirst
  <2>2. k - 1 \in 0 .. Len(p)
    BY <1>1, <1>4, <2>1
  <2>3. IsPrefix(Dir(q), p)
    BY <1>1, <1>4, <1>6, PrefixOrder DEF Below, IsStrictPrefix
  <2>4. Dir(q) = SubSeq(p, 1, k - 1)
    BY <1>1, <1>6, <2>2, <2>3, PrefixIsStart
  <2>5. k - 1 \notin S
    BY <1>1, <1>3, <1>4, <2>2
  <2> QED BY <2>2, <2>4, <2>5 DEF S
<1>8. CASE IsDir(n, Dir(q))
  <2>1. Change(q, "D") \in addChanges(n, o)
    BY <1>4, <1>5, <1>8, ChangesByKind DEF Deleted
  <2> QED BY <1>4, <2>1 DEF Change
<1>9. CASE ~IsDir(n, Dir(q))
  <2>1. IsDir(o, Dir(q))
    BY <1>1, <1>5, <1>6, AboveIsDir
  <2>2. Dir(q) # Root
    BY <1>1, <1>9 DEF OnDisk
  <2>3. statDifferent(o[Dir(q)], n[Dir(q)])
    BY <1>7, <1>9, <2>1 DEF statDifferent, IsDir
  <2>4. Dir(q) \in Altered(n, o)
    BY <1>7, <2>1, <2>2, <2>3 DEF Altered, IsDir
  <2>5. PICK c \in addChanges(n, o) : c.path = Dir(q)
    BY <2>4, AlteredIsListed
  <2>6. IsPrefix(Dir(q), p)
    BY <1>1, <1>4, <1>6, PrefixOrder DEF Below, IsStrictPrefix
  <2> QED BY <1>9, <2>5, <2>6
<1> QED BY <1>8, <1>9

Old == job.old
New == job.new

---------------------------------------------------------------------------
(* The inductive invariant                                                 *)

(* The changes without those that were exported: Written are the paths     *)
(* that a header gave, Left those of the old directory that no header took *)
(* away.                                                                   *)
AllChanges == addChanges(New, Old)
Taken      == AllChanges \ todo
Written(p) == \E c \in Taken : c.path = p /\ c.kind # "D"
Left(p)    ==
  /\ p \in DOMAIN Old
  /\ \A c \in Taken : IsPrefix(c.path, p) => c.path # p /\ c.kind # "D" /\ IsDir(New, c.path)

Typed(t) == \A q \in DOMAIN t : t[q] \in NodeType

Rounded(time) == Sec(time + 2) * 4
Stays(n, m) ==
  /\ n = [m EXCEPT !.time = n.time]
  /\ m.kind # "dir" => n.time = m.time
Made(n, m) ==
  /\ n.kind = m.kind /\ n.mode = m.mode /\ n.uid = m.uid /\ n.data = m.data /\ n.cap = m.cap
  /\ n.to = m.to
  /\ m.kind # "dir" => n.time = Rounded(m.time)

StateOK ==
  /\ job \in Diffs /\ outcome \in {"run", "ok"}
  /\ s = [t |-> s.t, dirs |-> s.dirs, unpacked |-> s.unpacked, plnk |-> s.plnk, err |-> "",
          count |-> s.count]
  /\ s.count \in Nat /\ Typed(s.t)
  /\ ta = [out |-> ta.out, seen |-> ta.seen, broken |-> FALSE]
OrderOK ==
  /\ todo \subseteq AllChanges
  /\ \A c \in Taken, d \in todo : ~Below(d.path, c.path)
TreeOK ==
  /\ DOMAIN s.t = {p \in DOMAIN Old \cup DOMAIN New : Left(p) \/ Written(p)}
  /\ \A p \in DOMAIN s.t : /\ Left(p) => Stays(s.t[p], Old[p])
                           /\ Written(p) => Made(s.t[p], New[p])
(* The inodes of what was written are new, and one inode is one file.      *)
LinksOK ==
  /\ \A p \in DOMAIN s.t : Written(p) /\ ~IsDir(New, p) => \E k \in 1 .. s.count : s.t[p].ino = <<k>>
  /\ \A p, q \in DOMAIN s.t :
       Written(p) /\ Written(q) /\ ~IsDir(New, p) /\ ~IsDir(New, q) /\ s.t[p].ino = s.t[q].ino =>
         New[p] = New[q]
  /\ \A i \in DOMAIN ta.seen :
       Written(ta.seen[i]) /\ ~IsDir(New, ta.seen[i]) /\ New[ta.seen[i]].ino = i
(* Every directory that was written waits for its time, or has it.         *)
TimesOK ==
  /\ s.dirs \in Seq([name : Path, type : {"dir"}, link : Path, node : NodeType])
  /\ \A i \in 1 .. Len(s.dirs) : LET h == s.dirs[i] IN
       Written(h.name) /\ IsDir(New, h.name) /\ h.node.time = Rounded(New[h.name].time)
  /\ \A p \in DOMAIN s.t : Written(p) /\ IsDir(New, p) =>
       \/ \E i \in 1 .. Len(s.dirs) : s.dirs[i].name = p
       \/ todo = {} /\ s.t[p].time = Rounded(New[p].time)
  /\ outcome = "ok" => todo = {} /\ s.dirs = <<>>
DiffInv == StateOK /\ OrderOK /\ TreeOK /\ LinksOK /\ TimesOK

---------------------------------------------------------------------------
(* Names of headers                                                        *)

PlainPath(p) == p \in Path /\ p # Root /\ \A k \in 1 .. Len(p) : PlainName(p[k])

LEMMA DiskIsPlain ==
  ASSUME NEW t, OnDisk(t), NEW p \in DOMAIN t, p # Root
  PROVE  PlainPath(p)
BY DiskPaths DEF PlainPath

LEMMA WhiteoutStart ==
  ASSUME NEW b \in Name
  PROVE  /\ HasWhiteout(b) <=> Len(b) >= 1 /\ b[1] = "wh"
         /\ IsPrefix(WhiteoutMetaPrefix, b) <=> Len(b) >= 2 /\ b[1] = "wh" /\ b[2] = "wh"
<1>1. b \in Seq(STRING) /\ Len(b) \in Nat
  BY DEF Name
<1>2. /\ WhiteoutPrefix \in Seq({"wh"}) /\ Len(WhiteoutPrefix) = 1 /\ WhiteoutPrefix[1] = "wh"
      /\ WhiteoutMetaPrefix \in Seq({"wh"}) /\ Len(WhiteoutMetaPrefix) = 2
      /\ WhiteoutMetaPrefix[1] = "wh" /\ WhiteoutMetaPrefix[2] = "wh"
  BY DEF WhiteoutPrefix, WhiteoutMetaPrefix
<1>3. IsPrefix(WhiteoutPrefix, b) <=> 1 <= Len(b) /\ \A i \in 1 .. 1 : WhiteoutPrefix[i] = b[i]
  BY <1>1, <1>2, PrefixOfSeq
<1>4. IsPrefix(WhiteoutMetaPrefix, b) <=> 2 <= Len(b) /\ \A i \in 1 .. 2 : WhiteoutMetaPrefix[i] = b[i]
  BY <1>1, <1>2, PrefixOfSeq
<1> QED BY <1>1, <1>2, <1>3, <1>4 DEF HasWhiteout

(* A plain path is the name of its own header, and no whiteout.            *)
LEMMA PlainHeader ==
  ASSUME NEW p, PlainPath(p)
  PROVE  /\ Clean(p) = p /\ Base(p) = p[Len(p)] /\ Base(p) \in Name /\ ~HasWhiteout(Base(p))
         /\ p[1] \in Name /\ ~IsPrefix(WhiteoutMetaPrefix, p[1]) /\ ~IsPrefix(WhiteoutLinkDir, p[1])
         /\ ~BreaksOut(p)
<1>1. p \in Path /\ p # Root /\ Len(p) \in Nat /\ Len(p) # 0
  BY RootIsFirst DEF PlainPath, Path
<1>2. 1 \in 1 .. Len(p) /\ Len(p) \in 1 .. Len(p)
  BY <1>1
<1>3. p[1] \in Name /\ p[Len(p)] \in Name
  BY <1>1, <1>2 DEF Path
<1>4. ~HasWhiteout(p[1]) /\ ~HasWhiteout(p[Len(p)]) /\ p[1] \notin {Dot, DotDot}
  BY <1>2 DEF PlainPath, PlainName
<1>5. Clean(p) = p /\ Base(p) = p[Len(p)] /\ ~BreaksOut(p)
  BY <1>1, <1>4 DEF Clean, Base, Last, BreaksOut
<1>6. ~IsPrefix(WhiteoutMetaPrefix, p[1])
  BY <1>3, <1>4, WhiteoutStart
<1>7. ~IsPrefix(WhiteoutLinkDir, p[1])
  <2>1. SUFFICES ASSUME IsPrefix(WhiteoutLinkDir, p[1]) PROVE FALSE
    OBVIOUS
  <2>2. Len(p[1]) >= 3 /\ SubSeq(WhiteoutLinkDir, 1, 3) = SubSeq(p[1], 1, 3)
    BY <2>1, <1>3 DEF IsPrefix, WhiteoutLinkDir, Name
  <2>3. SubSeq(WhiteoutLinkDir, 1, 3)[1] = "wh"
    BY DEF WhiteoutLinkDir
  <2>4. SubSeq(p[1], 1, 3)[1] = p[1][1]
    BY <1>3, <2>2 DEF Name
  <2>5. HasWhiteout(p[1])
    BY <1>3, <2>2, <2>3, <2>4, WhiteoutStart DEF Name
  <2> QED BY <1>4, <2>5
<1> QED BY <1>3, <1>4, <1>5, <1>6, <1>7

(* The header of a whiteout is none of the others, and names the path.     *)
LEMMA WhiteoutHeader ==
  ASSUME NEW p, PlainPath(p)
  PROVE  LET w == Whiteout(p) IN
         /\ Clean(w) = w /\ w # Root /\ Dir(w) = Dir(p) /\ ~IsPrefix(WhiteoutMetaPrefix, w[1]) /\ ~BreaksOut(w)
         /\ HasWhiteout(Base(w)) /\ Base(w) # WhiteoutOpaqueDir
         /\ Append(Dir(w), SubSeq(Base(w), 2, Len(Base(w)))) = p
<1> DEFINE w == Whiteout(p)
           b == p[Len(p)]
           wb == WhiteoutPrefix \o b
<1>1. p \in Path /\ p # Root /\ Len(p) \in Nat /\ Len(p) # 0
  BY RootIsFirst DEF PlainPath, Path
<1>2. b \in Name /\ b # <<>> /\ ~HasWhiteout(b) /\ Base(p) = b
  BY <1>1, PlainHeader DEF PlainPath, PlainName
<1>3. Dir(p) \in Path /\ Len(Dir(p)) = Len(p) - 1 /\ Dir(p) = SubSeq(p, 1, Len(p) - 1)
  BY <1>1, DirIsAbove
<1>4. /\ wb \in Seq(STRING \cup {"wh"}) /\ Len(wb) = Len(b) + 1 /\ wb[1] = "wh"
      /\ SubSeq(wb, 2, Len(wb)) = b /\ Len(b) \in Nat /\ \A i \in 1 .. Len(b) : wb[i + 1] = b[i]
  <2>1. /\ WhiteoutPrefix \in Seq(STRING \cup {"wh"}) /\ Len(WhiteoutPrefix) = 1
        /\ WhiteoutPrefix[1] = "wh"
    BY DEF WhiteoutPrefix
  <2>2. b \in Seq(STRING \cup {"wh"}) /\ Len(b) \in Nat
    BY <1>2 DEF Name
  <2> HIDE DEF b
  <2>3. /\ wb \in Seq(STRING \cup {"wh"}) /\ Len(wb) = Len(b) + 1 /\ wb[1] = "wh"
        /\ \A i \in 1 .. Len(b) : wb[i + 1] = b[i]
    <3>1. /\ wb \in Seq(STRING \cup {"wh"}) /\ Len(wb) = 1 + Len(b) /\ \A i \in 1 .. 1 : wb[i] = "wh"
          /\ \A i \in 1 .. Len(b) : wb[1 + i] = b[i]
      BY <2>1, <2>2, Concatenated
    <3> HIDE DEF wb
    <3> QED BY <2>2, <3>1
  <2> HIDE DEF wb
  <2>4. /\ SubSeq(wb, 2, Len(wb)) \in Seq(STRING \cup {"wh"}) /\ Len(SubSeq(wb, 2, Len(wb))) = Len(b)
        /\ \A i \in 1 .. Len(b) : SubSeq(wb, 2, Len(wb))[i] = wb[i + 1]
    BY <2>2, <2>3
  <2>5. SubSeq(wb, 2, Len(wb)) = b
    BY <2>2, <2>3, <2>4, SameSeq
  <2> QED BY <2>2, <2>3, <2>5
<1>5. Len(b) # 0 /\ b[1] # "wh"
  <2>1. Len(b) # 0
    BY <1>2 DEF Name
  <2> QED BY <1>2, <1>4, <2>1, WhiteoutStart
<1> DEFINE Names == Name \cup {wb}
<1> HIDE DEF b, wb
<1>6. w = Append(Dir(p), wb)
  BY <1>2 DEF Whiteout, b, wb
<1>7. /\ w \in Seq(Names) /\ Len(w) = Len(p) /\ w # Root /\ w[Len(p)] = wb
      /\ \A i \in 1 .. Len(p) - 1 : w[i] = Dir(p)[i] /\ Dir(p)[i] = p[i]
  <2>1. Dir(p) \in Seq(Names)
    BY <1>3 DEF Path
  <2>2. w \in Seq(Names) /\ Len(w) = Len(p) /\ w[Len(p)] = wb /\ \A i \in 1 .. Len(p) - 1 : w[i] = Dir(p)[i]
    BY <1>1, <1>3, <1>6, <2>1
  <2>3. \A i \in 1 .. Len(p) - 1 : Dir(p)[i] = p[i]
    BY <1>1, <1>3 DEF Path
  <2> QED BY <1>1, <2>2, <2>3 DEF Root
<1>8. Base(w) = wb
  BY <1>7 DEF Base, Last
<1>9. Dir(w) = Dir(p)
  <2>1. Dir(w) = SubSeq(w, 1, Len(p) - 1)
    BY <1>7 DEF Dir, Front
  <2>2. /\ SubSeq(w, 1, Len(p) - 1) \in Seq(Names) /\ Len(SubSeq(w, 1, Len(p) - 1)) = Len(p) - 1
        /\ \A i \in 1 .. Len(p) - 1 : SubSeq(w, 1, Len(p) - 1)[i] = w[i]
    BY <1>1, <1>7
  <2>3. Dir(p) \in Seq(Names)
    BY <1>3 DEF Path
  <2> QED BY <1>3, <1>7, <2>1, <2>2, <2>3, SameSeq
<1>10. w[1] \notin {Dot, DotDot} /\ ~IsPrefix(WhiteoutMetaPrefix, w[1])
  <2>1. CASE Len(p) = 1
    <3>1. w[1] = wb /\ wb \notin {Dot, DotDot}
      BY <1>4, <1>7, <2>1 DEF Dot, DotDot
    <3>2. /\ WhiteoutMetaPrefix \in Seq({"wh"}) /\ Len(WhiteoutMetaPrefix) = 2
          /\ WhiteoutMetaPrefix[1] = "wh" /\ WhiteoutMetaPrefix[2] = "wh"
      BY DEF WhiteoutMetaPrefix
    <3>3. IsPrefix(WhiteoutMetaPrefix, wb)
            <=> Len(WhiteoutMetaPrefix) <= Len(wb)
                /\ \A i \in 1 .. Len(WhiteoutMetaPrefix) : WhiteoutMetaPrefix[i] = wb[i]
      <4>1. WhiteoutMetaPrefix \in Seq({"wh"})
        BY <3>2
      <4>2. wb \in Seq(STRING \cup {"wh"})
        BY <1>4
      <4> QED BY <4>1, <4>2, PrefixOfSeq
    <3>4. wb[1 + 1] = b[1]
      BY <1>4, <1>5
    <3> QED BY <1>5, <3>1, <3>2, <3>3, <3>4
  <2>2. CASE Len(p) # 1
    <3>1. 1 \in 1 .. Len(p) - 1 /\ w[1] = p[1] /\ 1 \in 1 .. Len(p)
      BY <1>1, <1>7, <2>2
    <3>2. p[1] \notin {Dot, DotDot}
      BY <3>1 DEF PlainPath, PlainName
    <3> QED BY <3>1, <3>2, PlainHeader
  <2> QED BY <2>1, <2>2
<1>11. Clean(w) = w /\ ~BreaksOut(w)
  BY <1>10 DEF Clean, BreaksOut
<1>12. HasWhiteout(wb) /\ wb # WhiteoutOpaqueDir
  <2>1. WhiteoutPrefix \in Seq({"wh"}) /\ Len(WhiteoutPrefix) = 1 /\ WhiteoutPrefix[1] = "wh"
    BY DEF WhiteoutPrefix
  <2>2. IsPrefix(WhiteoutPrefix, wb)
    BY <1>4, <2>1, PrefixOfSeq
  <2>3. WhiteoutOpaqueDir[2] = "wh" /\ wb[1 + 1] = b[1]
    BY <1>4, <1>5 DEF WhiteoutOpaqueDir
  <2> QED BY <1>5, <2>2, <2>3 DEF HasWhiteout
<1>13. Append(Dir(p), b) = p
  <2>1. Append(Dir(p), b) \in Path /\ Len(Append(Dir(p), b)) = Len(p)
    BY <1>1, <1>2, <1>3 DEF Path
  <2>2. \A i \in 1 .. Len(p) : Append(Dir(p), b)[i] = p[i]
    BY <1>1, <1>3 DEF Path, b
  <2> QED BY <1>1, <2>1, <2>2, SamePath
<1> QED BY <1>4, <1>7, <1>8, <1>9, <1>10, <1>11, <1>12, <1>13

---------------------------------------------------------------------------
(* Calls on a tree                                                         *)

LEMMA NoTreeIsEmpty == DOMAIN NoTree = {}
  BY DEF NoTree

(* u is t, but for the paths that are gone and the time of a directory.    *)
AllBut(u, t, dir) ==
  \A q \in DOMAIN u \cap DOMAIN t :
    u[q].time \in Nat /\ u[q] = [t[q] EXCEPT !.time = u[q].time] /\ (q # dir => u[q] = t[q])

LEMMA Touching ==
  ASSUME NEW t, NEW d, Typed(t)
  PROVE  DOMAIN Touch(t, d) = DOMAIN t /\ AllBut(Touch(t, d), t, d)
<1> DEFINE u == Touch(t, d)
<1>1. Now \in Nat
  BY DEF Now
<1>2. \A x \in NodeType : x.time \in Nat /\ x = [x EXCEPT !.time = x.time]
                          /\ [x EXCEPT !.time = Now].time = Now
  BY DEF NodeType
<1>3. CASE d \in DOMAIN t
  <2>1. u = [t EXCEPT ![d].time = Now]
    BY <1>3 DEF Touch
  <2>2. DOMAIN u = DOMAIN t /\ u[d] = [t[d] EXCEPT !.time = Now]
        /\ \A q \in DOMAIN t : q # d => u[q] = t[q]
    BY <1>3, <2>1
  <2> HIDE DEF u
  <2>3. ASSUME NEW q \in DOMAIN t
        PROVE  u[q].time \in Nat /\ u[q] = [t[q] EXCEPT !.time = u[q].time]
    <3>1. CASE q = d
      BY <1>1, <1>2, <1>3, <2>2, <3>1 DEF Typed
    <3>2. CASE q # d
      BY <1>2, <2>2, <3>2 DEF Typed
    <3> QED BY <3>1, <3>2
  <2> QED BY <2>2, <2>3 DEF AllBut, u
<1>4. CASE d \notin DOMAIN t
  BY <1>2, <1>4 DEF Touch, AllBut, Typed
<1> QED BY <1>3, <1>4

LEMMA Removing ==
  ASSUME NEW t, NEW p \in DOMAIN t, Typed(t)
  PROVE  /\ DOMAIN RemoveAll(t, p) = {r \in DOMAIN t : ~IsPrefix(p, r)}
         /\ AllBut(RemoveAll(t, p), t, Dir(p))
         /\ Typed(RemoveAll(t, p))
<1> DEFINE v == [q \in {r \in DOMAIN t : ~IsPrefix(p, r)} |-> t[q]]
<1>1. RemoveAll(t, p) = Touch(v, Dir(p))
  BY DEF RemoveAll
<1>2. \A q \in DOMAIN v : q \in DOMAIN t /\ v[q] = t[q]
  OBVIOUS
<1>3. DOMAIN v = {r \in DOMAIN t : ~IsPrefix(p, r)}
  OBVIOUS
<1> HIDE DEF v
<1>4. Typed(v)
  BY <1>2 DEF Typed
<1>5. DOMAIN Touch(v, Dir(p)) = DOMAIN v /\ AllBut(Touch(v, Dir(p)), v, Dir(p))
  BY <1>4, Touching
<1>6. AllBut(Touch(v, Dir(p)), t, Dir(p))
  BY <1>2, <1>5 DEF AllBut
<1>7. ASSUME NEW q \in DOMAIN v PROVE Touch(v, Dir(p))[q] \in NodeType
  <2>1. v[q] \in NodeType /\ Touch(v, Dir(p))[q].time \in Nat
        /\ Touch(v, Dir(p))[q] = [v[q] EXCEPT !.time = Touch(v, Dir(p))[q].time]
    BY <1>4, <1>5 DEF AllBut, Typed
  <2>2. \A x \in NodeType, i \in Nat : [x EXCEPT !.time = i] \in NodeType
    BY DEF NodeType
  <2> QED BY <2>1, <2>2
<1>8. Typed(Touch(v, Dir(p)))
  BY <1>5, <1>7 DEF Typed
<1> QED BY <1>1, <1>3, <1>5, <1>6, <1>8

(* u is t with x at p: p alone is put, the others stay but for the time of *)
(* the directory around it.                                                *)
Places(u, t, p, x) ==
  /\ DOMAIN u = DOMAIN t \cup {p} /\ u[p] = x /\ u # NoTree
  /\ \A q \in DOMAIN t \ {p} :
       u[q].time \in Nat /\ u[q] = [t[q] EXCEPT !.time = u[q].time] /\ (q # Dir(p) => u[q] = t[q])

LEMMA PutPlaces ==
  ASSUME NEW t, NEW p, NEW x, Typed(t), IsDir(t, Dir(p)), p # Dir(p)
  PROVE  Places(Put(t, p, x), t, p, x)
<1> DEFINE u == Put(t, p, x)
           w == Touch(t, Dir(p))
<1>1. u = [q \in DOMAIN t \cup {p} |-> IF q = p THEN x ELSE w[q]]
  BY DEF Put
<1>2. DOMAIN w = DOMAIN t /\ AllBut(w, t, Dir(p))
  BY Touching
<1> HIDE DEF u, w
<1>3. DOMAIN u = DOMAIN t \cup {p} /\ u[p] = x /\ \A q \in DOMAIN t \ {p} : u[q] = w[q]
  BY <1>1
<1>4. DOMAIN NoTree = {}
  BY NoTreeIsEmpty
<1>5. u # NoTree
  BY <1>3, <1>4
<1>6. ASSUME NEW q \in DOMAIN t \ {p}
      PROVE  u[q].time \in Nat /\ u[q] = [t[q] EXCEPT !.time = u[q].time] /\ (q # Dir(p) => u[q] = t[q])
  BY <1>2, <1>3 DEF AllBut
<1>7. Places(u, t, p, x)
  BY <1>3, <1>5, <1>6 DEF Places
<1> QED BY <1>7 DEF u

---------------------------------------------------------------------------
(* Headers                                                                 *)

LEMMA DiffOptions ==
  ASSUME NEW j \in Diffs
  PROVE  /\ j.kind = "diff" /\ Comparable(j.old, j.new)
         /\ j.opts.map = <<>> /\ j.opts.format = "aufs" /\ j.opts.chown = Unmapped
         /\ j.opts.noLchown = FALSE /\ j.opts.dest = Root /\ j.opts.cwd = {}
         /\ j.opts.inUserNS = FALSE /\ j.opts.hostUserNS = FALSE
BY DiffsAssumption DEF TarOptions

(* What the header of a change says of a node.                             *)
Packed(n) == [n EXCEPT !.time = Rounded(n.time), !.ino = <<>>, !.opq = FALSE]
IsHeaderOf(h, a, p, n) ==
  \/ h = Header(p, n.kind, Root, Packed(n))
  \/ n.kind # "dir" /\ n.ino \in DOMAIN a.seen /\ h = Header(p, "link", a.seen[n.ino], Packed(n))

LEMMA PackedType ==
  ASSUME NEW n \in NodeType
  PROVE  /\ Packed(n) \in NodeType /\ Packed(n).kind = n.kind /\ Packed(n).mode = n.mode
         /\ Packed(n).uid = n.uid /\ Packed(n).data = n.data /\ Packed(n).cap = n.cap
         /\ Packed(n).to = n.to /\ Packed(n).time = Rounded(n.time)
         /\ [Packed(n) EXCEPT !.uid = n.uid] = Packed(n)
<1>1. Rounded(n.time) \in Nat
  BY DEF NodeType, Rounded, Sec
<1>2. <<>> \in Seq(Nat)
  OBVIOUS
<1> QED BY <1>1, <1>2 DEF NodeType, Packed

LEMMA Exported ==
  ASSUME NEW j \in Diffs, NEW a, NEW c, c.kind # "D", c.path \in DOMAIN j.new,
         a = [out |-> a.out, seen |-> a.seen, broken |-> FALSE]
  PROVE  LET b == ExportChange(a, j.new, c, j.opts)
             n == j.new[c.path]
         IN  /\ b = [out |-> b.out, seen |-> b.seen, broken |-> FALSE]
             /\ b.out # <<>> /\ IsHeaderOf(b.out[1], a, c.path, n)
             /\ \A i \in DOMAIN b.seen : \/ i \in DOMAIN a.seen /\ b.seen[i] = a.seen[i]
                                         \/ n.kind # "dir" /\ i = n.ino /\ b.seen[i] = c.path
<1> DEFINE n == j.new[c.path]
           p == c.path
           e == [a EXCEPT !.out = <<>>]
           b == ExportChange(a, j.new, c, j.opts)
           linked == n.kind # "dir" /\ Cardinality(Links(j.new, p)) > 1
           again  == linked /\ n.ino \in DOMAIN e.seen
           seen   == IF linked /\ ~again
                     THEN [i \in DOMAIN e.seen \cup {n.ino} |-> IF i = n.ino THEN p ELSE e.seen[i]]
                     ELSE e.seen
           plain  == FileInfoHeader(p, n)
           hdr    == IF again THEN [plain EXCEPT !.type = "link", !.link = e.seen[n.ino]] ELSE plain
           owned  == [hdr EXCEPT !.node.uid = n.uid]
           broken == owned.type = "file" /\ Size(owned.node) > 0 /\ n.mode = 0
<1>1. n \in NodeType /\ (n.kind = "file" => n.mode # 0)
  BY DiffOptions, DiskPaths DEF Comparable
<1>2. e.seen = a.seen /\ e.broken = FALSE /\ e.out = <<>>
  <2>1. \A x, y : a = [out |-> x, seen |-> y, broken |-> FALSE] =>
          e.seen = y /\ e.broken = FALSE /\ e.out = <<>>
    OBVIOUS
  <2> QED BY <2>1
<1>3. plain = [name |-> p, type |-> n.kind, link |-> Root, node |-> Packed(n)]
  BY DEF FileInfoHeader, Packed, Rounded, Header
<1>4. b = [out |-> e.out \o Cut(<<owned>>, broken), seen |-> seen, broken |-> broken]
  <2>1. b = addTarFile(e, j.new, p, p, j.opts)
    BY DEF ExportChange
  <2>2. Last(<<owned>>) = owned
    <3> HIDE DEF owned
    <3> QED BY DEF Last
  <2>3. /\ j.opts.map = <<>> /\ j.opts.format = "aufs" /\ j.opts.chown = Unmapped
        /\ p \in DOMAIN j.new
    BY DiffOptions
  <2>4. addTarFile(e, j.new, p, p, j.opts) =
          LET br == Last(<<owned>>).type = "file" /\ Size(Last(<<owned>>).node) > 0 /\ n.mode = 0
          IN  [out |-> e.out \o Cut(<<owned>>, br), seen |-> seen, broken |-> br]
    BY <1>2, <2>3, Zenon DEF addTarFile
  <2> QED BY <2>1, <2>2, <2>4
<1>5. \/ hdr = [name |-> p, type |-> n.kind, link |-> Root, node |-> Packed(n)]
      \/ /\ n.kind # "dir" /\ n.ino \in DOMAIN a.seen
         /\ hdr = [name |-> p, type |-> "link", link |-> a.seen[n.ino], node |-> Packed(n)]
  <2> HIDE DEF plain, e
  <2> QED BY <1>2, <1>3
<1>6. owned = hdr
  <2>1. [Packed(n) EXCEPT !.uid = n.uid] = Packed(n)
    BY <1>1, PackedType
  <2>2. \A x, y, z, h : h = [name |-> x, type |-> y, link |-> z, node |-> Packed(n)] =>
                        [h EXCEPT !.node.uid = n.uid] = h
    BY <2>1
  <2> HIDE DEF hdr
  <2> QED BY <1>5, <2>2
<1>7. \A i \in DOMAIN seen : \/ i \in DOMAIN a.seen /\ seen[i] = a.seen[i]
                             \/ n.kind # "dir" /\ i = n.ino /\ seen[i] = p
  BY <1>2
<1> HIDE DEF owned, seen, hdr
<1>8. IsHeaderOf(hdr, a, p, n)
  BY <1>5 DEF IsHeaderOf, Header
<1>9. broken = FALSE
  BY <1>1, <1>5, <1>6
<1>10. <<owned>> # <<>> /\ <<owned>>[1] = owned
  OBVIOUS
<1>11. e.out \o Cut(<<owned>>, broken) = <<owned>>
  <2> HIDE DEF owned, e, broken
  <2> QED BY <1>2, <1>9 DEF Cut
<1> HIDE DEF b, broken
<1>12. /\ b = [out |-> b.out, seen |-> b.seen, broken |-> FALSE]
       /\ b.out = <<owned>> /\ b.seen = seen
  BY <1>4, <1>9, <1>11
<1> QED BY <1>6, <1>7, <1>8, <1>10, <1>12 DEF b

---------------------------------------------------------------------------
(* Unpacking one header                                                    *)

Unpacker(x) ==
  x = [t |-> x.t, dirs |-> x.dirs, unpacked |-> x.unpacked, plnk |-> x.plnk, err |-> "", count |-> x.count]

LEMMA ParentIsThere ==
  ASSUME NEW t, NEW p, IsDir(t, Dir(p))
  PROVE  WithParent(t, p, 0) = t /\ t # NoTree
<1>1. Dir(p) \in DOMAIN t
  BY DEF IsDir
<1>2. Stat(t, Dir(p)) = "ok"
  BY <1>1 DEF Stat
<1>3. DOMAIN NoTree = {}
  BY NoTreeIsEmpty
<1> QED BY <1>1, <1>2, <1>3 DEF WithParent

LEMMA NoRemap ==
  ASSUME NEW j \in Diffs, NEW h, NEW p, NEW type, NEW link, NEW n \in NodeType,
         h = Header(p, type, link, n)
  PROVE  remapIDs(h, j.opts) = h /\ h.node.uid # Unmapped
<1>1. j.opts.map = <<>>
  BY DiffOptions
<1>2. \A id : ToHost(id, <<>>) = id
  BY DEF ToHost, toHost, RootPair
<1>3. h.node.uid \in Nat /\ [n EXCEPT !.uid = n.uid] = n /\ h.node = n
  BY DEF Header, NodeType
<1>4. [h EXCEPT !.node = n] = h
  BY DEF Header
<1>5. [h EXCEPT !.node.uid = ToHost(@, <<>>)] = [h EXCEPT !.node = [n EXCEPT !.uid = n.uid]]
  BY <1>2, <1>3 DEF Header
<1> QED BY <1>1, <1>3, <1>4, <1>5 DEF remapIDs, Unmapped

(* The header of a file or directory is made where it names it, in a place *)
(* that is cleared for it.                                                 *)
LEMMA UnpackedPlain ==
  ASSUME NEW j \in Diffs, NEW x, Unpacker(x), NEW p, PlainPath(p), IsDir(x.t, Dir(p)),
         NEW type, NEW link, link = Root \/ PlainPath(link), NEW n \in NodeType
  PROVE  UnpackLayerEntry(x, Header(p, type, link, n), j.opts)
           = Extract(x, IF IsDir(x.t, p) /\ type = "dir" THEN x.t ELSE RemoveAll(x.t, p), p,
                     Header(p, type, link, n), j.opts)
<1> DEFINE h == Header(p, type, link, n)
<1>1. h.name = p /\ h.type = type /\ h.link = link
  BY DEF Header
<1>2. remapIDs(h, j.opts) = h /\ h.node.uid # Unmapped
  BY NoRemap
<1>3. WithParent(x.t, p, 0) = x.t /\ x.t # NoTree
  BY ParentIsThere
<1>4. Clean(p) = p /\ ~HasWhiteout(Base(p)) /\ ~IsPrefix(WhiteoutMetaPrefix, p[1]) /\ ~BreaksOut(p)
  BY PlainHeader
<1>5. link # Root => ~IsPrefix(WhiteoutLinkDir, link[1])
  BY PlainHeader
<1>6. [x EXCEPT !.t = x.t] = x
  BY DEF Unpacker
<1> HIDE DEF h
<1>7. UnpackLayerEntry(x, h, j.opts) = UnpackLayerFile(x, x.t, p, h, j.opts)
  BY <1>1, <1>3, <1>4, <1>6 DEF UnpackLayerEntry
<1>8. UnpackLayerFile(x, x.t, p, h, j.opts)
        = Extract(x, IF IsDir(x.t, p) /\ type = "dir" THEN x.t ELSE RemoveAll(x.t, p), p, h, j.opts)
  BY <1>1, <1>2, <1>5 DEF UnpackLayerFile
<1> QED BY <1>7, <1>8 DEF h

(* The header of a whiteout removes what it names.                         *)
LEMMA UnpackedWhiteout ==
  ASSUME NEW j \in Diffs, NEW x, Unpacker(x), NEW p, PlainPath(p), IsDir(x.t, Dir(p)), NEW n
  PROVE  UnpackLayerEntry(x, Header(Whiteout(p), "file", Root, n), j.opts)
           = [x EXCEPT !.t = RemoveAll(x.t, p)]
<1> DEFINE w == Whiteout(p)
           h == Header(w, "file", Root, n)
<1>1. h.name = w
  BY DEF Header
<1>2. /\ Clean(w) = w /\ w # Root /\ Dir(w) = Dir(p) /\ ~IsPrefix(WhiteoutMetaPrefix, w[1]) /\ ~BreaksOut(w)
      /\ HasWhiteout(Base(w)) /\ Base(w) # WhiteoutOpaqueDir
      /\ Append(Dir(w), SubSeq(Base(w), 2, Len(Base(w)))) = p
  BY WhiteoutHeader
<1> HIDE DEF h, w
<1>3. WithParent(x.t, w, 0) = x.t /\ x.t # NoTree
  BY <1>2, ParentIsThere
<1>4. [x EXCEPT !.t = x.t] = x
  BY DEF Unpacker
<1>5. UnpackLayerEntry(x, h, j.opts) = ApplyWhiteout(x, x.t, w)
  BY <1>1, <1>2, <1>3, <1>4 DEF UnpackLayerEntry
<1>6. ApplyWhiteout(x, x.t, w) = [x EXCEPT !.t = RemoveAll(x.t, p)]
  BY <1>2 DEF ApplyWhiteout
<1> QED BY <1>5, <1>6 DEF h, w

Extracts(y, x, u, p, h) ==
  y = [t |-> u, dirs |-> IF h.type = "dir" THEN Append(x.dirs, h) ELSE x.dirs,
       unpacked |-> x.unpacked \cup {p}, plnk |-> x.plnk, err |-> "", count |-> x.count + 1]

LEMMA ExtractedFile ==
  ASSUME NEW x, Unpacker(x), NEW t, NEW p, NEW type, NEW link, NEW n, NEW opts,
         NEW u, u = createTarFile(t, p, Header(p, type, link, n), <<x.count + 1>>, opts), u # NoTree
  PROVE  Extracts(Extract(x, t, p, Header(p, type, link, n), opts), x, u, p, Header(p, type, link, n))
<1> DEFINE h == Header(p, type, link, n)
<1>1. h.type = type /\ [h EXCEPT !.name = p] = h
  BY DEF Header
<1> DEFINE d == IF type = "dir" THEN Append(x.dirs, h) ELSE x.dirs
<1> HIDE DEF h
<1>2. /\ createTarFile(t, p, h, <<x.count + 1>>, opts) = u
      /\ (IF h.type = "dir" THEN Append(x.dirs, [h EXCEPT !.name = p]) ELSE x.dirs) = d
  BY <1>1 DEF h
<1>3. Extract(x, t, p, h, opts) = [x EXCEPT !.t = u, !.count = @ + 1, !.unpacked = @ \cup {p}, !.dirs = d]
  <2> HIDE DEF d
  <2>2. CASE type = "dir"
    <3>1. d = Append(x.dirs, h)
      BY <2>2 DEF d
    <3> QED BY <1>1, <1>2, <2>2, <3>1 DEF Extract
  <2>3. CASE type # "dir"
    <3>1. d = x.dirs
      BY <2>3 DEF d
    <3> QED BY <1>1, <1>2, <2>3, <3>1 DEF Extract
  <2> QED BY <2>2, <2>3
<1> HIDE DEF d
<1>4. [x EXCEPT !.t = u, !.count = @ + 1, !.unpacked = @ \cup {p}, !.dirs = d]
        = [t |-> u, dirs |-> d, unpacked |-> x.unpacked \cup {p}, plnk |-> x.plnk, err |-> "",
           count |-> x.count + 1]
  <2> DEFINE x1 == x.t
             x2 == x.dirs
             x3 == x.unpacked
             x4 == x.plnk
             x5 == ""
             x6 == x.count
             k == x6 + 1
             y == x3 \cup {p}
             w == [x EXCEPT !.t = u, !.count = k, !.unpacked = y, !.dirs = d]
  <2>1. w = [x EXCEPT !.t = u, !.count = k, !.unpacked = y, !.dirs = d]
    OBVIOUS
  <2>2. x = [t |-> x1, dirs |-> x2, unpacked |-> x3, plnk |-> x4, err |-> x5, count |-> x6]
    BY DEF Unpacker
  <2> HIDE DEF w, k, y, x1, x2, x3, x4, x5, x6
  <2>3. w = [t |-> u, dirs |-> d, unpacked |-> y, plnk |-> x4, err |-> x5, count |-> k]
    BY <2>1, <2>2
  <2> QED BY <2>3 DEF w, k, y, x3, x4, x5, x6
<1>5. Extracts(Extract(x, t, p, h, opts), x, u, p, h)
  <2>1. d = IF h.type = "dir" THEN Append(x.dirs, h) ELSE x.dirs
    BY <1>1 DEF d
  <2> QED BY <1>3, <1>4, <2>1 DEF Extracts
<1> QED BY <1>5 DEF h

(* createTarFile, by the kinds of headers that a difference has.           *)
Refreshed(u, t, p, n) ==
  /\ DOMAIN u = DOMAIN t /\ u # NoTree
  /\ u[p] = [t[p] EXCEPT !.mode = n.mode, !.time = n.time, !.uid = n.uid]
  /\ \A q \in DOMAIN t \ {p} : u[q] = t[q]

LEMMA CreatedDir ==
  ASSUME NEW j \in Diffs, NEW t, Typed(t), NEW p, IsDir(t, p), NEW n \in NodeType, n.cap = "", NEW i
  PROVE  Refreshed(createTarFile(t, p, Header(p, "dir", Root, n), i, j.opts), t, p, n)
<1> DEFINE h == Header(p, "dir", Root, n)
           u == createTarFile(t, p, h, i, j.opts)
           v == [t EXCEPT ![p].mode = n.mode, ![p].time = n.time, ![p].uid = n.uid, ![p].cap = @]
<1>1. j.opts.noLchown = FALSE /\ j.opts.chown = Unmapped
  BY DiffOptions
<1>2. h.type = "dir" /\ h.node = n
  BY DEF Header
<1>3. LET m == [n EXCEPT !.ino = i, !.uid = n.uid] IN
      m.mode = n.mode /\ m.time = n.time /\ m.uid = n.uid /\ m.cap = ""
  BY DEF NodeType
<1> HIDE DEF h
<1>4. u = v
  BY <1>1, <1>2, <1>3 DEF createTarFile
<1>5. DOMAIN v = DOMAIN t /\ \A q \in DOMAIN t \ {p} : v[q] = t[q]
  OBVIOUS
<1>6. p \in DOMAIN t /\ t[p] \in NodeType
  BY DEF IsDir, Typed
<1>7. v[p] = [t[p] EXCEPT !.mode = n.mode, !.time = n.time, !.uid = n.uid]
  BY <1>6 DEF NodeType
<1>8. DOMAIN NoTree = {}
  BY NoTreeIsEmpty
<1> HIDE DEF u, v
<1>9. u # NoTree
  BY <1>4, <1>5, <1>6, <1>8
<1>10. Refreshed(u, t, p, n)
  BY <1>4, <1>5, <1>7, <1>9 DEF Refreshed
<1> QED BY <1>10 DEF u, h

LEMMA CreatedNew ==
  ASSUME NEW j \in Diffs, NEW t, NEW p, p \notin DOMAIN t, NEW n \in NodeType,
         n.kind = "symlink" => n.to # Outside, NEW i
  PROVE  createTarFile(t, p, Header(p, n.kind, Root, n), i, j.opts) = Put(t, p, [n EXCEPT !.ino = i])
<1> DEFINE h == Header(p, n.kind, Root, n)
           m == [n EXCEPT !.ino = i, !.uid = n.uid]
<1>1. /\ j.opts.noLchown = FALSE /\ j.opts.chown = Unmapped
      /\ j.opts.inUserNS = FALSE /\ j.opts.hostUserNS = FALSE
  BY DiffOptions
<1>2. h.type = n.kind /\ h.node = n
  BY DEF Header
<1>3. m = [n EXCEPT !.ino = i] /\ m.to = n.to
  BY DEF NodeType
<1>4. ~IsDir(t, p)
  BY DEF IsDir
<1>5. n.kind \in {"dir", "file", "symlink", "dev"}
  BY DEF NodeType
<1> HIDE DEF h
<1>6. createTarFile(t, p, h, i, j.opts) = Put(t, p, m)
  <2>1. [h.node EXCEPT !.ino = i, !.uid = IF j.opts.noLchown THEN 0
                                         ELSE IF j.opts.chown # Unmapped THEN j.opts.chown ELSE @] = m
    BY <1>1, <1>2
  <2> HIDE DEF m
  <2>2. CASE n.kind = "dir"
    BY <1>1, <1>2, <1>4, <2>1, <2>2 DEF createTarFile
  <2>3. CASE n.kind = "file"
    BY <1>1, <1>2, <2>1, <2>3 DEF createTarFile
  <2>4. CASE n.kind = "symlink"
    BY <1>1, <1>2, <1>3, <2>1, <2>4 DEF createTarFile
  <2>5. CASE n.kind = "dev"
    BY <1>1, <1>2, <2>1, <2>5 DEF createTarFile
  <2> QED BY <1>5, <2>2, <2>3, <2>4, <2>5
<1> QED BY <1>3, <1>6 DEF h

(* A link changes nothing of the names of its inode that have its owner    *)
(* and no special bits.                                                    *)
LEMMA LinkedSame ==
  ASSUME NEW j \in Diffs, NEW x \in NodeType, NEW n, NEW q,
         x.uid = n.uid, x.cap = n.cap, Unprivileged(x.mode) = x.mode
  PROVE  LinkedNode(x, n, q, j.opts) = x
<1>1. j.opts.noLchown = FALSE /\ j.opts.cwd = {}
  BY DiffOptions
<1>2. [x EXCEPT !.uid = n.uid, !.mode = Unprivileged(@), !.cap = n.cap] = x
  BY DEF NodeType
<1> DEFINE c == [x EXCEPT !.uid = n.uid, !.mode = Unprivileged(@), !.cap = ""]
<1>3. CASE n.cap = ""
  BY <1>1, <1>2, <1>3 DEF LinkedNode
<1>4. CASE n.cap # ""
  <2>1. [c EXCEPT !.cap = n.cap] = x
    BY <1>2 DEF NodeType
  <2> QED BY <1>1, <1>4, <2>1 DEF LinkedNode
<1> QED BY <1>3, <1>4

Owned(l, p, n, q, opts) ==
  [r \in DOMAIN l |-> IF r \in Links(l, p) THEN LinkedNode(l[r], n, q, opts) ELSE l[r]]

LEMMA CreatedLink ==
  ASSUME NEW j \in Diffs, NEW t, NEW p, NEW q, PlainPath(q), q \in DOMAIN t, ~IsDir(t, q),
         NEW n \in NodeType, NEW i, NEW k, k = [n EXCEPT !.ino = i], Put(t, p, t[q]) # NoTree
  PROVE  createTarFile(t, p, Header(p, "link", q, n), i, j.opts) = Owned(Put(t, p, t[q]), p, k, q, j.opts)
<1> DEFINE h == Header(p, "link", q, n)
           m == [n EXCEPT !.ino = i, !.uid = n.uid]
<1>1. j.opts.noLchown = FALSE /\ j.opts.chown = Unmapped /\ j.opts.dest = Root
  BY DiffOptions
<1>2. h.type = "link" /\ h.node = n /\ h.link = q
  BY DEF Header
<1>3. m = k
  BY DEF NodeType
<1>4. Root \o Clean(q) = q
  BY PlainHeader DEF Root, PlainPath, Path
<1>5. [h.node EXCEPT !.ino = i, !.uid = IF j.opts.noLchown THEN 0
                                       ELSE IF j.opts.chown # Unmapped THEN j.opts.chown ELSE @] = m
  BY <1>1, <1>2
<1> HIDE DEF h, m
<1> QED BY <1>1, <1>2, <1>3, <1>4, <1>5 DEF createTarFile, h, Owned

---------------------------------------------------------------------------
(* The changes that were exported                                          *)

LEMMA JobIsDiff ==
  ASSUME StateOK
  PROVE  job \in Diffs /\ Comparable(Old, New) /\ OnDisk(Old) /\ OnDisk(New)
BY DiffOptions DEF StateOK, Old, New, Comparable

LEMMA Listed ==
  ASSUME StateOK, NEW d \in AllChanges
  PROVE  d.path \in Path /\ d.path # Root /\ (d.kind # "D" <=> d.path \in DOMAIN New)
         /\ (d.kind = "D" => d.path \in DOMAIN Old)
BY JobIsDiff, ChangePaths DEF AllChanges

LEMMA OneListed ==
  ASSUME StateOK, NEW c \in AllChanges, NEW d \in AllChanges, c.path = d.path
  PROVE  c = d
BY JobIsDiff, OneChange DEF AllChanges

LEMMA AboveListed ==
  ASSUME StateOK, NEW c \in AllChanges, NEW q \in Path, q # Root, Below(q, c.path)
  PROVE  IsDir(New, q) /\ \E d \in AllChanges : d.path = q /\ d.kind # "D"
BY JobIsDiff, AboveIsListed DEF AllChanges

LEMMA WrittenPath ==
  ASSUME StateOK, NEW q, Written(q)
  PROVE  q \in DOMAIN New /\ q \in Path /\ q # Root /\ PlainPath(q) /\ ~Left(q) /\ New[q] \in NodeType
<1>1. PICK d \in Taken : d.path = q /\ d.kind # "D"
  BY DEF Written
<1>2. d \in AllChanges
  BY DEF Taken
<1>3. q \in DOMAIN New /\ q \in Path /\ q # Root
  BY <1>1, <1>2, Listed
<1>4. PlainPath(q) /\ New[q] \in NodeType
  BY <1>3, JobIsDiff, DiskIsPlain, DiskPaths
<1>5. ~Left(q)
  BY <1>1, <1>3, PrefixOrder DEF Left
<1> QED BY <1>3, <1>4, <1>5

LEMMA LeftPath ==
  ASSUME StateOK, NEW q, Left(q)
  PROVE  q \in DOMAIN Old /\ q \in Path /\ Old[q] \in NodeType /\ Len(Old[q].ino) = 2
BY JobIsDiff, DiskPaths DEF Left

LEMMA StaysSame ==
  ASSUME NEW n, NEW m \in NodeType, Stays(n, m)
  PROVE  /\ n.kind = m.kind /\ n.mode = m.mode /\ n.uid = m.uid /\ n.data = m.data /\ n.cap = m.cap
         /\ n.to = m.to /\ n.ino = m.ino
BY DEF Stays, NodeType

LEMMA InTree ==
  ASSUME StateOK, TreeOK, NEW q \in DOMAIN s.t
  PROVE  /\ q \in Path /\ s.t[q] \in NodeType
         /\ \/ Written(q) /\ ~Left(q) /\ Made(s.t[q], New[q]) /\ s.t[q].kind = New[q].kind
            \/ Left(q) /\ ~Written(q) /\ Stays(s.t[q], Old[q]) /\ s.t[q].kind = Old[q].kind
<1>1. s.t[q] \in NodeType
  BY DEF StateOK, Typed
<1>2. Left(q) \/ Written(q)
  BY DEF TreeOK
<1>3. CASE Written(q)
  BY <1>1, <1>3, WrittenPath DEF TreeOK, Made
<1>4. CASE Left(q)
  <2>1. Stays(s.t[q], Old[q]) /\ ~Written(q)
    BY <1>4, WrittenPath DEF TreeOK
  <2>2. q \in Path /\ Old[q] \in NodeType
    BY <1>4, LeftPath
  <2> QED BY <1>1, <1>4, <2>1, <2>2, StaysSame
<1> QED BY <1>2, <1>3, <1>4

(* The change that is next: what is above it is there and is a directory,  *)
(* nothing in it was written, and what is in it is as it was.              *)
Ready(c) == c \in todo /\ \A d \in todo : ~Below(d.path, c.path)

LEMMA ReadyAbove ==
  ASSUME DiffInv, NEW c, Ready(c), NEW q \in Path, Below(q, c.path)
  PROVE  q \in DOMAIN s.t /\ IsDir(s.t, q)
<1>1. StateOK /\ TreeOK /\ c \in AllChanges
  BY DEF DiffInv, OrderOK, Ready
<1>2. CASE q = Root
  <2>1. IsDir(Old, Root)
    BY <1>1, JobIsDiff DEF OnDisk
  <2>2. Left(Root)
    BY <1>1, <2>1, Listed, RootIsFirst DEF Left, IsDir, Taken
  <2>3. Root \in DOMAIN s.t
    BY <1>1, <2>1, <2>2 DEF TreeOK, IsDir
  <2> QED BY <1>1, <1>2, <2>1, <2>2, <2>3, InTree DEF IsDir
<1>3. CASE q # Root
  <2>1. IsDir(New, q) /\ \E d \in AllChanges : d.path = q /\ d.kind # "D"
    BY <1>1, <1>3, AboveListed
  <2>2. Written(q)
    BY <2>1 DEF Ready, Written, Taken
  <2>3. q \in DOMAIN s.t
    BY <1>1, <2>1, <2>2 DEF TreeOK, IsDir
  <2> QED BY <1>1, <2>1, <2>2, <2>3, InTree DEF IsDir
<1> QED BY <1>2, <1>3

LEMMA ReadyPath ==
  ASSUME DiffInv, NEW c, Ready(c)
  PROVE  /\ c \in AllChanges /\ c.path \in Path /\ c.path # Root /\ PlainPath(c.path)
         /\ Dir(c.path) \in Path /\ Dir(c.path) # c.path /\ ~IsPrefix(c.path, Dir(c.path))
         /\ Dir(c.path) \in DOMAIN s.t /\ IsDir(s.t, Dir(c.path))
<1>1. StateOK /\ TreeOK /\ c \in AllChanges
  BY DEF DiffInv, OrderOK, Ready
<1>2. c.path \in Path /\ c.path # Root /\ (c.path \in DOMAIN New \/ c.path \in DOMAIN Old)
  BY <1>1, Listed
<1>3. PlainPath(c.path)
  BY <1>1, <1>2, JobIsDiff, DiskIsPlain
<1>4. Dir(c.path) \in Path /\ Below(Dir(c.path), c.path)
  BY <1>2, DirIsAbove
<1>5. Dir(c.path) # c.path /\ ~IsPrefix(c.path, Dir(c.path))
  BY <1>2, <1>4, BelowOrder
<1> QED BY <1>1, <1>2, <1>3, <1>4, <1>5, ReadyAbove

LEMMA ReadyIsFirst ==
  ASSUME DiffInv, NEW c, Ready(c)
  PROVE  /\ \A d \in Taken : d.path # c.path /\ ~IsPrefix(c.path, d.path)
         /\ \A q \in Path : Written(q) => ~IsPrefix(c.path, q)
         /\ ~Written(c.path)
         /\ c.path \in DOMAIN Old => Left(c.path)
         /\ c.path \in DOMAIN s.t => Left(c.path)
<1> DEFINE p == c.path
<1>1. StateOK /\ OrderOK /\ TreeOK /\ c \in AllChanges /\ p \in Path /\ c \in todo
  BY ReadyPath DEF DiffInv, Ready
<1> HIDE DEF p
<1>2. ASSUME NEW d \in Taken PROVE d \in AllChanges /\ d.path \in Path /\ d.path # p /\ ~IsPrefix(p, d.path)
  <2>1. d \in AllChanges /\ d \notin todo
    BY DEF Taken
  <2>2. d.path # p
    BY <1>1, <2>1, OneListed DEF p
  <2>3. ~Below(p, d.path)
    BY <1>1 DEF OrderOK, p
  <2>4. d.path \in Path
    BY <1>1, <2>1, Listed
  <2> QED BY <1>1, <2>1, <2>2, <2>3, <2>4, BelowOrder
<1>3. \A q : Written(q) => ~IsPrefix(p, q) /\ q # p
  BY <1>2 DEF Written
<1>4. ASSUME p \in DOMAIN Old PROVE Left(p)
  <2>1. SUFFICES ASSUME NEW d \in Taken, IsPrefix(d.path, p) PROVE d.path # p /\ d.kind # "D" /\ IsDir(New, d.path)
    BY <1>4 DEF Left
  <2>2. d \in AllChanges /\ d.path \in Path /\ d.path # p
    BY <1>2
  <2>3. Below(d.path, p)
    BY <1>1, <2>1, <2>2, BelowOrder
  <2>4. IsDir(New, d.path)
    BY <1>1, <2>2, <2>3, Listed, AboveListed DEF p
  <2>5. d.kind # "D"
    BY <1>1, <2>2, <2>4, Listed DEF IsDir
  <2> QED BY <2>2, <2>4, <2>5
<1>5. p \in DOMAIN s.t => Left(p)
  BY <1>1, <1>3, InTree
<1> QED BY <1>1, <1>2, <1>3, <1>4, <1>5 DEF p

---------------------------------------------------------------------------
(* What one change does                                                    *)

(* x is y, but for the time of a directory.                                *)
Kept(x, y) == x.time \in Nat /\ x = [y EXCEPT !.time = x.time] /\ (y.kind # "dir" => x = y)

LEMMA KeptNode ==
  ASSUME NEW y \in NodeType, NEW x, Kept(x, y)
  PROVE  /\ x \in NodeType /\ x.kind = y.kind /\ x.ino = y.ino
         /\ \A m \in NodeType : (Stays(y, m) => Stays(x, m)) /\ (Made(y, m) => Made(x, m))
<1>1. /\ x \in NodeType /\ x.kind = y.kind /\ x.ino = y.ino /\ x.mode = y.mode /\ x.uid = y.uid
      /\ x.data = y.data /\ x.cap = y.cap /\ x.to = y.to
  BY DEF Kept, NodeType
<1>2. ASSUME NEW m \in NodeType, Stays(y, m) PROVE Stays(x, m)
  <2>1. y.kind = m.kind
    BY <1>2, StaysSame
  <2>2. x = [m EXCEPT !.time = x.time]
    BY <1>2 DEF Stays, Kept, NodeType
  <2>3. m.kind # "dir" => x.time = m.time
    BY <1>2, <2>1 DEF Stays, Kept
  <2> QED BY <2>2, <2>3 DEF Stays
<1>3. ASSUME NEW m \in NodeType, Made(y, m) PROVE Made(x, m)
  BY <1>1, <1>3 DEF Made, Kept
<1> QED BY <1>1, <1>2, <1>3

LEMMA KeptTwice ==
  ASSUME NEW z \in NodeType, NEW y, NEW x, Kept(y, z), Kept(x, y)
  PROVE  Kept(x, z)
<1>1. y \in NodeType /\ y.kind = z.kind
  BY KeptNode
<1>2. x = [z EXCEPT !.time = x.time]
  BY DEF Kept, NodeType
<1> QED BY <1>1, <1>2 DEF Kept

LEMMA SameIsKept ==
  ASSUME NEW y \in NodeType
  PROVE  Kept(y, y)
BY DEF Kept, NodeType

(* What a directory alone can have inside.                                 *)
LEMMA ReadyInside ==
  ASSUME DiffInv, NEW c, Ready(c), NEW q \in DOMAIN s.t, IsPrefix(c.path, q), q # c.path
  PROVE  c.path \in DOMAIN s.t /\ IsDir(s.t, c.path)
<1> DEFINE p == c.path
<1>1. StateOK /\ TreeOK /\ p \in Path
  BY ReadyPath DEF DiffInv
<1>2. q \in Path /\ Left(q)
  BY <1>1, InTree, ReadyIsFirst
<1>3. q \in DOMAIN Old /\ Below(p, q)
  BY <1>1, <1>2, BelowOrder, LeftPath
<1>4. p \in DOMAIN Old /\ IsDir(Old, p)
  BY <1>1, <1>3, JobIsDiff, AboveIsDir
<1>5. Left(p)
  BY <1>4, ReadyIsFirst
<1>6. p \in DOMAIN s.t
  BY <1>1, <1>4, <1>5 DEF TreeOK
<1>7. s.t[p].kind = Old[p].kind
  BY <1>1, <1>5, <1>6, InTree
<1> QED BY <1>4, <1>6, <1>7 DEF IsDir

(* The place of the change, when it is cleared.                            *)
LEMMA Cleared ==
  ASSUME DiffInv, NEW c, Ready(c)
  PROVE  LET g == RemoveAll(s.t, c.path) IN
         /\ DOMAIN g = {r \in DOMAIN s.t : ~IsPrefix(c.path, r)} /\ c.path \notin DOMAIN g
         /\ Typed(g) /\ \A q \in DOMAIN g : Kept(g[q], s.t[q])
         /\ IsDir(g, Dir(c.path))
<1> DEFINE p == c.path
           g == RemoveAll(s.t, p)
<1>1. StateOK /\ TreeOK /\ Typed(s.t) /\ p \in Path /\ IsPrefix(p, p)
  BY ReadyPath, PrefixOrder DEF DiffInv, StateOK
<1>2. Dir(p) \in DOMAIN s.t /\ IsDir(s.t, Dir(p)) /\ ~IsPrefix(p, Dir(p))
  BY ReadyPath
<1>3. /\ DOMAIN g = {r \in DOMAIN s.t : ~IsPrefix(p, r)} /\ Typed(g)
      /\ \A q \in DOMAIN g : Kept(g[q], s.t[q])
  <2>1. CASE p \in DOMAIN s.t
    <3>1. /\ DOMAIN g = {r \in DOMAIN s.t : ~IsPrefix(p, r)} /\ AllBut(g, s.t, Dir(p)) /\ Typed(g)
      BY <1>1, <2>1, Removing
    <3> HIDE DEF g
    <3>2. \A q \in DOMAIN g : Kept(g[q], s.t[q])
      BY <1>2, <3>1 DEF AllBut, Kept, IsDir
    <3> QED BY <3>1, <3>2
  <2>2. CASE p \notin DOMAIN s.t
    <3>1. g = s.t
      BY <2>2 DEF RemoveAll
    <3>2. \A r \in DOMAIN s.t : ~IsPrefix(p, r)
      BY <2>2, ReadyInside
    <3>3. \A q \in DOMAIN s.t : Kept(s.t[q], s.t[q])
      BY <1>1, InTree, SameIsKept
    <3> HIDE DEF g
    <3> QED BY <1>1, <3>1, <3>2, <3>3
  <2> QED BY <2>1, <2>2
<1> HIDE DEF g
<1>4. IsDir(g, Dir(p))
  <2>1. Dir(p) \in DOMAIN g
    BY <1>2, <1>3
  <2>2. g[Dir(p)].kind = s.t[Dir(p)].kind
    BY <1>1, <1>2, <1>3, <2>1, KeptNode DEF Typed
  <2> QED BY <1>2, <2>1, <2>2 DEF IsDir
<1> QED BY <1>1, <1>3, <1>4 DEF g

(* What the new state takes from the old one.                              *)
LEMMA NextPaths ==
  ASSUME DiffInv, NEW c, Ready(c), todo' = todo \ {c}, job' = job
  PROVE  /\ Old' = Old /\ New' = New /\ AllChanges' = AllChanges /\ Taken' = Taken \cup {c}
         /\ \A q : Written(q)' <=> Written(q) \/ (q = c.path /\ c.kind # "D")
         /\ \A q : Left(q)' <=>
              /\ Left(q)
              /\ IsPrefix(c.path, q) => q # c.path /\ c.kind # "D" /\ IsDir(New, c.path)
<1>1. Old' = Old /\ New' = New
  BY DEF Old, New
<1>2. AllChanges' = AllChanges
  BY <1>1 DEF AllChanges
<1>3. Taken' = Taken \cup {c}
  BY <1>2, ReadyPath DEF Taken, Ready
<1> QED BY <1>1, <1>2, <1>3 DEF Written, Left

LEMMA NextOrder ==
  ASSUME DiffInv, NEW c, Ready(c), todo' = todo \ {c}, job' = job
  PROVE  OrderOK'
<1>1. /\ AllChanges' = AllChanges /\ Taken' = Taken \cup {c}
  BY NextPaths
<1>2. OrderOK
  BY DEF DiffInv
<1> QED BY <1>1, <1>2 DEF OrderOK, Ready

LEMMA NextTree ==
  ASSUME DiffInv, NEW c, Ready(c), todo' = todo \ {c}, job' = job,
         \A q : q \in DOMAIN s'.t <=>
           \/ /\ q \in DOMAIN s.t /\ q # c.path
              /\ IsPrefix(c.path, q) => c.kind # "D" /\ IsDir(New, c.path)
           \/ q = c.path /\ c.kind # "D",
         \A q \in DOMAIN s'.t \ {c.path} : Kept(s'.t[q], s.t[q]),
         c.kind # "D" => Made(s'.t[c.path], New[c.path])
  PROVE  TreeOK'
<1> DEFINE p == c.path
<1>1. StateOK /\ TreeOK /\ p \in Path /\ c \in AllChanges /\ IsPrefix(p, p)
  BY ReadyPath, PrefixOrder DEF DiffInv
<1>2. /\ Old' = Old /\ New' = New
      /\ \A q : Written(q)' <=> Written(q) \/ (q = p /\ c.kind # "D")
      /\ \A q : Left(q)' <=> Left(q) /\ (IsPrefix(p, q) => q # p /\ c.kind # "D" /\ IsDir(New, p))
  BY NextPaths
<1>3. c.kind # "D" => p \in DOMAIN New
  BY <1>1, Listed
<1>4. ASSUME NEW q
      PROVE  q \in DOMAIN s'.t <=> q \in DOMAIN Old \cup DOMAIN New /\ (Left(q)' \/ Written(q)')
  <2>1. q \in DOMAIN s.t <=> q \in DOMAIN Old \cup DOMAIN New /\ (Left(q) \/ Written(q))
    BY <1>1 DEF TreeOK
  <2>2. Written(q) => ~IsPrefix(p, q)
    BY <1>1, WrittenPath, ReadyIsFirst
  <2>3. ~Written(p)
    BY ReadyIsFirst
  <2> QED BY <1>1, <1>2, <1>3, <2>1, <2>2, <2>3
<1>5. ASSUME NEW q \in DOMAIN s'.t
      PROVE  /\ Left(q)' => Stays(s'.t[q], Old[q])
             /\ Written(q)' => Made(s'.t[q], New[q])
  <2>1. CASE q = p
    <3>1. ~Left(p)'
      BY <1>1, <1>2
    <3>2. c.kind # "D"
      BY <2>1
    <3> QED BY <2>1, <3>1, <3>2
  <2>2. CASE q # p
    <3>1. q \in DOMAIN s.t /\ Kept(s'.t[q], s.t[q]) /\ s.t[q] \in NodeType
      BY <1>1, <2>2, InTree
    <3>2. Left(q)' => Left(q) /\ Stays(s.t[q], Old[q]) /\ Old[q] \in NodeType
      BY <1>1, <1>2, <3>1, LeftPath DEF TreeOK
    <3>3. Written(q)' => Written(q) /\ Made(s.t[q], New[q]) /\ New[q] \in NodeType
      BY <1>1, <1>2, <2>2, <3>1, WrittenPath DEF TreeOK
    <3> QED BY <3>1, <3>2, <3>3, KeptNode
  <2> QED BY <2>1, <2>2
<1> QED BY <1>2, <1>4, <1>5 DEF TreeOK

LEMMA NextLinks ==
  ASSUME DiffInv, NEW c, Ready(c), todo' = todo \ {c}, job' = job,
         s.count \in Nat, s'.count \in Nat, s'.count >= s.count,
         \A q \in DOMAIN s'.t \ {c.path} : q \in DOMAIN s.t /\ s'.t[q].ino = s.t[q].ino,
         c.kind # "D" /\ ~IsDir(New, c.path) =>
           \/ s'.count = s.count + 1 /\ s'.t[c.path].ino = <<s'.count>>
           \/ \E r \in DOMAIN s.t : /\ Written(r) /\ ~IsDir(New, r) /\ New[r] = New[c.path]
                                    /\ s'.t[c.path].ino = s.t[r].ino,
         \A i \in DOMAIN ta'.seen :
           \/ i \in DOMAIN ta.seen /\ ta'.seen[i] = ta.seen[i]
           \/ c.kind # "D" /\ ~IsDir(New, c.path) /\ i = New[c.path].ino /\ ta'.seen[i] = c.path
  PROVE  LinksOK'
<1> DEFINE p == c.path
           k == s.count
<1>1. LinksOK
  BY DEF DiffInv
<1>a. /\ \A q, r \in DOMAIN s.t :
           Written(q) /\ Written(r) /\ ~IsDir(New, q) /\ ~IsDir(New, r) /\ s.t[q].ino = s.t[r].ino =>
             New[q] = New[r]
  BY <1>1, Zenon DEF LinksOK
<1>b. \A i \in DOMAIN ta.seen :
        Written(ta.seen[i]) /\ ~IsDir(New, ta.seen[i]) /\ New[ta.seen[i]].ino = i
  BY <1>1, Zenon DEF LinksOK
<1>2. /\ New' = New /\ Taken' = Taken \cup {c}
      /\ \A q : Written(q)' <=> Written(q) \/ (q = p /\ c.kind # "D")
  BY NextPaths
<1>3. ASSUME NEW q \in DOMAIN s'.t, Written(q)', ~IsDir(New, q), q # p
      PROVE  /\ q \in DOMAIN s.t /\ Written(q) /\ s'.t[q].ino = s.t[q].ino
             /\ \E i \in 1 .. s.count : s'.t[q].ino = <<i>>
  <2>1. q \in DOMAIN s.t /\ Written(q) /\ s'.t[q].ino = s.t[q].ino
    BY <1>2, <1>3
  <2> QED BY <1>1, <1>3, <2>1 DEF LinksOK
<1>4. ASSUME NEW q \in DOMAIN s'.t, Written(q)', ~IsDir(New, q)
      PROVE  \E i \in 1 .. s'.count : s'.t[q].ino = <<i>>
  <2>1. CASE q # p
    <3>1. PICK i \in 1 .. s.count : s'.t[q].ino = <<i>>
      BY <1>3, <1>4, <2>1
    <3>2. i \in 1 .. s'.count
      BY <3>1
    <3> QED BY <3>1, <3>2
  <2>2. CASE q = p /\ c.kind # "D"
    <3>1. CASE s'.count = s.count + 1 /\ s'.t[p].ino = <<s'.count>>
      <4>1. s'.count \in 1 .. s'.count
        BY <3>1
      <4> QED BY <2>2, <3>1, <4>1
    <3>2. ASSUME NEW r \in DOMAIN s.t, Written(r), ~IsDir(New, r), s'.t[p].ino = s.t[r].ino
          PROVE  \E i \in 1 .. s'.count : s'.t[q].ino = <<i>>
      <4>1. PICK i \in 1 .. s.count : s.t[r].ino = <<i>>
        BY <1>1, <3>2 DEF LinksOK
      <4>2. i \in 1 .. s'.count
        BY <4>1
      <4> QED BY <2>2, <3>2, <4>1, <4>2
    <3> QED BY <1>4, <2>2, <3>1, <3>2
  <2>3. CASE q = p /\ c.kind = "D"
    BY <1>2, <1>4, <2>3, ReadyIsFirst
  <2> QED BY <2>1, <2>2, <2>3
<1>5. ASSUME NEW q \in DOMAIN s'.t, Written(q)', ~IsDir(New, q), q # p, c.kind # "D", ~IsDir(New, p),
             s'.t[q].ino = s'.t[p].ino
      PROVE  New[q] = New[p]
  <2>1. /\ q \in DOMAIN s.t /\ Written(q) /\ s'.t[q].ino = s.t[q].ino
        /\ \E i \in 1 .. s.count : s'.t[q].ino = <<i>>
    BY <1>3, <1>5
  <2>2. ~(s'.count = s.count + 1 /\ s'.t[p].ino = <<s'.count>>)
    BY <1>5, <2>1
  <2>3. PICK r \in DOMAIN s.t : /\ Written(r) /\ ~IsDir(New, r) /\ New[r] = New[p]
                                /\ s'.t[p].ino = s.t[r].ino
    BY <1>5, <2>2
  <2> QED BY <1>a, <1>5, <2>1, <2>3
<1>6. ASSUME NEW q \in DOMAIN s'.t, NEW r \in DOMAIN s'.t, Written(q)', Written(r)',
             ~IsDir(New, q), ~IsDir(New, r), s'.t[q].ino = s'.t[r].ino
      PROVE  New[q] = New[r]
  <2>1. CASE q # p /\ r # p
    <3>1. /\ q \in DOMAIN s.t /\ Written(q) /\ s'.t[q].ino = s.t[q].ino
          /\ r \in DOMAIN s.t /\ Written(r) /\ s'.t[r].ino = s.t[r].ino
      BY <1>3, <1>6, <2>1
    <3> QED BY <1>a, <1>6, <3>1
  <2>2. CASE q = p \/ r = p
    <3>1. c.kind # "D"
      BY <1>2, <1>6, <2>2, ReadyIsFirst
    <3> QED BY <1>5, <1>6, <2>2, <3>1
  <2> QED BY <2>1, <2>2
<1>7. ASSUME NEW i \in DOMAIN ta'.seen
      PROVE  LET q == ta'.seen[i] IN
             (Written(q) \/ (q = p /\ c.kind # "D")) /\ ~IsDir(New, q) /\ New[q].ino = i
  <2>1. CASE i \in DOMAIN ta.seen /\ ta'.seen[i] = ta.seen[i]
    BY <1>b, <2>1
  <2>2. CASE c.kind # "D" /\ ~IsDir(New, p) /\ i = New[p].ino /\ ta'.seen[i] = p
    BY <2>2
  <2> QED BY <2>1, <2>2
<1>8. (\A i \in DOMAIN ta.seen :
         Written(ta.seen[i]) /\ ~IsDir(New, ta.seen[i]) /\ New[ta.seen[i]].ino = i)'
  BY <1>2, <1>7 DEF Written
<1>9. \A q \in DOMAIN s.t' : Written(q)' /\ ~IsDir(New', q) => \E i \in 1 .. s.count' : s.t'[q].ino = <<i>>
  BY <1>2, <1>4
<1>10. \A q, r \in DOMAIN s.t' :
         Written(q)' /\ Written(r)' /\ ~IsDir(New', q) /\ ~IsDir(New', r) /\ s.t'[q].ino = s.t'[r].ino =>
           New'[q] = New'[r]
  BY <1>2, <1>6
<1> QED BY <1>8, <1>9, <1>10 DEF LinksOK

LEMMA NextDirs ==
  ASSUME DiffInv, NEW c, Ready(c), todo' = todo \ {c}, job' = job, outcome' = "run",
         \A q \in DOMAIN s'.t \ {c.path} : q \in DOMAIN s.t,
         c.kind = "D" \/ ~IsDir(New, c.path) => s'.dirs = s.dirs,
         c.kind # "D" /\ IsDir(New, c.path) =>
           s'.dirs = Append(s.dirs, Header(c.path, "dir", Root, Packed(New[c.path])))
  PROVE  TimesOK'
<1> DEFINE p == c.path
           T == [name : Path, type : {"dir"}, link : Path, node : NodeType]
           h == Header(p, "dir", Root, Packed(New[p]))
           D == s.dirs
           E == s'.dirs
           Was(q) == Written(q) /\ IsDir(New, q)
           Is(q) == (Written(q) \/ (q = p /\ c.kind # "D")) /\ IsDir(New, q)
<1>1. /\ D \in Seq(T) /\ \A i \in 1 .. Len(D) : Was(D[i].name) /\ D[i].node.time = Rounded(New[D[i].name].time)
      /\ \A q \in DOMAIN s.t : Written(q) /\ IsDir(New, q) => \E i \in 1 .. Len(D) : D[i].name = q
  BY DEF DiffInv, TimesOK, Ready
<1>2. /\ New' = New /\ Taken' = Taken \cup {c}
      /\ \A q : Written(q)' <=> Written(q) \/ (q = p /\ c.kind # "D")
  BY NextPaths
<1>5. ASSUME E \in Seq(T),
             \A i \in 1 .. Len(E) : Is(E[i].name) /\ E[i].node.time = Rounded(New[E[i].name].time),
             \A q \in DOMAIN s'.t : Written(q)' /\ IsDir(New, q) => \E i \in 1 .. Len(E) : E[i].name = q
      PROVE  TimesOK'
  <2>1. (\A i \in 1 .. Len(s.dirs) : LET x == s.dirs[i] IN
           Written(x.name) /\ IsDir(New, x.name) /\ x.node.time = Rounded(New[x.name].time))'
    BY <1>2, <1>5 DEF Written
  <2>2. (\A q \in DOMAIN s.t : Written(q) /\ IsDir(New, q) => \E i \in 1 .. Len(s.dirs) : s.dirs[i].name = q)'
    BY <1>2, <1>5
  <2>3. (s.dirs \in Seq([name : Path, type : {"dir"}, link : Path, node : NodeType]))'
    BY <1>5
  <2>4. outcome' # "ok"
    OBVIOUS
  <2> QED BY <2>1, <2>2, <2>3, <2>4, Zenon DEF TimesOK
<1>3. CASE c.kind = "D" \/ ~IsDir(New, p)
  <2>1. E = D
    BY <1>3
  <2>2. \A i \in 1 .. Len(E) : Is(E[i].name) /\ E[i].node.time = Rounded(New[E[i].name].time)
    BY <1>1, <2>1
  <2>3. \A q \in DOMAIN s'.t : Written(q)' /\ IsDir(New, q) => \E i \in 1 .. Len(E) : E[i].name = q
    BY <1>1, <1>2, <1>3, <2>1, ReadyIsFirst
  <2> HIDE DEF D
  <2>4. E \in Seq(T)
    BY <1>1, <2>1
  <2> QED BY <1>5, <2>2, <2>3, <2>4
<1>4. CASE c.kind # "D" /\ IsDir(New, p)
  <2>1. E = Append(D, h)
    BY <1>4
  <2>2. p \in Path /\ New[p] \in NodeType /\ Root \in Path
    BY <1>4, ReadyPath, JobIsDiff, DiskPaths, RootIsFirst DEF DiffInv, IsDir
  <2>3. h \in T /\ h.name = p /\ h.node.time = Rounded(New[p].time)
    BY <2>2, PackedType DEF Header
  <2> HIDE DEF h, T, D
  <2>4. E \in Seq(T) /\ Len(E) = Len(D) + 1 /\ E[Len(D) + 1] = h /\ Len(D) \in Nat
        /\ \A i \in 1 .. Len(D) : E[i] = D[i]
    BY <1>1, <2>1, <2>3
  <2> HIDE DEF E
  <2>5. ASSUME NEW i \in 1 .. Len(E) PROVE Is(E[i].name) /\ E[i].node.time = Rounded(New[E[i].name].time)
    <3>1. CASE i \in 1 .. Len(D)
      <4>1. E[i] = D[i]
        BY <1>1, <2>4, <3>1
      <4> QED BY <1>1, <3>1, <4>1
    <3>2. CASE i \notin 1 .. Len(D)
      <4>1. E[i] = h
        BY <2>4, <3>2
      <4> QED BY <1>4, <2>3, <4>1
    <3> QED BY <3>1, <3>2
  <2>6. ASSUME NEW q \in DOMAIN s'.t, Written(q)', IsDir(New, q)
        PROVE  \E i \in 1 .. Len(E) : E[i].name = q
    <3>1. CASE q = p
      <4>1. Len(D) + 1 \in 1 .. Len(E) /\ E[Len(D) + 1].name = q
        BY <2>3, <2>4, <3>1
      <4> QED BY <4>1
    <3>2. CASE q # p
      <4>1. PICK i \in 1 .. Len(D) : D[i].name = q
        BY <1>1, <1>2, <2>6, <3>2
      <4>2. i \in 1 .. Len(E) /\ E[i].name = q
        BY <2>4, <4>1
      <4> QED BY <4>2
    <3> QED BY <3>1, <3>2
  <2> QED BY <1>5, <2>4, <2>5, <2>6
<1> QED BY <1>3, <1>4

(* u is the tree of s with the change c in it.                             *)
Moved(u, c) ==
  /\ Typed(u)
  /\ \A q : q \in DOMAIN u <=>
       \/ /\ q \in DOMAIN s.t /\ q # c.path
          /\ IsPrefix(c.path, q) => c.kind # "D" /\ IsDir(New, c.path)
       \/ q = c.path /\ c.kind # "D"
  /\ \A q \in DOMAIN u \ {c.path} : Kept(u[q], s.t[q])
  /\ c.kind # "D" => Made(u[c.path], New[c.path])
  /\ c.kind # "D" /\ ~IsDir(New, c.path) =>
       \/ u[c.path].ino = <<s.count + 1>>
       \/ \E r \in DOMAIN s.t : /\ Written(r) /\ ~IsDir(New, r) /\ New[r] = New[c.path]
                                /\ u[c.path].ino = s.t[r].ino

(* A deleted path is removed.                                              *)
LEMMA MovedAway ==
  ASSUME DiffInv, NEW c, Ready(c), c.kind = "D"
  PROVE  Moved(RemoveAll(s.t, c.path), c)
<1> DEFINE g == RemoveAll(s.t, c.path)
<1>1. /\ DOMAIN g = {r \in DOMAIN s.t : ~IsPrefix(c.path, r)} /\ c.path \notin DOMAIN g
      /\ Typed(g) /\ \A q \in DOMAIN g : Kept(g[q], s.t[q])
  BY Cleared
<1>2. IsPrefix(c.path, c.path)
  BY ReadyPath, PrefixOrder
<1> HIDE DEF g
<1>3. Moved(g, c)
  BY <1>1, <1>2 DEF Moved
<1> QED BY <1>3 DEF g

LEMMA ChangedNode ==
  ASSUME StateOK, NEW c \in AllChanges, c.kind # "D"
  PROVE  LET n == New[c.path] IN
         /\ c.path \in DOMAIN New /\ n \in NodeType /\ (IsDir(New, c.path) <=> n.kind = "dir")
         /\ Packed(n) \in NodeType /\ Packed(n).kind = n.kind
         /\ n.kind = "dir" => n.data = 0 /\ n.cap = "" /\ n.to = Root /\ Packed(n).cap = ""
         /\ n.kind = "symlink" => Packed(n).to # Outside
<1>1. c.path \in DOMAIN New /\ OnDisk(New)
  BY Listed, JobIsDiff
<1>2. /\ New[c.path] \in NodeType
      /\ New[c.path].kind = "dir" => New[c.path].data = 0 /\ New[c.path].cap = "" /\ New[c.path].to = Root
      /\ New[c.path].kind = "symlink" => New[c.path].to # Outside
  BY <1>1, DiskPaths
<1> QED BY <1>1, <1>2, PackedType DEF IsDir

(* A directory that is there gets what its header says.                    *)
LEMMA MovedDir ==
  ASSUME DiffInv, NEW c, Ready(c), c.kind # "D", IsDir(New, c.path), IsDir(s.t, c.path), NEW i
  PROVE  LET u == createTarFile(s.t, c.path, Header(c.path, "dir", Root, Packed(New[c.path])), i, job.opts)
         IN  Moved(u, c) /\ u # NoTree
<1> DEFINE p == c.path
           n == New[p]
           m == Packed(n)
           u == createTarFile(s.t, p, Header(p, "dir", Root, m), i, job.opts)
<1>1. StateOK /\ TreeOK /\ Typed(s.t) /\ c \in AllChanges /\ job \in Diffs
  BY ReadyPath DEF DiffInv, StateOK
<1>2. /\ n \in NodeType /\ n.kind = "dir" /\ m \in NodeType /\ m.cap = ""
      /\ n.data = 0 /\ n.cap = "" /\ n.to = Root
      /\ m.mode = n.mode /\ m.uid = n.uid
  BY <1>1, ChangedNode, PackedType
<1> HIDE DEF m
<1>3. /\ DOMAIN u = DOMAIN s.t /\ u # NoTree
      /\ u[p] = [s.t[p] EXCEPT !.mode = m.mode, !.time = m.time, !.uid = m.uid]
      /\ \A q \in DOMAIN s.t \ {p} : u[q] = s.t[q]
  <2>1. Refreshed(u, s.t, p, m)
    BY <1>1, <1>2, CreatedDir
  <2> QED BY <2>1 DEF Refreshed
<1>4. p \in DOMAIN s.t /\ s.t[p].kind = "dir" /\ s.t[p] \in NodeType
  BY <1>1, InTree DEF IsDir
<1>5. /\ Stays(s.t[p], Old[p]) /\ Old[p].kind = "dir" /\ Old[p] \in NodeType
      /\ Old[p].data = 0 /\ Old[p].cap = "" /\ Old[p].to = Root
  <2>1. Left(p)
    BY <1>4, ReadyIsFirst
  <2>2. Stays(s.t[p], Old[p]) /\ s.t[p].kind = Old[p].kind
    BY <1>1, <1>4, <2>1, InTree
  <2>3. p \in DOMAIN Old /\ OnDisk(Old)
    BY <1>1, <2>1, LeftPath, JobIsDiff
  <2> QED BY <1>4, <2>2, <2>3, DiskPaths
<1> HIDE DEF u, n
<1>6. s.t[p].data = 0 /\ s.t[p].cap = "" /\ s.t[p].to = Root
  BY <1>5, StaysSame
<1>7. /\ u[p].kind = "dir" /\ u[p].mode = n.mode /\ u[p].uid = n.uid /\ u[p].data = 0
      /\ u[p].cap = "" /\ u[p].to = Root /\ u[p] \in NodeType
  <2>1. m.mode \in Nat /\ m.time \in Nat /\ m.uid \in Nat
    BY <1>2 DEF NodeType
  <2>2. [s.t[p] EXCEPT !.mode = m.mode, !.time = m.time, !.uid = m.uid] \in NodeType
    BY <1>4, <2>1 DEF NodeType
  <2> QED BY <1>2, <1>3, <1>4, <1>6, <2>2 DEF NodeType
<1>8. Made(u[p], n)
  BY <1>2, <1>7 DEF Made
<1>9. Typed(u)
  BY <1>1, <1>3, <1>7 DEF Typed
<1>10. \A q \in DOMAIN u \ {p} : Kept(u[q], s.t[q])
  BY <1>1, <1>3, SameIsKept DEF Typed
<1>11. Moved(u, c)
  BY <1>3, <1>4, <1>8, <1>9, <1>10 DEF Moved, n
<1> QED BY <1>3, <1>11 DEF u, m, n

(* What is put in a place that is cleared.                                 *)
LEMMA MovedIn ==
  ASSUME DiffInv, NEW c, Ready(c), c.kind # "D", ~(IsDir(New, c.path) /\ IsDir(s.t, c.path)),
         NEW x \in NodeType, NEW u, u = Put(RemoveAll(s.t, c.path), c.path, x),
         Made(x, New[c.path]),
         ~IsDir(New, c.path) =>
           \/ x.ino = <<s.count + 1>>
           \/ \E r \in DOMAIN s.t : /\ Written(r) /\ ~IsDir(New, r) /\ New[r] = New[c.path]
                                    /\ x.ino = s.t[r].ino
  PROVE  Moved(u, c) /\ Places(u, RemoveAll(s.t, c.path), c.path, x)
<1> DEFINE p == c.path
           g == RemoveAll(s.t, p)
<1>1. StateOK /\ Typed(s.t) /\ p # Dir(p) /\ IsPrefix(p, p)
  BY ReadyPath, PrefixOrder DEF DiffInv, StateOK
<1>2. /\ DOMAIN g = {r \in DOMAIN s.t : ~IsPrefix(p, r)} /\ p \notin DOMAIN g /\ Typed(g)
      /\ IsDir(g, Dir(p)) /\ \A q \in DOMAIN g : Kept(g[q], s.t[q])
  BY Cleared
<1> HIDE DEF g
<1>3. Places(u, g, p, x)
  BY <1>1, <1>2, PutPlaces DEF g
<1>4. /\ DOMAIN u = DOMAIN g \cup {p} /\ u[p] = x
      /\ \A q \in DOMAIN g : Kept(u[q], g[q])
  BY <1>2, <1>3 DEF Places, Kept, IsDir
<1>5. ASSUME NEW q \in DOMAIN g PROVE Kept(u[q], s.t[q]) /\ u[q] \in NodeType
  <2>1. s.t[q] \in NodeType /\ Kept(g[q], s.t[q]) /\ Kept(u[q], g[q])
    BY <1>1, <1>2, <1>4 DEF Typed
  <2> QED BY <2>1, KeptTwice, KeptNode
<1>6. Typed(u)
  BY <1>4, <1>5 DEF Typed
<1>7. ASSUME NEW q
      PROVE  q \in DOMAIN u <=> (q \in DOMAIN s.t /\ q # p /\ (IsPrefix(p, q) => IsDir(New, p))) \/ q = p
  <2>1. q \in DOMAIN s.t /\ q # p /\ IsPrefix(p, q) => IsDir(s.t, p)
    BY ReadyInside
  <2> QED BY <1>1, <1>2, <1>4, <2>1
<1>8. Moved(u, c)
  BY <1>2, <1>4, <1>5, <1>6, <1>7 DEF Moved
<1> QED BY <1>3, <1>8 DEF g

(* A new file gets a new inode.                                            *)
LEMMA MovedNew ==
  ASSUME DiffInv, NEW c, Ready(c), c.kind # "D", ~(IsDir(New, c.path) /\ IsDir(s.t, c.path))
  PROVE  LET n == New[c.path]
             u == createTarFile(RemoveAll(s.t, c.path), c.path, Header(c.path, n.kind, Root, Packed(n)),
                                <<s.count + 1>>, job.opts)
         IN  Moved(u, c) /\ u # NoTree
<1> DEFINE p == c.path
           n == New[p]
           m == Packed(n)
           i == <<s.count + 1>>
           x == [m EXCEPT !.ino = i]
           g == RemoveAll(s.t, p)
           u == createTarFile(g, p, Header(p, n.kind, Root, m), i, job.opts)
<1>1. StateOK /\ c \in AllChanges /\ job \in Diffs /\ s.count \in Nat
  BY ReadyPath DEF DiffInv, StateOK
<1>2. /\ n \in NodeType /\ m \in NodeType /\ m.kind = n.kind /\ (n.kind = "symlink" => m.to # Outside)
      /\ m.mode = n.mode /\ m.uid = n.uid /\ m.data = n.data /\ m.cap = n.cap /\ m.to = n.to
      /\ m.time = Rounded(n.time)
  BY <1>1, ChangedNode, PackedType
<1>3. i \in Seq(Nat)
  BY <1>1
<1> HIDE DEF n, m, i
<1>4. x \in NodeType /\ x.ino = i /\ Made(x, n)
  BY <1>2, <1>3 DEF NodeType, Made
<1>5. p \notin DOMAIN g
  BY Cleared
<1>6. u = Put(g, p, x)
  <2>1. createTarFile(g, p, Header(p, m.kind, Root, m), i, job.opts) = Put(g, p, [m EXCEPT !.ino = i])
    BY <1>1, <1>2, <1>5, CreatedNew
  <2> QED BY <1>2, <2>1
<1> HIDE DEF u, x
<1>7. Moved(u, c) /\ Places(u, g, p, x)
  BY <1>4, <1>6, MovedIn DEF i, n
<1>8. u # NoTree
  BY <1>7 DEF Places
<1> QED BY <1>7, <1>8 DEF u, n, m, i

(* A link to a file that was written before gets its inode.  The chown of  *)
(* all the names of the inode changes nothing: they have one owner, and no *)
(* special bits.                                                           *)
LEMMA MovedLink ==
  ASSUME DiffInv, NEW c, Ready(c), c.kind # "D", ~IsDir(New, c.path),
         New[c.path].ino \in DOMAIN ta.seen, NEW i
  PROVE  LET n == New[c.path]
             u == createTarFile(RemoveAll(s.t, c.path), c.path,
                                Header(c.path, "link", ta.seen[n.ino], Packed(n)), i, job.opts)
         IN  Moved(u, c) /\ u # NoTree /\ PlainPath(ta.seen[n.ino])
<1> DEFINE p == c.path
           n == New[p]
           m == Packed(n)
           o == ta.seen[n.ino]
           g == RemoveAll(s.t, p)
           x == g[o]
           l == Put(g, p, x)
           u == createTarFile(g, p, Header(p, "link", o, m), i, job.opts)
<1>1. StateOK /\ TreeOK /\ LinksOK /\ c \in AllChanges /\ job \in Diffs /\ Typed(s.t)
  BY ReadyPath DEF DiffInv, StateOK
<1>2. /\ n \in NodeType /\ m \in NodeType /\ n.kind # "dir" /\ p \in DOMAIN New
      /\ m.uid = n.uid /\ m.mode = n.mode /\ m.cap = n.cap
  BY <1>1, ChangedNode, PackedType
<1> DEFINE k == [m EXCEPT !.ino = i]
<1>2a. k.uid = n.uid /\ k.mode = n.mode /\ k.cap = n.cap
  BY <1>2 DEF NodeType
<1> HIDE DEF k, m
<1>3. Written(o) /\ ~IsDir(New, o) /\ New[o].ino = n.ino
  BY <1>1, Zenon DEF LinksOK
<1> HIDE DEF o
<1>4. /\ o \in DOMAIN New /\ PlainPath(o) /\ ~Left(o) /\ o \in Path /\ New[o].kind # "dir"
  BY <1>1, <1>3, WrittenPath DEF IsDir
<1>5. New[o] = n
  BY <1>1, <1>2, <1>3, <1>4, JobIsDiff DEF OnDisk
<1>5a. Unprivileged(n.mode) = n.mode
  <2>1. o # p
    BY <1>2, <1>3, <1>4, ReadyIsFirst, PrefixOrder
  <2>2. \A a, b \in DOMAIN New : a # b /\ New[a].kind # "dir" /\ New[b].kind # "dir" /\ New[a].ino = New[b].ino =>
          Unprivileged(New[a].mode) = New[a].mode
    BY <1>1, JobIsDiff DEF Comparable
  <2> QED BY <1>2, <1>3, <1>4, <2>1, <2>2
<1>6. o \in DOMAIN s.t
  BY <1>1, <1>3, <1>4 DEF TreeOK
<1>7. Made(s.t[o], n) /\ s.t[o].kind # "dir" /\ s.t[o] \in NodeType
  BY <1>1, <1>3, <1>4, <1>5, <1>6, InTree
<1>8. /\ DOMAIN g = {r \in DOMAIN s.t : ~IsPrefix(p, r)} /\ p \notin DOMAIN g /\ Typed(g)
      /\ \A q \in DOMAIN g : Kept(g[q], s.t[q])
  BY Cleared
<1> HIDE DEF g, n
<1>9. o \in DOMAIN g /\ x = s.t[o]
  <2>1. ~IsPrefix(p, o)
    BY <1>3, <1>4, ReadyIsFirst
  <2> QED BY <1>6, <1>7, <1>8, <2>1 DEF Kept
<1> HIDE DEF x
<1>10. Moved(l, c) /\ Places(l, g, p, x)
  <2>1. New[p] = n
    BY DEF n
  <2>2. \E r \in DOMAIN s.t : Written(r) /\ ~IsDir(New, r) /\ New[r] = New[p] /\ x.ino = s.t[r].ino
    BY <1>3, <1>5, <1>6, <1>9, <2>1
  <2>3. Made(x, New[p]) /\ x \in NodeType
    BY <1>7, <1>9, <2>1
  <2> QED BY <2>2, <2>3, MovedIn DEF g
<1>11. l # NoTree /\ l[p] = x /\ p \in DOMAIN l
  BY <1>10 DEF Places
<1> DEFINE v == Owned(l, p, k, o, job.opts)
<1>12. u = v
  <2>1. ~IsDir(g, o)
    BY <1>7, <1>9 DEF IsDir, x
  <2>2. Put(g, p, g[o]) # NoTree
    BY <1>11 DEF x
  <2>3. createTarFile(g, p, Header(p, "link", o, m), i, job.opts)
            = Owned(Put(g, p, g[o]), p, k, o, job.opts)
    <3>1. k = [m EXCEPT !.ino = i]
      BY DEF k
    <3> QED BY <1>1, <1>2, <1>4, <1>9, <2>1, <2>2, <3>1, CreatedLink
  <2> QED BY <2>3 DEF x
<1> HIDE DEF l, u
<1>13. ASSUME NEW r \in Links(l, p) PROVE LinkedNode(l[r], k, o, job.opts) = l[r]
  <2>1. r \in DOMAIN l /\ l[r].kind # "dir" /\ l[r].ino = x.ino /\ l[r] \in NodeType
    BY <1>10, <1>11 DEF Links, Moved, Typed
  <2>2. CASE r = p
    <3>1. l[r].uid = n.uid /\ l[r].mode = n.mode /\ l[r].cap = n.cap
      BY <1>7, <1>9, <1>11, <2>2 DEF Made
    <3> QED BY <1>1, <1>2a, <1>5a, <2>1, <3>1, LinkedSame
  <2>3. CASE r # p
    <3>1. r \in DOMAIN s.t /\ Kept(l[r], s.t[r])
      BY <1>10, <2>1, <2>3 DEF Moved
    <3>2. l[r] = s.t[r] /\ s.t[r].ino = s.t[o].ino /\ s.t[r].kind # "dir"
      BY <1>1, <1>9, <2>1, <3>1, KeptNode DEF Kept, Typed
    <3>3. PICK z \in 1 .. s.count : s.t[o].ino = <<z>>
      BY <1>1, <1>3, <1>6 DEF LinksOK
    <3>4. ~Left(r)
      <4>1. Left(r) => Len(s.t[r].ino) = 2
        BY <1>1, <3>1, InTree, LeftPath, StaysSame
      <4> QED BY <3>2, <3>3, <4>1
    <3>5. Written(r) /\ Made(s.t[r], New[r]) /\ New[r].kind # "dir"
      BY <1>1, <3>1, <3>2, <3>4, InTree
    <3>6. New[r] = n
      <4>1. \A a, b \in DOMAIN s.t :
              Written(a) /\ Written(b) /\ ~IsDir(New, a) /\ ~IsDir(New, b) /\ s.t[a].ino = s.t[b].ino =>
                New[a] = New[b]
        BY <1>1, Zenon DEF LinksOK
      <4> QED BY <1>3, <1>5, <1>6, <3>1, <3>2, <3>5, <4>1 DEF IsDir
    <3>7. l[r].uid = n.uid /\ l[r].mode = n.mode /\ l[r].cap = n.cap
      BY <3>2, <3>5, <3>6 DEF Made
    <3> QED BY <1>1, <1>2a, <1>5a, <2>1, <3>7, LinkedSame
  <2> QED BY <2>2, <2>3
<1>14. v = l
  <2>1. \A r \in DOMAIN l :
          (IF r \in Links(l, p) THEN LinkedNode(l[r], k, o, job.opts) ELSE l[r]) = l[r]
    BY <1>13
  <2>2. l = [r \in DOMAIN l |-> l[r]]
    <3>1. IsDir(g, Dir(p))
      BY Cleared DEF g
    <3>2. l = [q \in DOMAIN g \cup {p} |-> IF q = p THEN x ELSE Touch(g, Dir(p))[q]]
      BY <3>1 DEF l, Put
    <3> QED BY <3>2
  <2> QED BY <2>1, <2>2 DEF Owned
<1> QED BY <1>4, <1>10, <1>11, <1>12, <1>14 DEF u, g, m, n, o

(* What unpacking the header of c leaves.                                  *)
Unpacked(x, c) ==
  /\ Unpacker(x) /\ Moved(x.t, c)
  /\ x.count = IF c.kind = "D" THEN s.count ELSE s.count + 1
  /\ c.kind = "D" \/ ~IsDir(New, c.path) => x.dirs = s.dirs
  /\ c.kind # "D" /\ IsDir(New, c.path) =>
       x.dirs = Append(s.dirs, Header(c.path, "dir", Root, Packed(New[c.path])))

LEMMA StepKeeps ==
  ASSUME DiffInv, NEW c, Ready(c), todo' = todo \ {c}, job' = job, outcome' = "run", Unpacked(s', c),
         ta' = [out |-> ta'.out, seen |-> ta'.seen, broken |-> FALSE],
         \A i \in DOMAIN ta'.seen :
           \/ i \in DOMAIN ta.seen /\ ta'.seen[i] = ta.seen[i]
           \/ c.kind # "D" /\ ~IsDir(New, c.path) /\ i = New[c.path].ino /\ ta'.seen[i] = c.path
  PROVE  DiffInv'
<1> DEFINE p == c.path
<1>1. StateOK /\ s.count \in Nat /\ Typed(s.t)
  BY DEF DiffInv, StateOK
<1>2. s'.count \in Nat /\ s'.count >= s.count /\ (c.kind # "D" => s'.count = s.count + 1)
  BY <1>1 DEF Unpacked
<1>3. StateOK'
  <2>1. Unpacker(s') /\ Typed(s'.t)
    BY DEF Unpacked, Moved
  <2> QED BY <1>1, <1>2, <2>1 DEF StateOK, Unpacker, Typed
<1>4. OrderOK'
  BY NextOrder
<1>5. /\ \A q : q \in DOMAIN s'.t <=>
           \/ /\ q \in DOMAIN s.t /\ q # p
              /\ IsPrefix(p, q) => c.kind # "D" /\ IsDir(New, p)
           \/ q = p /\ c.kind # "D"
      /\ \A q \in DOMAIN s'.t \ {p} : Kept(s'.t[q], s.t[q])
      /\ c.kind # "D" => Made(s'.t[p], New[p])
      /\ c.kind # "D" /\ ~IsDir(New, p) =>
           \/ s'.t[p].ino = <<s.count + 1>>
           \/ \E r \in DOMAIN s.t : /\ Written(r) /\ ~IsDir(New, r) /\ New[r] = New[p]
                                    /\ s'.t[p].ino = s.t[r].ino
  BY DEF Unpacked, Moved
<1>6. TreeOK'
  BY <1>5, NextTree
<1>7. \A q \in DOMAIN s'.t \ {p} : q \in DOMAIN s.t /\ s'.t[q].ino = s.t[q].ino
  BY <1>1, <1>5, KeptNode DEF Typed
<1>8. c.kind # "D" /\ ~IsDir(New, p) =>
        \/ s'.count = s.count + 1 /\ s'.t[p].ino = <<s'.count>>
        \/ \E r \in DOMAIN s.t : /\ Written(r) /\ ~IsDir(New, r) /\ New[r] = New[p]
                                 /\ s'.t[p].ino = s.t[r].ino
  BY <1>2, <1>5
<1>9. LinksOK'
  BY <1>1, <1>2, <1>7, <1>8, NextLinks
<1>10. TimesOK'
  <2>1. /\ c.kind = "D" \/ ~IsDir(New, p) => s'.dirs = s.dirs
        /\ c.kind # "D" /\ IsDir(New, p) =>
             s'.dirs = Append(s.dirs, Header(p, "dir", Root, Packed(New[p])))
    BY DEF Unpacked
  <2> QED BY <1>7, <2>1, NextDirs
<1> QED BY <1>3, <1>4, <1>6, <1>9, <1>10 DEF DiffInv

Whited(b, a, p) ==
  /\ b = [out |-> b.out, seen |-> b.seen, broken |-> FALSE] /\ b.seen = a.seen
  /\ b.out # <<>>
  /\ b.out[1] = Header(Whiteout(p), "file", Root, Node("file", 0, 0, 0, Now, <<>>))

LEMMA ExportedWhiteout ==
  ASSUME NEW a, a = [out |-> a.out, seen |-> a.seen, broken |-> FALSE], NEW c, c.kind = "D", NEW t, NEW opts
  PROVE  Whited(ExportChange(a, t, c, opts), a, c.path)
<1> DEFINE b == ExportChange(a, t, c, opts)
           h == Header(Whiteout(c.path), "file", Root, Node("file", 0, 0, 0, Now, <<>>))
           e == [a EXCEPT !.out = <<>>]
           x == a.out
           y == a.seen
           f == <<>>
           g == <<h>>
           d == [e EXCEPT !.out = g]
<1>1. a = [out |-> x, seen |-> y, broken |-> FALSE]
  OBVIOUS
<1>2. e = [a EXCEPT !.out = f] /\ g # <<>> /\ g[1] = h
  OBVIOUS
<1>a. d = [e EXCEPT !.out = g]
  OBVIOUS
<1>3. b = IF e.broken THEN e ELSE d
  BY Zenon DEF ExportChange
<1> HIDE DEF x, y, f, g, e, b, d
<1>4. e = [out |-> f, seen |-> y, broken |-> FALSE]
  BY <1>1, <1>2
<1>b. e.broken = FALSE
  BY <1>4
<1>5. d = [out |-> g, seen |-> y, broken |-> FALSE]
  BY <1>a, <1>4
<1>6. b = d
  BY <1>3, <1>b
<1>7. b = [out |-> b.out, seen |-> b.seen, broken |-> FALSE] /\ b.seen = y /\ b.out = g
  BY <1>5, <1>6
<1>8. Whited(b, a, c.path)
  BY <1>2, <1>7 DEF Whited, y, h
<1> QED BY <1>8 DEF b

(* A header of a tree that can be made is extracted.                       *)
LEMMA ExtractedMoves ==
  ASSUME DiffInv, NEW c, Ready(c), c.kind # "D", NEW t, NEW type, NEW link,
         NEW u, u # NoTree, Moved(u, c),
         u = createTarFile(t, c.path, Header(c.path, type, link, Packed(New[c.path])), <<s.count + 1>>, job.opts),
         type = "dir" <=> IsDir(New, c.path), type = "dir" => link = Root
  PROVE  Unpacked(Extract(s, t, c.path, Header(c.path, type, link, Packed(New[c.path])), job.opts), c)
<1> DEFINE p == c.path
           h == Header(p, type, link, Packed(New[p]))
           x == Extract(s, t, p, h, job.opts)
           d == IF type = "dir" THEN Append(s.dirs, h) ELSE s.dirs
           k == s.count + 1
           y == s.unpacked \cup {p}
           z == s.plnk
           e == ""
<1>1. Unpacker(s)
  BY DEF DiffInv, StateOK, Unpacker
<1>2. x = [t |-> u, dirs |-> d, unpacked |-> y, plnk |-> z, err |-> e, count |-> k]
  <2>1. Extracts(x, s, u, p, h)
    BY <1>1, ExtractedFile
  <2>2. d = IF h.type = "dir" THEN Append(s.dirs, h) ELSE s.dirs
    BY DEF Header
  <2> HIDE DEF x, h, d
  <2> QED BY <2>1, <2>2 DEF Extracts
<1> HIDE DEF x, y, z, e, k, d
<1>3. /\ x.t = u /\ x.dirs = d /\ x.count = k
      /\ x = [t |-> x.t, dirs |-> x.dirs, unpacked |-> x.unpacked, plnk |-> x.plnk, err |-> e, count |-> x.count]
  BY <1>2
<1>4. Unpacker(x)
  BY <1>3 DEF Unpacker, e
<1>5. /\ ~IsDir(New, p) => d = s.dirs
      /\ IsDir(New, p) => d = Append(s.dirs, Header(p, "dir", Root, Packed(New[p])))
  BY DEF d
<1>6. Unpacked(x, c)
  BY <1>3, <1>4, <1>5 DEF Unpacked, k
<1> QED BY <1>6 DEF x

---------------------------------------------------------------------------
(* The steps                                                               *)

LEMMA RemovedUnpacked ==
  ASSUME DiffInv, NEW c, Ready(c), c.kind = "D", NEW n
  PROVE  Unpacked(UnpackLayerEntry(s, Header(Whiteout(c.path), "file", Root, n), job.opts), c)
<1> DEFINE x == UnpackLayerEntry(s, Header(Whiteout(c.path), "file", Root, n), job.opts)
           g == RemoveAll(s.t, c.path)
           x1 == s.t
           x2 == s.dirs
           x3 == s.unpacked
           x4 == s.plnk
           x5 == ""
           x6 == s.count
<1>1. Unpacker(s) /\ job \in Diffs
  BY DEF DiffInv, StateOK, Unpacker
<1>2. PlainPath(c.path) /\ IsDir(s.t, Dir(c.path))
  BY ReadyPath
<1>3. x = [s EXCEPT !.t = g]
  BY <1>1, <1>2, UnpackedWhiteout
<1>4. Moved(g, c)
  BY MovedAway
<1>5. s = [t |-> x1, dirs |-> x2, unpacked |-> x3, plnk |-> x4, err |-> x5, count |-> x6]
  BY <1>1 DEF Unpacker
<1> HIDE DEF x, g, x1, x2, x3, x4, x5, x6
<1>6. x = [t |-> g, dirs |-> x2, unpacked |-> x3, plnk |-> x4, err |-> x5, count |-> x6]
  BY <1>3, <1>5
<1>7. /\ x.t = g /\ x.dirs = x2 /\ x.count = x6
      /\ x = [t |-> x.t, dirs |-> x.dirs, unpacked |-> x.unpacked, plnk |-> x.plnk, err |-> x5, count |-> x.count]
  BY <1>6
<1>8. Unpacked(x, c)
  BY <1>4, <1>7 DEF Unpacked, Unpacker, x2, x5, x6
<1> QED BY <1>8 DEF x

LEMMA MadeUnpacked ==
  ASSUME DiffInv, NEW c, Ready(c), c.kind # "D", NEW h, IsHeaderOf(h, ta, c.path, New[c.path])
  PROVE  Unpacked(UnpackLayerEntry(s, h, job.opts), c)
<1> DEFINE p == c.path
           n == New[p]
           g == RemoveAll(s.t, p)
<1>1. Unpacker(s) /\ job \in Diffs /\ PlainPath(p) /\ IsDir(s.t, Dir(p)) /\ c \in AllChanges /\ StateOK
  BY ReadyPath DEF DiffInv, StateOK, Unpacker
<1>2. /\ n \in NodeType /\ Packed(n) \in NodeType /\ (IsDir(New, p) <=> n.kind = "dir")
  BY <1>1, ChangedNode
<1>3. ASSUME NEW type, NEW link, link = Root \/ PlainPath(link), h = Header(p, type, link, Packed(n))
      PROVE  UnpackLayerEntry(s, h, job.opts)
               = Extract(s, IF IsDir(s.t, p) /\ type = "dir" THEN s.t ELSE g, p,
                         Header(p, type, link, Packed(n)), job.opts)
  BY <1>1, <1>2, <1>3, UnpackedPlain
<1>4. CASE h = Header(p, n.kind, Root, Packed(n)) /\ IsDir(New, p) /\ IsDir(s.t, p)
  <2>1. UnpackLayerEntry(s, h, job.opts)
          = Extract(s, s.t, p, Header(p, n.kind, Root, Packed(n)), job.opts)
    BY <1>2, <1>3, <1>4
  <2>2. PICK u : /\ u = createTarFile(s.t, p, Header(p, n.kind, Root, Packed(n)), <<s.count + 1>>, job.opts)
                 /\ Moved(u, c) /\ u # NoTree
    BY <1>2, <1>4, MovedDir
  <2> QED BY <1>2, <2>1, <2>2, ExtractedMoves
<1>5. CASE h = Header(p, n.kind, Root, Packed(n)) /\ ~(IsDir(New, p) /\ IsDir(s.t, p))
  <2>1. UnpackLayerEntry(s, h, job.opts)
          = Extract(s, g, p, Header(p, n.kind, Root, Packed(n)), job.opts)
    BY <1>2, <1>3, <1>5
  <2>2. PICK u : /\ u = createTarFile(g, p, Header(p, n.kind, Root, Packed(n)), <<s.count + 1>>, job.opts)
                 /\ Moved(u, c) /\ u # NoTree
    BY <1>5, MovedNew
  <2> QED BY <1>2, <2>1, <2>2, ExtractedMoves
<1>6. CASE n.kind # "dir" /\ n.ino \in DOMAIN ta.seen /\ h = Header(p, "link", ta.seen[n.ino], Packed(n))
  <2>1. PICK u : /\ u = createTarFile(g, p, Header(p, "link", ta.seen[n.ino], Packed(n)),
                                      <<s.count + 1>>, job.opts)
                 /\ Moved(u, c) /\ u # NoTree /\ PlainPath(ta.seen[n.ino])
    BY <1>2, <1>6, MovedLink
  <2>2. UnpackLayerEntry(s, h, job.opts)
          = Extract(s, g, p, Header(p, "link", ta.seen[n.ino], Packed(n)), job.opts)
    BY <1>3, <1>6, <2>1
  <2> QED BY <1>2, <1>6, <2>1, <2>2, ExtractedMoves
<1> QED BY <1>4, <1>5, <1>6 DEF IsHeaderOf

LEMMA ChangeStep ==
  ASSUME DiffInv, NextChange
  PROVE  DiffInv'
<1>1. /\ outcome = "run" /\ job' = job
      /\ s' = IF ta'.out = <<>> THEN s ELSE UnpackLayerEntry(s, ta'.out[1], job.opts)
      /\ outcome' = IF s'.err = "" THEN "run" ELSE s'.err
  BY DEF NextChange
<1>2. PICK c \in todo : /\ \A d \in todo : ~Before(job.opts.order, d.path, c.path)
                        /\ todo' = todo \ {c}
                        /\ ta' = ExportChange(ta, job.new, c, job.opts)
  BY DEF NextChange
<1>3. Ready(c)
  BY <1>2 DEF Ready, Before
<1>4. StateOK /\ job \in Diffs /\ ta = [out |-> ta.out, seen |-> ta.seen, broken |-> FALSE] /\ c \in AllChanges
  BY <1>3, ReadyPath DEF DiffInv, StateOK
<1>5. ASSUME Unpacked(s', c) PROVE outcome' = "run"
  <2>1. s'.err = ""
    <3> DEFINE x1 == s'.t
               x2 == s'.dirs
               x3 == s'.unpacked
               x4 == s'.plnk
               x5 == ""
               x6 == s'.count
    <3>1. s' = [t |-> x1, dirs |-> x2, unpacked |-> x3, plnk |-> x4, err |-> x5, count |-> x6]
      BY <1>5 DEF Unpacked, Unpacker
    <3> HIDE DEF x1, x2, x3, x4, x5, x6
    <3>2. s'.err = x5
      BY <3>1
    <3> QED BY <3>2 DEF x5
  <2> QED BY <1>1, <2>1
<1>6. CASE c.kind = "D"
  <2>1. /\ ta' = [out |-> ta'.out, seen |-> ta'.seen, broken |-> FALSE] /\ ta'.seen = ta.seen
        /\ ta'.out # <<>>
        /\ ta'.out[1] = Header(Whiteout(c.path), "file", Root, Node("file", 0, 0, 0, Now, <<>>))
    <3>1. Whited(ta', ta, c.path)
      BY <1>2, <1>4, <1>6, ExportedWhiteout
    <3> QED BY <3>1 DEF Whited
  <2>2. Unpacked(s', c)
    BY <1>1, <1>3, <1>6, <2>1, RemovedUnpacked
  <2>3. \A i \in DOMAIN ta'.seen : i \in DOMAIN ta.seen /\ ta'.seen[i] = ta.seen[i]
    BY <2>1
  <2> QED BY <1>1, <1>2, <1>3, <1>5, <2>1, <2>2, <2>3, StepKeeps
<1>7. CASE c.kind # "D"
  <2>1. c.path \in DOMAIN New /\ (IsDir(New, c.path) <=> New[c.path].kind = "dir")
    BY <1>4, <1>7, ChangedNode
  <2>2. /\ ta' = [out |-> ta'.out, seen |-> ta'.seen, broken |-> FALSE]
        /\ ta'.out # <<>> /\ IsHeaderOf(ta'.out[1], ta, c.path, New[c.path])
        /\ \A i \in DOMAIN ta'.seen :
             \/ i \in DOMAIN ta.seen /\ ta'.seen[i] = ta.seen[i]
             \/ New[c.path].kind # "dir" /\ i = New[c.path].ino /\ ta'.seen[i] = c.path
    BY <1>2, <1>4, <1>7, <2>1, Exported DEF New
  <2>3. Unpacked(s', c)
    BY <1>1, <1>3, <1>7, <2>2, MadeUnpacked
  <2>4. \A i \in DOMAIN ta'.seen :
          \/ i \in DOMAIN ta.seen /\ ta'.seen[i] = ta.seen[i]
          \/ c.kind # "D" /\ ~IsDir(New, c.path) /\ i = New[c.path].ino /\ ta'.seen[i] = c.path
    BY <1>7, <2>1, <2>2
  <2>5. ta' = [out |-> ta'.out, seen |-> ta'.seen, broken |-> FALSE]
    BY <2>2
  <2> QED BY <1>1, <1>2, <1>3, <1>5, <2>3, <2>4, <2>5, StepKeeps
<1> QED BY <1>6, <1>7

LEMMA SamePaths ==
  ASSUME UNCHANGED <<job, todo>>
  PROVE  /\ Old' = Old /\ New' = New /\ AllChanges' = AllChanges /\ Taken' = Taken
         /\ \A q : (Written(q)' <=> Written(q)) /\ (Left(q)' <=> Left(q))
<1>1. Old' = Old /\ New' = New
  BY DEF Old, New
<1>2. AllChanges' = AllChanges
  BY <1>1 DEF AllChanges
<1>3. Taken' = Taken
  BY <1>2 DEF Taken
<1> QED BY <1>1, <1>2, <1>3 DEF Written, Left

LEMMA TimeStep ==
  ASSUME DiffInv, NextTime
  PROVE  DiffInv'
<1> DEFINE T == [name : Path, type : {"dir"}, link : Path, node : NodeType]
           D == s.dirs
           h == D[1]
           b == h.name
           v == h.node.time
           u == [s.t EXCEPT ![b].time = v]
           d == Tail(D)
<1>1. /\ outcome = "run" /\ todo = {} /\ D # <<>> /\ s' = SetTime(s)
      /\ outcome' = IF s'.err = "" THEN "run" ELSE s'.err
      /\ UNCHANGED <<job, todo, ta>>
  BY DEF NextTime
<1>2. /\ Old' = Old /\ New' = New /\ AllChanges' = AllChanges /\ Taken' = Taken
      /\ \A q : (Written(q)' <=> Written(q)) /\ (Left(q)' <=> Left(q))
  BY <1>1, SamePaths
<1>3. /\ StateOK /\ OrderOK /\ TreeOK /\ LinksOK /\ Unpacker(s) /\ Typed(s.t) /\ s.count \in Nat /\ job \in Diffs
      /\ ta = [out |-> ta.out, seen |-> ta.seen, broken |-> FALSE]
  BY DEF DiffInv, StateOK, Unpacker
<1>4. /\ D \in Seq(T)
      /\ \A i \in 1 .. Len(D) :
           Written(D[i].name) /\ IsDir(New, D[i].name) /\ D[i].node.time = Rounded(New[D[i].name].time)
      /\ \A q \in DOMAIN s.t : Written(q) /\ IsDir(New, q) =>
           (\E i \in 1 .. Len(D) : D[i].name = q) \/ s.t[q].time = Rounded(New[q].time)
  BY DEF DiffInv, TimesOK
<1>5. /\ Head(D) = h /\ h \in T /\ 1 \in 1 .. Len(D) /\ d \in Seq(T) /\ Len(d) = Len(D) - 1
      /\ Len(D) \in Nat /\ \A i \in 1 .. Len(d) : d[i] = D[i + 1]
  <2>1. D \in Seq(T) /\ D # <<>>
    BY <1>1, <1>4
  <2> HIDE DEF D, T
  <2>2. Head(D) = D[1] /\ Len(D) \in Nat /\ 1 \in 1 .. Len(D) /\ D[1] \in T
    BY <2>1
  <2>3. Tail(D) \in Seq(T) /\ Len(Tail(D)) = Len(D) - 1 /\ \A i \in 1 .. Len(D) - 1 : Tail(D)[i] = D[i + 1]
    BY <2>1, <2>2
  <2> QED BY <2>2, <2>3
<1> HIDE DEF D, h, d, T
<1>6. /\ Written(b) /\ IsDir(New, b) /\ v = Rounded(New[b].time) /\ v \in Nat
  BY <1>4, <1>5 DEF h, T, NodeType
<1> HIDE DEF b, v
<1>7. b \in DOMAIN s.t /\ s.t[b].kind = "dir" /\ s.t[b] \in NodeType
  <2>1. b \in DOMAIN s.t
    BY <1>3, <1>6 DEF TreeOK, IsDir
  <2> QED BY <1>3, <1>6, <2>1, InTree DEF IsDir
<1>8. s' = [s EXCEPT !.t[b].time = v, !.dirs = d]
  BY <1>1, <1>5, <1>7 DEF SetTime, b, v, h, d, D
<1>9. /\ DOMAIN u = DOMAIN s.t /\ u[b] = [s.t[b] EXCEPT !.time = v]
      /\ \A q \in DOMAIN s.t \ {b} : u[q] = s.t[q]
  BY <1>7
<1>10. Unpacker(s') /\ s'.err = "" /\ s'.t = u /\ s'.dirs = d /\ s'.count = s.count
  <2> DEFINE x1 == s.t
             x2 == s.dirs
             x3 == s.unpacked
             x4 == s.plnk
             x5 == ""
             x6 == s.count
  <2>1. s = [t |-> x1, dirs |-> x2, unpacked |-> x3, plnk |-> x4, err |-> x5, count |-> x6]
    BY <1>3 DEF Unpacker
  <2>2. s' = [s EXCEPT !.t = u, !.dirs = d]
    BY <1>8
  <2> HIDE DEF u, x1, x2, x3, x4, x5, x6
  <2>3. s' = [t |-> u, dirs |-> d, unpacked |-> x3, plnk |-> x4, err |-> x5, count |-> x6]
    BY <2>1, <2>2
  <2>4. /\ s'.t = u /\ s'.dirs = d /\ s'.count = x6 /\ s'.err = x5
        /\ s' = [t |-> s'.t, dirs |-> s'.dirs, unpacked |-> s'.unpacked, plnk |-> s'.plnk, err |-> x5,
                 count |-> s'.count]
    BY <2>3
  <2> QED BY <2>4 DEF Unpacker, x5, x6
<1> HIDE DEF u
<1>11. \A q \in DOMAIN s.t : Kept(u[q], s.t[q]) /\ u[q] \in NodeType /\ u[q].ino = s.t[q].ino
  <2>1. u[b].time = v /\ Kept(u[b], s.t[b])
    BY <1>6, <1>7, <1>9 DEF Kept, NodeType
  <2>2. \A q \in DOMAIN s.t : Kept(u[q], s.t[q])
    BY <1>3, <1>9, <2>1, SameIsKept DEF Typed
  <2> QED BY <1>3, <2>2, KeptNode DEF Typed
<1>12. outcome' = "run"
  BY <1>1, <1>10
<1>13. StateOK'
  <2>1. Typed(s'.t)
    BY <1>9, <1>10, <1>11 DEF Typed
  <2> QED BY <1>1, <1>3, <1>10, <1>12, <2>1 DEF StateOK, Unpacker, Typed
<1>14. OrderOK'
  BY <1>1, <1>2, <1>3 DEF OrderOK
<1>15. TreeOK'
  <2>1. DOMAIN s'.t = {q \in DOMAIN Old \cup DOMAIN New : Left(q) \/ Written(q)}
    BY <1>3, <1>9, <1>10 DEF TreeOK
  <2>2. \A q \in DOMAIN s'.t : /\ Left(q) => Stays(s'.t[q], Old[q])
                               /\ Written(q) => Made(s'.t[q], New[q])
    <3>1. SUFFICES ASSUME NEW q \in DOMAIN s.t
                   PROVE  /\ Left(q) => Stays(u[q], Old[q])
                          /\ Written(q) => Made(u[q], New[q])
      BY <1>9, <1>10
    <3>2. s.t[q] \in NodeType /\ Kept(u[q], s.t[q])
      BY <1>3, <1>11 DEF Typed
    <3>3. Left(q) => Stays(s.t[q], Old[q]) /\ Old[q] \in NodeType
      BY <1>3, LeftPath DEF TreeOK
    <3>4. Written(q) => Made(s.t[q], New[q]) /\ New[q] \in NodeType
      BY <1>3, WrittenPath DEF TreeOK
    <3> QED BY <3>2, <3>3, <3>4, KeptNode
  <2> QED BY <1>2, <2>1, <2>2 DEF TreeOK
<1>16. LinksOK'
  <2>1. \A q \in DOMAIN s'.t : q \in DOMAIN s.t /\ s'.t[q].ino = s.t[q].ino
    BY <1>9, <1>10, <1>11
  <2>2. (\A q \in DOMAIN s.t : Written(q) /\ ~IsDir(New, q) => \E k \in 1 .. s.count : s.t[q].ino = <<k>>)'
    <3>1. \A q \in DOMAIN s.t : Written(q) /\ ~IsDir(New, q) => \E k \in 1 .. s.count : s.t[q].ino = <<k>>
      BY <1>3, Zenon DEF LinksOK
    <3> QED BY <1>2, <1>10, <2>1, <3>1
  <2>3. (\A q, r \in DOMAIN s.t :
           Written(q) /\ Written(r) /\ ~IsDir(New, q) /\ ~IsDir(New, r) /\ s.t[q].ino = s.t[r].ino =>
             New[q] = New[r])'
    <3>1. \A q, r \in DOMAIN s.t :
            Written(q) /\ Written(r) /\ ~IsDir(New, q) /\ ~IsDir(New, r) /\ s.t[q].ino = s.t[r].ino =>
              New[q] = New[r]
      BY <1>3, Zenon DEF LinksOK
    <3> QED BY <1>2, <2>1, <3>1
  <2>4. (\A i \in DOMAIN ta.seen :
           Written(ta.seen[i]) /\ ~IsDir(New, ta.seen[i]) /\ New[ta.seen[i]].ino = i)'
    <3>1. \A i \in DOMAIN ta.seen :
            Written(ta.seen[i]) /\ ~IsDir(New, ta.seen[i]) /\ New[ta.seen[i]].ino = i
      BY <1>3, Zenon DEF LinksOK
    <3> QED BY <1>1, <1>2, <3>1 DEF Written
  <2> QED BY <2>2, <2>3, <2>4, Zenon DEF LinksOK
<1>17. TimesOK'
  <2>1. (s.dirs \in Seq([name : Path, type : {"dir"}, link : Path, node : NodeType]))'
    BY <1>5, <1>10 DEF T
  <2>2. (\A i \in 1 .. Len(s.dirs) : LET x == s.dirs[i] IN
           Written(x.name) /\ IsDir(New, x.name) /\ x.node.time = Rounded(New[x.name].time))'
    <3>1. ASSUME NEW i \in 1 .. Len(d)
          PROVE  Written(d[i].name) /\ IsDir(New, d[i].name) /\ d[i].node.time = Rounded(New[d[i].name].time)
      <4>1. i + 1 \in 1 .. Len(D) /\ d[i] = D[i + 1]
        BY <1>5
      <4> QED BY <1>4, <4>1
    <3> QED BY <1>2, <1>10, <3>1 DEF Written
  <2>3. (\A q \in DOMAIN s.t : Written(q) /\ IsDir(New, q) =>
           \/ \E i \in 1 .. Len(s.dirs) : s.dirs[i].name = q
           \/ todo = {} /\ s.t[q].time = Rounded(New[q].time))'
    <3>1. ASSUME NEW q \in DOMAIN s.t, Written(q), IsDir(New, q)
          PROVE  (\E i \in 1 .. Len(d) : d[i].name = q) \/ u[q].time = Rounded(New[q].time)
      <4>1. CASE q = b
        BY <1>6, <1>7, <1>9, <4>1 DEF NodeType
      <4>2. CASE q # b
        <5>1. CASE \E i \in 1 .. Len(D) : D[i].name = q
          <6>1. PICK i \in 1 .. Len(D) : D[i].name = q
            BY <5>1
          <6>2. i # 1
            BY <4>2, <6>1 DEF b, h
          <6>3. i - 1 \in 1 .. Len(d) /\ d[i - 1] = D[i]
            BY <1>5, <6>2
          <6> QED BY <6>1, <6>3
        <5>2. CASE s.t[q].time = Rounded(New[q].time)
          BY <1>9, <4>2, <5>2
        <5> QED BY <1>4, <3>1, <5>1, <5>2
      <4> QED BY <4>1, <4>2
    <3> QED BY <1>1, <1>2, <1>9, <1>10, <3>1
  <2>4. outcome' # "ok"
    BY <1>12
  <2> QED BY <2>1, <2>2, <2>3, <2>4, Zenon DEF TimesOK
<1> QED BY <1>13, <1>14, <1>15, <1>16, <1>17 DEF DiffInv

LEMMA UnchangedStep ==
  ASSUME DiffInv, UNCHANGED <<job, todo, ta, s>>,
         outcome' \in {"run", "ok"}, outcome' = "ok" => todo = {} /\ s.dirs = <<>>
  PROVE  DiffInv'
<1>1. /\ Old' = Old /\ New' = New /\ AllChanges' = AllChanges /\ Taken' = Taken
      /\ \A q : (Written(q)' <=> Written(q)) /\ (Left(q)' <=> Left(q))
  BY SamePaths
<1>2. StateOK /\ OrderOK /\ TreeOK /\ LinksOK /\ TimesOK
  BY DEF DiffInv
<1>3. StateOK'
  BY <1>2 DEF StateOK
<1>4. OrderOK'
  BY <1>1, <1>2 DEF OrderOK
<1>5. TreeOK'
  BY <1>1, <1>2 DEF TreeOK
<1>6. LinksOK'
  BY <1>1, <1>2 DEF LinksOK, Written
<1>7. TimesOK'
  BY <1>1, <1>2 DEF TimesOK, Written
<1> QED BY <1>3, <1>4, <1>5, <1>6, <1>7 DEF DiffInv

LEMMA DiffStarts ==
  ASSUME InitDiff
  PROVE  DiffInv
<1> DEFINE z == ""
<1>1. job \in Diffs /\ Comparable(Old, New) /\ OnDisk(Old)
  BY DiffOptions DEF InitDiff, Old, New, Comparable
<1>2. todo = AllChanges
  BY <1>1, PrunedChanges DEF InitDiff, AllChanges, Old, New
<1>3. Taken = {}
  BY <1>2 DEF Taken
<1>4. \A q : ~Written(q) /\ (Left(q) <=> q \in DOMAIN Old)
  BY <1>3 DEF Written, Left
<1>5. /\ s = [t |-> Old, dirs |-> <<>>, unpacked |-> {}, plnk |-> [n \in {} |-> 0], err |-> z, count |-> 0]
      /\ ta = [out |-> <<>>, seen |-> [i \in {} |-> Root], broken |-> FALSE]
      /\ outcome = "run"
  BY DEF InitDiff, StartUnpack, NewTarAppender, Old
<1>6. \A q \in DOMAIN Old : Old[q] \in NodeType
  BY <1>1, DiskPaths
<1> HIDE DEF z
<1>7. /\ s.t = Old /\ s.dirs = <<>> /\ s.count = 0
      /\ s = [t |-> s.t, dirs |-> s.dirs, unpacked |-> s.unpacked, plnk |-> s.plnk, err |-> z, count |-> s.count]
  BY <1>5
<1>8. /\ ta = [out |-> ta.out, seen |-> ta.seen, broken |-> FALSE] /\ DOMAIN ta.seen = {}
  <2> DEFINE f == [i \in {} |-> Root]
             x == <<>>
  <2>1. ta = [out |-> x, seen |-> f, broken |-> FALSE] /\ DOMAIN f = {}
    BY <1>5
  <2> HIDE DEF f, x
  <2> QED BY <2>1
<1>9. StateOK
  BY <1>1, <1>5, <1>6, <1>7, <1>8 DEF StateOK, Typed, z
<1>10. OrderOK
  BY <1>2, <1>3 DEF OrderOK
<1>11. TreeOK
  <2>1. \A q \in DOMAIN Old : Stays(Old[q], Old[q])
    BY <1>6 DEF Stays, NodeType
  <2> QED BY <1>4, <1>7, <2>1 DEF TreeOK
<1>12. LinksOK
  BY <1>4, <1>8 DEF LinksOK
<1>13. TimesOK
  <2>1. s.dirs \in Seq([name : Path, type : {"dir"}, link : Path, node : NodeType]) /\ Len(s.dirs) = 0
    BY <1>7
  <2> QED BY <1>4, <1>5, <2>1 DEF TimesOK
<1> QED BY <1>9, <1>10, <1>11, <1>12, <1>13 DEF DiffInv

(* The invariant of carrying a difference: the tree is the old one, with   *)
(* the changes that were exported in it, each path as the new directory    *)
(* has it, and every directory written waits for its time or has it.       *)
(* (ExportChanges, UnpackLayer)                                            *)
THEOREM DiffInvariant == SpecDiff => []DiffInv
<1>1. InitDiff => DiffInv
  BY DiffStarts
<1>2. DiffInv /\ [NextDiff]_diffVars => DiffInv'
  <2>1. SUFFICES ASSUME DiffInv, [NextDiff]_diffVars PROVE DiffInv'
    OBVIOUS
  <2>2. CASE NextChange
    BY <2>1, <2>2, ChangeStep
  <2>3. CASE NextTime
    BY <2>1, <2>3, TimeStep
  <2>4. CASE Done
    BY <2>1, <2>4, UnchangedStep DEF Done
  <2>5. CASE UNCHANGED diffVars
    <3>1. outcome' \in {"run", "ok"} /\ (outcome' = "ok" => todo = {} /\ s.dirs = <<>>)
      BY <2>1, <2>5 DEF diffVars, DiffInv, StateOK, TimesOK
    <3> QED BY <2>1, <2>5, <3>1, UnchangedStep DEF diffVars
  <2> QED BY <2>1, <2>2, <2>3, <2>4, <2>5 DEF NextDiff
<1> QED BY <1>1, <1>2, PTL DEF SpecDiff

---------------------------------------------------------------------------
(* The end: the new directory                                              *)

LEMMA RoundedTime ==
  ASSUME NEW time \in Nat
  PROVE  SameTime(Rounded(time), time)
<1> DEFINE k == (time + 2) \div 4
<1>1. k \in Nat
  OBVIOUS
<1> HIDE DEF k
<1>2. (k * 4 + 2) \div 4 = k
  BY <1>1
<1> QED BY <1>2 DEF SameTime, Rounded, Sec, k

(* A path that no change names and no change above takes away.             *)
LEMMA Untouched ==
  ASSUME StateOK, NEW q \in DOMAIN Old, q \in DOMAIN New, \A c \in AllChanges : c.path # q
  PROVE  \A c \in AllChanges : IsPrefix(c.path, q) => c.path # q /\ c.kind # "D" /\ IsDir(New, c.path)
<1>1. OnDisk(New) /\ q \in Path
  BY JobIsDiff, DiskPaths
<1>2. SUFFICES ASSUME NEW c \in AllChanges, IsPrefix(c.path, q)
               PROVE  c.path # q /\ c.kind # "D" /\ IsDir(New, c.path)
  OBVIOUS
<1>3. c.path \in Path /\ c.path # q
  BY <1>2, Listed
<1>4. Below(c.path, q)
  BY <1>1, <1>2, <1>3, BelowOrder
<1>5. IsDir(New, c.path)
  BY <1>1, <1>3, <1>4, AboveIsDir
<1>6. c.kind # "D"
  BY <1>2, <1>5, Listed DEF IsDir
<1> QED BY <1>3, <1>5, <1>6

LEMMA AllCarried ==
  ASSUME DiffInv, todo = {}
  PROVE  DOMAIN s.t = DOMAIN New
<1>1. StateOK /\ TreeOK /\ Taken = AllChanges /\ Comparable(Old, New)
  BY JobIsDiff DEF DiffInv, Taken
<1>2. ASSUME NEW q \in DOMAIN s.t PROVE q \in DOMAIN New
  <2>1. CASE Written(q)
    BY <1>1, <2>1, WrittenPath
  <2>2. CASE Left(q)
    <3>1. SUFFICES ASSUME q \notin DOMAIN New PROVE FALSE
      OBVIOUS
    <3>2. \E c \in AllChanges : IsPrefix(c.path, q) /\ (c.kind = "D" \/ ~IsDir(New, c.path))
      BY <1>1, <2>2, <3>1, GoneIsListed DEF AllChanges, Left
    <3> QED BY <1>1, <2>2, <3>2 DEF Left
  <2> QED BY <1>1, <2>1, <2>2, InTree
<1>3. ASSUME NEW q \in DOMAIN New PROVE q \in DOMAIN s.t
  <2>1. CASE \E c \in AllChanges : c.path = q
    <3>1. Written(q)
      BY <1>1, <1>3, <2>1, Listed DEF Written
    <3> QED BY <1>1, <3>1 DEF TreeOK
  <2>2. CASE ~\E c \in AllChanges : c.path = q
    <3>1. q \in DOMAIN Old
      BY <2>2, AddedIsListed DEF AllChanges
    <3>2. Left(q)
      BY <1>1, <2>2, <3>1, Untouched DEF Left
    <3> QED BY <1>1, <3>1, <3>2 DEF TreeOK
  <2> QED BY <2>1, <2>2
<1> QED BY <1>2, <1>3

(* A directory with other names in it than before is listed.               *)
LEMMA DirIsListed ==
  ASSUME StateOK, NEW q \in Path, q # Root, IsDir(Old, q), IsDir(New, q), Inside(Old, q) # Inside(New, q)
  PROVE  \E c \in AllChanges : c.path = q
<1>1. Comparable(Old, New) /\ OnDisk(Old) /\ OnDisk(New)
  BY JobIsDiff
<1>2. PICK r : /\ Below(q, r)
               /\ (r \in DOMAIN Old /\ r \notin DOMAIN New) \/ (r \in DOMAIN New /\ r \notin DOMAIN Old)
  BY DEF Inside
<1>3. r \in Path
  BY <1>1, <1>2, DiskPaths
<1>4. PICK c \in AllChanges : IsPrefix(c.path, r) /\ (c.kind = "D" \/ c.path = r \/ ~IsDir(New, c.path))
  <2>1. CASE r \in DOMAIN Old /\ r \notin DOMAIN New
    <3>1. \E c \in addChanges(New, Old) : IsPrefix(c.path, r) /\ (c.kind = "D" \/ ~IsDir(New, c.path))
      BY <1>1, <2>1, GoneIsListed
    <3> QED BY <3>1 DEF AllChanges
  <2>2. CASE r \in DOMAIN New /\ r \notin DOMAIN Old
    BY <1>3, <2>2, AddedIsListed, PrefixOrder DEF AllChanges
  <2> QED BY <1>2, <2>1, <2>2
<1>5. c.path \in Path /\ (c.kind # "D" <=> c.path \in DOMAIN New)
  BY Listed
<1>6. IsPrefix(q, c.path) \/ IsPrefix(c.path, q)
  BY <1>2, <1>3, <1>4, <1>5, PrefixOrder DEF Below, IsStrictPrefix
<1>7. CASE c.path = q
  BY <1>7
<1>8. CASE Below(q, c.path)
  BY <1>8, AboveListed
<1>9. CASE Below(c.path, q)
  <2>1. IsDir(New, c.path) /\ IsDir(Old, c.path)
    BY <1>1, <1>5, <1>9, AboveIsDir DEF IsDir
  <2>2. c.path = r
    BY <1>4, <1>5, <2>1 DEF IsDir
  <2>3. ~Below(c.path, q)
    BY <1>2, <1>3, <2>2, BelowOrder DEF Below, IsStrictPrefix
  <2> QED BY <1>9, <2>3
<1> QED BY <1>5, <1>6, <1>7, <1>8, <1>9, BelowOrder

(* A node of the unpacked tree.                                            *)
LEMMA NodeCarried ==
  ASSUME DiffInv, todo = {}, s.dirs = <<>>, ~Hidden(Old, New), NEW q \in DOMAIN New, q # Root,
         NEW times \in BOOLEAN,
         times => (s.t[q].kind # "dir" \/ (IsDir(Old, q) => Inside(Old, q) # Inside(New, q)))
  PROVE  SameNode(s.t[q], New[q], times)
<1> DEFINE x == s.t[q]
           n == New[q]
           o == Old[q]
<1>1. /\ StateOK /\ TreeOK /\ TimesOK /\ Taken = AllChanges /\ Comparable(Old, New) /\ OnDisk(New)
      /\ q \in DOMAIN s.t /\ n \in NodeType /\ q \in Path
  BY AllCarried, JobIsDiff, DiskPaths DEF DiffInv, Taken
<1>2. CASE Written(q)
  <2>1. Made(x, n)
    BY <1>1, <1>2 DEF TreeOK
  <2>2. n.time \in Nat
    BY <1>1 DEF NodeType
  <2>3. x.time = Rounded(n.time)
    <3>1. CASE n.kind # "dir"
      BY <2>1, <3>1 DEF Made
    <3>2. CASE n.kind = "dir"
      <4>1. IsDir(New, q)
        BY <3>2 DEF IsDir
      <4>2. (\E i \in 1 .. Len(s.dirs) : s.dirs[i].name = q) \/ s.t[q].time = Rounded(New[q].time)
        BY <1>1, <1>2, <4>1 DEF TimesOK
      <4>3. Len(s.dirs) = 0
        OBVIOUS
      <4> QED BY <4>2, <4>3
    <3> QED BY <3>1, <3>2
  <2>4. SameTime(x.time, n.time)
    BY <2>2, <2>3, RoundedTime
  <2> QED BY <2>1, <2>4 DEF Made, SameNode
<1>3. CASE Left(q)
  <2>1. Stays(x, o) /\ q \in DOMAIN Old /\ o \in NodeType
    BY <1>1, <1>3, LeftPath DEF TreeOK
  <2>2. /\ x.kind = o.kind /\ x.mode = o.mode /\ x.uid = o.uid /\ x.data = o.data /\ x.cap = o.cap
        /\ x.to = o.to /\ (o.kind # "dir" => x.time = o.time)
    BY <2>1, StaysSame DEF Stays
  <2>3. \A c \in AllChanges : c.path # q
    BY <1>1, <1>3, PrefixOrder DEF Left
  <2>4. ~statDifferent(o, n) /\ o.cap = n.cap
    BY <1>1, <2>1, <2>3, UnlistedIsSame DEF AllChanges
  <2>5. /\ o.kind = n.kind /\ o.mode = n.mode /\ o.uid = n.uid
        /\ o.kind # "dir" => sameFsTime(o.time, n.time)
    BY <2>4 DEF statDifferent
  <2>6. o.data = n.data /\ o.to = n.to
    <3>1. CASE o.ino = n.ino
      <4>1. SameInode(New, Old, q)
        BY <2>1, <3>1 DEF SameInode
      <4>2. o = n
        BY <1>1, <2>1, <4>1, PrefixOrder DEF Comparable
      <4> QED BY <4>2
    <3>2. CASE o.ino # n.ino
      BY <2>1, <2>4, <3>2 DEF Hidden
    <3> QED BY <3>1, <3>2
  <2>7. times => SameTime(x.time, n.time)
    <3>1. CASE o.kind # "dir"
      BY <2>2, <2>5, <3>1 DEF SameTime
    <3>2. CASE o.kind = "dir"
      <4>1. IsDir(Old, q) /\ IsDir(New, q)
        BY <2>1, <2>5, <3>2 DEF IsDir
      <4>2. Inside(Old, q) = Inside(New, q)
        BY <1>1, <2>3, <4>1, DirIsListed
      <4> QED BY <2>2, <3>2, <4>1, <4>2
    <3> QED BY <3>1, <3>2
  <2> QED BY <2>2, <2>4, <2>5, <2>6, <2>7 DEF SameNode
<1> QED BY <1>1, <1>2, <1>3, InTree

LEMMA DiffEnds ==
  ASSUME DiffInv
  PROVE  Regained
<1> DEFINE dirs == {p \in DOMAIN job.new : IsDir(job.old, p) => Inside(job.old, p) # Inside(job.new, p)}
<1>1. SUFFICES ASSUME outcome # "run", ~Hidden(job.old, job.new)
               PROVE  outcome = "ok" /\ SameTree(s.t, job.new, dirs)
  BY DEF Regained
<1>2. outcome = "ok" /\ todo = {} /\ s.dirs = <<>> /\ ~Hidden(Old, New)
  BY <1>1 DEF DiffInv, StateOK, TimesOK, Old, New
<1>3. DOMAIN s.t = DOMAIN New
  BY <1>2, AllCarried
<1>4. ASSUME NEW q \in DOMAIN New \ {Root}
      PROVE  SameNode(s.t[q], New[q], s.t[q].kind # "dir" \/ q \in dirs)
  <2> DEFINE times == s.t[q].kind # "dir" \/ q \in dirs
  <2>1. times \in BOOLEAN /\ (times => s.t[q].kind # "dir" \/ (IsDir(Old, q) => Inside(Old, q) # Inside(New, q)))
    BY DEF Old, New
  <2> HIDE DEF times
  <2>2. SameNode(s.t[q], New[q], times)
    BY <1>2, <2>1, NodeCarried
  <2> QED BY <2>2 DEF times
<1> QED BY <1>2, <1>3, <1>4 DEF SameTree, New

(* Whatever the two directories are, the layer made from their difference  *)
(* turns the old one into the new one, with the times of all the files and *)
(* of the directories whose entries changed.  (ChangesDirs, ExportChanges, *)
(* UnpackLayer)                                                            *)
THEOREM LayerCarriesDifference == SpecDiff => []Regained
<1>1. DiffInv => Regained
  BY DiffEnds
<1> QED BY <1>1, DiffInvariant, PTL

(* No step of it fails: what a header needs to be there is there, and is   *)
(* what it has to be.  (UnpackLayer, createTarFile)                        *)
THEOREM LayerNeverFails == SpecDiff => [](outcome \in {"run", "ok"})
<1>1. DiffInv => outcome \in {"run", "ok"}
  BY DEF DiffInv, StateOK
<1> QED BY <1>1, DiffInvariant, PTL

(* The walk that skips what is one file in both directories finds the same *)
(* changes as a comparison of all that is in them.  (walker.walk)          *)
THEOREM PruningLosesNothing == \A j \in Diffs : ChangesDirs(j.new, j.old) = addChanges(j.new, j.old)
BY DiffOptions, PrunedChanges
=============================================================================

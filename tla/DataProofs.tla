----------------------------- MODULE DataProofs -----------------------------
(***************************************************************************)
(* Proofs about the functions on data of any length: the two orders of     *)
(* versions (Versions) are orders, as Api's FitsDaemon takes for granted   *)
(* when it compares a version with those at which the API changed; and the *)
(* two directions of an id mapping (IdMaps) undo each other, whatever its  *)
(* ranges, when no host id is in two of them.                              *)
(***************************************************************************)
EXTENDS Versions, IdMaps, WellFoundedInduction, TLAPS

---------------------------------------------------------------------------
(* A set of naturals that is not empty has a least element: what "the      *)
(* first entry" of the loops over slices rests on.                         *)
Before == {p \in Nat \X Nat : p[1] < p[2]}

LEMMA BeforeWF == IsWellFoundedOn(Before, Nat)
  BY NatLessThanWellFounded DEF OpToRel, Before

LEMMA BeforeDef == \A j, k \in Nat : j < k => <<j, k>> \in Before
  BY DEF Before

(* A set of places that is not empty has a first one.                      *)
LEMMA Least ==
  ASSUME NEW S, S \subseteq Nat, S # {}
  PROVE  \E m \in S : \A k \in S : m <= k
<1>1. PICK m \in S : \A k \in S : <<k, m>> \notin Before
  BY BeforeWF, WFMin, Zenon
<1>2. ASSUME NEW k \in S PROVE m <= k
  <2>1. m \in Nat /\ k \in Nat BY <1>2
  <2>2. ~(k < m) BY <1>1, <2>1, BeforeDef
  <2> QED BY <2>1, <2>2
<1> QED BY <1>2

---------------------------------------------------------------------------
(* Versions                                                                *)

APIVersion == Seq(Int)

(* Two versions that differ somewhere differ first at one place.           *)
LEMMA FirstDifference ==
  ASSUME NEW v \in APIVersion, NEW w \in APIVersion,
         NEW i \in 1 .. Len(v), i \in 1 .. Len(w), v[i] # w[i]
  PROVE  \E k \in 1 .. Len(v) : Differ(v, w, k)
<1> DEFINE S == {j \in 1 .. Len(v) : j \in 1 .. Len(w) /\ v[j] # w[j]}
<1>1. S \subseteq Nat /\ S # {}
  BY DEF APIVersion
<1>2. PICK m \in S : \A k \in S : m <= k
  BY <1>1, Least
<1>3. \A j \in 1 .. m - 1 : v[j] = w[j]
  <2> TAKE j \in 1 .. m - 1
  <2>1. j \in 1 .. Len(v) /\ j \in 1 .. Len(w) /\ ~(m <= j)
    BY <1>2 DEF APIVersion
  <2> QED BY <1>2, <2>1
<1> QED BY <1>2, <1>3 DEF Differ

LEMMA NoDifference ==
  ASSUME NEW v \in APIVersion, NEW w \in APIVersion,
         \A k \in 1 .. Len(v) : ~Differ(v, w, k)
  PROVE  \A i \in 1 .. Len(v) : i <= Len(w) => v[i] = w[i]
<1> TAKE i \in 1 .. Len(v)
<1> SUFFICES ASSUME i <= Len(w), v[i] # w[i] PROVE FALSE
  OBVIOUS
<1>1. i \in 1 .. Len(w)
  BY DEF APIVersion
<1> QED BY <1>1, FirstDifference

LEMMA Irreflexive ==
  ASSUME NEW v \in APIVersion
  PROVE  ~LessThan(v, v)
BY DEF LessThan, Differ, APIVersion

(* LessThan, by the two ways in which one version is less: it is less where*)
(* they differ first, or it is a proper prefix.                            *)
Agree(v, w, n) == \A k \in Nat : 1 <= k /\ k <= n => v[k] = w[k]
LessAt(v, w, i) == i <= Len(v) /\ i <= Len(w) /\ v[i] < w[i] /\ Agree(v, w, i - 1)
PrefixOf(v, w)  == Len(v) < Len(w) /\ Agree(v, w, Len(v))

LEMMA LessByPlace ==
  ASSUME NEW v \in APIVersion, NEW w \in APIVersion, NEW i \in Nat \ {0}, LessAt(v, w, i)
  PROVE  LessThan(v, w)
<1>1. i \in 1 .. Len(v) /\ i \in 1 .. Len(w)
  BY DEF LessAt, APIVersion
<1>2. v[i] \in Int /\ w[i] \in Int
  BY <1>1 DEF APIVersion
<1>3. v[i] < w[i] /\ v[i] # w[i]
  BY <1>2 DEF LessAt
<1>4. \A k \in 1 .. i - 1 : v[k] = w[k]
  BY DEF LessAt, Agree
<1>5. Differ(v, w, i)
  BY <1>1, <1>3, <1>4 DEF Differ
<1> QED BY <1>1, <1>3, <1>5 DEF LessThan

LEMMA LessByPrefix ==
  ASSUME NEW v \in APIVersion, NEW w \in APIVersion, PrefixOf(v, w)
  PROVE  LessThan(v, w)
<1>1. \A i \in 1 .. Len(v) : v[i] = w[i]
  BY DEF PrefixOf, Agree, APIVersion
<1>2. \A i \in 1 .. Len(v) : ~Differ(v, w, i)
  BY <1>1 DEF Differ
<1> QED BY <1>2 DEF LessThan, PrefixOf

LEMMA LessCases ==
  ASSUME NEW v \in APIVersion, NEW w \in APIVersion, LessThan(v, w)
  PROVE  PrefixOf(v, w) \/ \E i \in Nat \ {0} : LessAt(v, w, i)
<1>1. CASE \E i \in 1 .. Len(v) : Differ(v, w, i) /\ v[i] < w[i]
  <2>1. PICK i \in 1 .. Len(v) : Differ(v, w, i) /\ v[i] < w[i]
    BY <1>1
  <2>2. i \in Nat \ {0} /\ i <= Len(v) /\ i <= Len(w)
    BY <2>1 DEF Differ, APIVersion
  <2>3. \A k \in 1 .. i - 1 : v[k] = w[k]
    BY <2>1 DEF Differ
  <2>4. Agree(v, w, i - 1)
    BY <2>2, <2>3 DEF Agree
  <2> QED BY <2>1, <2>2, <2>4 DEF LessAt
<1>2. CASE (\A i \in 1 .. Len(v) : ~Differ(v, w, i)) /\ Len(v) < Len(w)
  <2>1. \A i \in 1 .. Len(v) : i <= Len(w) => v[i] = w[i]
    BY <1>2, NoDifference
  <2>2. ASSUME NEW k \in Nat, 1 <= k, k <= Len(v) PROVE v[k] = w[k]
    <3>1. k \in 1 .. Len(v) /\ k <= Len(w)
      BY <1>2, <2>2 DEF APIVersion
    <3> QED BY <2>1, <3>1
  <2>3. Agree(v, w, Len(v))
    BY <2>2 DEF Agree
  <2> QED BY <1>2, <2>3 DEF PrefixOf
<1> QED BY <1>1, <1>2 DEF LessThan

LEMMA Transitive ==
  ASSUME NEW u \in APIVersion, NEW v \in APIVersion, NEW w \in APIVersion,
         LessThan(u, v), LessThan(v, w)
  PROVE  LessThan(u, w)
<1>1. Len(u) \in Nat /\ Len(v) \in Nat /\ Len(w) \in Nat
  BY DEF APIVersion
<1>2. \A x \in APIVersion : \A i \in Nat \ {0} : i <= Len(x) => x[i] \in Int
  BY DEF APIVersion
<1>3. \A m, n \in Int : Agree(u, v, m) /\ Agree(v, w, n) =>
        \A l \in Int : l <= m /\ l <= n => Agree(u, w, l)
  BY DEF Agree
<1>4. ASSUME NEW i \in Nat \ {0}, LessAt(u, v, i), NEW j \in Nat \ {0}, LessAt(v, w, j)
      PROVE  LessThan(u, w)
  <2>0. u[i] \in Int /\ v[i] \in Int /\ v[j] \in Int /\ w[j] \in Int
    BY <1>2, <1>4 DEF LessAt
  <2>1. CASE i < j
    <3>1. v[i] = w[i] /\ i <= Len(w)
      BY <1>1, <1>4, <2>1 DEF LessAt, Agree
    <3>2. Agree(u, w, i - 1)
      BY <1>3, <1>4, <2>1 DEF LessAt
    <3>3. LessAt(u, w, i)
      BY <1>4, <3>1, <3>2 DEF LessAt
    <3> QED BY <3>3, LessByPlace
  <2>2. CASE i = j
    <3>1. u[i] < w[i]
      BY <1>4, <2>0, <2>2 DEF LessAt
    <3>2. Agree(u, w, i - 1)
      BY <1>3, <1>4, <2>2 DEF LessAt
    <3>3. LessAt(u, w, i)
      BY <1>4, <2>2, <3>1, <3>2 DEF LessAt
    <3> QED BY <3>3, LessByPlace
  <2>3. CASE j < i
    <3>1. u[j] = v[j] /\ j <= Len(u)
      BY <1>1, <1>4, <2>3 DEF LessAt, Agree
    <3>2. Agree(u, w, j - 1)
      BY <1>3, <1>4, <2>3 DEF LessAt
    <3>3. LessAt(u, w, j)
      BY <1>4, <3>1, <3>2 DEF LessAt
    <3> QED BY <3>3, LessByPlace
  <2> QED BY <2>1, <2>2, <2>3
<1>5. ASSUME NEW i \in Nat \ {0}, LessAt(u, v, i), PrefixOf(v, w)
      PROVE  LessThan(u, w)
  <2>1. v[i] = w[i] /\ i <= Len(w)
    BY <1>1, <1>5 DEF LessAt, PrefixOf, Agree
  <2>2. Agree(u, w, i - 1)
    BY <1>1, <1>3, <1>5 DEF LessAt, PrefixOf
  <2>3. LessAt(u, w, i)
    BY <1>5, <2>1, <2>2 DEF LessAt
  <2> QED BY <2>3, LessByPlace
<1>6. ASSUME PrefixOf(u, v), NEW j \in Nat \ {0}, LessAt(v, w, j)
      PROVE  LessThan(u, w)
  <2>1. CASE j <= Len(u)
    <3>1. u[j] = v[j]
      BY <1>1, <1>6, <2>1 DEF PrefixOf, Agree
    <3>2. Agree(u, w, j - 1)
      BY <1>1, <1>3, <1>6, <2>1 DEF LessAt, PrefixOf
    <3>3. LessAt(u, w, j)
      BY <1>6, <2>1, <3>1, <3>2 DEF LessAt
    <3> QED BY <3>3, LessByPlace
  <2>2. CASE Len(u) < j
    <3>1. Agree(u, w, Len(u))
      BY <1>1, <1>3, <1>6, <2>2 DEF LessAt, PrefixOf
    <3>2. PrefixOf(u, w)
      BY <1>1, <1>6, <2>2, <3>1 DEF LessAt, PrefixOf
    <3> QED BY <3>2, LessByPrefix
  <2> QED BY <1>1, <2>1, <2>2
<1>7. ASSUME PrefixOf(u, v), PrefixOf(v, w) PROVE LessThan(u, w)
  <2>1. Agree(u, w, Len(u)) /\ Len(u) < Len(w)
    BY <1>1, <1>3, <1>7 DEF PrefixOf
  <2> QED BY <2>1, LessByPrefix DEF PrefixOf
<1>8. PrefixOf(u, v) \/ \E i \in Nat \ {0} : LessAt(u, v, i)
  BY LessCases
<1>9. PrefixOf(v, w) \/ \E j \in Nat \ {0} : LessAt(v, w, j)
  BY LessCases
<1> QED BY <1>4, <1>5, <1>6, <1>7, <1>8, <1>9

LEMMA Total ==
  ASSUME NEW v \in APIVersion, NEW w \in APIVersion, ~LessThan(v, w), ~LessThan(w, v)
  PROVE  v = w
<1> USE DEF APIVersion
<1>1. \A i \in 1 .. Len(v) : ~Differ(v, w, i)
  <2> SUFFICES ASSUME NEW i \in 1 .. Len(v), Differ(v, w, i) PROVE FALSE
    OBVIOUS
  <2>1. v[i] \in Int /\ w[i] \in Int /\ v[i] # w[i] /\ i \in 1 .. Len(w) BY DEF Differ
  <2>2. CASE v[i] < w[i] BY <2>2 DEF LessThan
  <2>3. CASE w[i] < v[i]
    <3>1. Differ(w, v, i) BY <2>1 DEF Differ
    <3> QED BY <2>1, <2>3, <3>1 DEF LessThan
  <2> QED BY <2>1, <2>2, <2>3
<1>2. \A i \in 1 .. Len(w) : ~Differ(w, v, i)
  BY <1>1 DEF Differ
<1>3. Len(v) = Len(w)
  BY <1>1, <1>2 DEF LessThan
<1>4. \A i \in 1 .. Len(v) : v[i] = w[i]
  BY <1>1, <1>3, NoDifference
<1> QED BY <1>3, <1>4

(* APIVersion.LessThan is a strict total order of the versions, so that    *)
(* the four methods agree with each other: exactly one of "less", "equal"  *)
(* and "greater" holds of any two versions.  (client.go 103-141)           *)
THEOREM VersionsAreOrdered ==
  \A u, v, w \in APIVersion :
    /\ ~LessThan(v, v)
    /\ LessThan(u, v) /\ LessThan(v, w) => LessThan(u, w)
    /\ v = w \/ LessThan(v, w) \/ GreaterThan(v, w)
    /\ LessThanOrEqualTo(v, w) <=> v = w \/ LessThan(v, w)
<1> TAKE u, v, w \in APIVersion
<1>1. ~LessThan(v, v) /\ ~LessThan(w, w) BY Irreflexive
<1>2. LessThan(u, v) /\ LessThan(v, w) => LessThan(u, w) BY Transitive
<1>3. v = w \/ LessThan(v, w) \/ LessThan(w, v) BY Total
<1>4. ~(LessThan(v, w) /\ LessThan(w, v)) BY <1>1, Transitive
<1> QED BY <1>1, <1>2, <1>3, <1>4 DEF GreaterThan, LessThanOrEqualTo

-----------------------------------------------------------------------------
(* types/versions *)

Longer(v, w) == IF Len(v) < Len(w) THEN Len(w) ELSE Len(v)

LEMMA PartType ==
  ASSUME NEW v \in APIVersion, NEW i \in Nat \ {0}
  PROVE  Part(v, i) \in Int /\ (i > Len(v) => Part(v, i) = 0)
BY DEF Part, APIVersion

LEMMA FirstPart ==
  ASSUME NEW v \in APIVersion, NEW w \in APIVersion, NEW i \in Nat \ {0}, Part(v, i) # Part(w, i)
  PROVE  PaddedLess(v, w) \/ PaddedLess(w, v)
<1> DEFINE S == {j \in Nat \ {0} : Part(v, j) # Part(w, j)}
<1>1. S \subseteq Nat /\ S # {} OBVIOUS
<1>2. PICK m \in S : \A k \in S : m <= k BY <1>1, Least
<1>3. \A j \in 1 .. m - 1 : Part(v, j) = Part(w, j)
  <2> TAKE j \in 1 .. m - 1
  <2>1. j \in Nat \ {0} /\ ~(m <= j) BY <1>2
  <2> QED BY <1>2, <2>1
<1>4. m \in Nat \ {0} /\ Part(v, m) \in Int /\ Part(w, m) \in Int /\ Part(v, m) # Part(w, m)
  BY <1>2, PartType
<1>5. m <= Len(v) \/ m <= Len(w)
  BY <1>4 DEF Part, APIVersion
<1>6. m \in 1 .. Longer(v, w) /\ m \in 1 .. Longer(w, v)
  BY <1>4, <1>5 DEF Longer, APIVersion
<1> HIDE DEF S
<1>7. CASE Part(v, m) < Part(w, m)
  BY <1>3, <1>6, <1>7 DEF PaddedLess, Longer
<1>8. CASE Part(w, m) < Part(v, m)
  BY <1>3, <1>6, <1>8 DEF PaddedLess, Longer
<1> QED BY <1>4, <1>7, <1>8

(* versions.Equal means that all parts are equal, missing ones being 0, and*)
(* LessThan is a strict order of the versions that are not equal: "1.12"   *)
(* and "1.12.0" are equal there, while the first is less as an APIVersion. *)
(* (compare.go 13-65, client.go 122-141)                                   *)
THEOREM PaddedVersionsAreOrdered ==
  \A u, v, w \in APIVersion :
    /\ ~PaddedLess(v, v)
    /\ PaddedLess(u, v) /\ PaddedLess(v, w) => PaddedLess(u, w)
    /\ PaddedEqual(v, w) <=> \A i \in Nat \ {0} : Part(v, i) = Part(w, i)
    /\ PaddedEqual(v, Append(v, 0)) /\ LessThan(v, Append(v, 0))
<1> TAKE u, v, w \in APIVersion
<1>1. \A x, y \in APIVersion : PaddedLess(x, y) => \E i \in 1 .. Longer(x, y) : Part(x, i) < Part(y, i)
  BY DEF PaddedLess, Longer
<1>2. \A x \in APIVersion : \A i \in Nat \ {0} : Part(x, i) \in Int
  BY PartType
<1>3. ~PaddedLess(v, v)
  BY <1>1, <1>2 DEF Longer, APIVersion
<1>4. ASSUME PaddedLess(u, v), PaddedLess(v, w) PROVE PaddedLess(u, w)
  <2>1. PICK i \in 1 .. Longer(u, v) : Part(u, i) < Part(v, i) /\ \A k \in 1 .. i - 1 : Part(u, k) = Part(v, k)
    BY <1>4 DEF PaddedLess, Longer
  <2>2. PICK j \in 1 .. Longer(v, w) : Part(v, j) < Part(w, j) /\ \A k \in 1 .. j - 1 : Part(v, k) = Part(w, k)
    BY <1>4 DEF PaddedLess, Longer
  <2> DEFINE m == IF i <= j THEN i ELSE j
  <2>3. i \in Nat \ {0} /\ j \in Nat \ {0} /\ m \in Nat \ {0} /\ m <= i /\ m <= j
    BY DEF Longer, APIVersion
  <2>4. Part(u, m) < Part(w, m)
    <3>1. CASE i < j BY <2>1, <2>2, <2>3, <3>1, <1>2
    <3>2. CASE i = j BY <2>1, <2>2, <2>3, <3>2, <1>2
    <3>3. CASE j < i BY <2>1, <2>2, <2>3, <3>3, <1>2
    <3> QED BY <2>3, <3>1, <3>2, <3>3
  <2>5. \A k \in 1 .. m - 1 : Part(u, k) = Part(w, k)
    BY <2>1, <2>2, <2>3
  <2>6. m \in 1 .. Longer(u, w)
    <3> HIDE DEF m
    <3>1. m <= Len(u) \/ m <= Len(w)
      BY <2>3, <2>4, <1>2 DEF Part, APIVersion
    <3> QED BY <2>3, <3>1 DEF Longer, APIVersion
  <2> HIDE DEF m
  <2> QED BY <2>4, <2>5, <2>6 DEF PaddedLess, Longer
<1>5. PaddedEqual(v, w) <=> \A i \in Nat \ {0} : Part(v, i) = Part(w, i)
  <2>1. ASSUME PaddedEqual(v, w), NEW i \in Nat \ {0} PROVE Part(v, i) = Part(w, i)
    BY <2>1, FirstPart DEF PaddedEqual
  <2>2. ASSUME \A i \in Nat \ {0} : Part(v, i) = Part(w, i) PROVE PaddedEqual(v, w)
    <3>1. \A i \in 1 .. Longer(v, w) : i \in Nat \ {0} BY DEF Longer, APIVersion
    <3>2. \A i \in 1 .. Longer(w, v) : i \in Nat \ {0} BY DEF Longer, APIVersion
    <3> QED BY <1>1, <1>2, <2>2, <3>1, <3>2 DEF PaddedEqual
  <2> QED BY <2>1, <2>2
<1>6. PaddedEqual(v, Append(v, 0))
  <2> DEFINE a == Append(v, 0)
  <2>1. a \in APIVersion /\ Len(a) = Len(v) + 1 /\ a[Len(v) + 1] = 0 /\ \A i \in 1 .. Len(v) : a[i] = v[i]
    BY DEF APIVersion
  <2> HIDE DEF a
  <2>2. \A i \in Nat \ {0} : Part(v, i) = Part(a, i)
    BY <2>1 DEF Part, APIVersion
  <2>3. ~PaddedLess(v, a) /\ ~PaddedLess(a, v)
    <3>1. \A i \in 1 .. Longer(v, a) : i \in Nat \ {0} BY <2>1 DEF Longer, APIVersion
    <3>2. \A i \in 1 .. Longer(a, v) : i \in Nat \ {0} BY <2>1 DEF Longer, APIVersion
    <3> QED BY <1>1, <1>2, <2>1, <2>2, <3>1, <3>2
  <2> QED BY <2>3 DEF PaddedEqual, a
<1>7. LessThan(v, Append(v, 0))
  BY DEF LessThan, Differ, APIVersion
<1> QED BY <1>3, <1>4, <1>5, <1>6, <1>7

---------------------------------------------------------------------------
(* Id mappings                                                             *)

Entry   == [containerID : Nat, hostID : Nat, size : Nat]
HostDisjoint(m) ==
  \A i, j \in 1 .. Len(m) : \A id \in Int : HasHost(m[i], id) /\ HasHost(m[j], id) => i = j
InContainer(m, id) == \E i \in 1 .. Len(m) : HasContainer(m[i], id)

(* The entry that the loop of toHost stops at.                             *)
FirstContainer(m, id, i) ==
  HasContainer(m[i], id) /\ \A j \in 1 .. i - 1 : ~HasContainer(m[j], id)

LEMMA ToHostEntry ==
  ASSUME NEW m \in Seq(Entry), NEW id \in Nat, InContainer(m, id)
  PROVE  \E i \in 1 .. Len(m) :
           HasContainer(m[i], id) /\ toHost(id, m) = m[i].hostID + (id - m[i].containerID)
<1> DEFINE S == {i \in 1 .. Len(m) : HasContainer(m[i], id)}
<1>1. S \subseteq Nat /\ S # {}
  BY DEF InContainer
<1>2. PICK l \in S : \A k \in S : l <= k
  BY <1>1, Least
<1>3. \A j \in 1 .. l - 1 : ~HasContainer(m[j], id)
  <2> SUFFICES ASSUME NEW j \in 1 .. l - 1, HasContainer(m[j], id) PROVE FALSE
    OBVIOUS
  <2>1. j \in 1 .. Len(m) /\ ~(l <= j)
    BY <1>2
  <2> QED BY <1>2, <2>1
<1>4. \E i \in 1 .. Len(m) : FirstContainer(m, id, i)
  BY <1>2, <1>3 DEF FirstContainer
<1> DEFINE c == CHOOSE i \in 1 .. Len(m) : FirstContainer(m, id, i)
<1>5. c \in 1 .. Len(m) /\ FirstContainer(m, id, c)
  BY <1>4
<1>6. m # <<>> /\ ~(\A i \in 1 .. Len(m) : ~HasContainer(m[i], id))
  BY DEF InContainer
<1>7. toHost(id, m) = m[c].hostID + (id - m[c].containerID)
  BY <1>6 DEF toHost, FirstContainer
<1> HIDE DEF c
<1> QED BY <1>5, <1>7 DEF FirstContainer

(* The entry that the loop of toContainer stops at.                        *)
FirstHost(m, id, i) ==
  HasHost(m[i], id) /\ \A j \in 1 .. i - 1 : ~HasHost(m[j], id)

LEMMA ToContainerEntry ==
  ASSUME NEW m \in Seq(Entry), NEW id \in Nat, \E i \in 1 .. Len(m) : HasHost(m[i], id)
  PROVE  \E i \in 1 .. Len(m) :
           HasHost(m[i], id) /\ toContainer(id, m) = m[i].containerID + (id - m[i].hostID)
<1> DEFINE S == {i \in 1 .. Len(m) : HasHost(m[i], id)}
<1>1. S \subseteq Nat /\ S # {}
  OBVIOUS
<1>2. PICK l \in S : \A k \in S : l <= k
  BY <1>1, Least
<1>3. \A j \in 1 .. l - 1 : ~HasHost(m[j], id)
  <2> SUFFICES ASSUME NEW j \in 1 .. l - 1, HasHost(m[j], id) PROVE FALSE
    OBVIOUS
  <2>1. j \in 1 .. Len(m) /\ ~(l <= j)
    BY <1>2
  <2> QED BY <1>2, <2>1
<1>4. \E i \in 1 .. Len(m) : FirstHost(m, id, i)
  BY <1>2, <1>3 DEF FirstHost
<1> DEFINE c == CHOOSE i \in 1 .. Len(m) : FirstHost(m, id, i)
<1>5. c \in 1 .. Len(m) /\ FirstHost(m, id, c)
  BY <1>4
<1>6. m # <<>> /\ ~(\A i \in 1 .. Len(m) : ~HasHost(m[i], id))
  OBVIOUS
<1>7. toContainer(id, m) = m[c].containerID + (id - m[c].hostID)
  BY <1>6 DEF toContainer, FirstHost
<1> HIDE DEF c
<1> QED BY <1>5, <1>7 DEF FirstHost

(* toContainer undoes toHost: a container id that is in a range, mapped to *)
(* the host and back, is the same, provided that no host id is in two      *)
(* ranges.  (idtools.go 79-106)                                            *)
THEOREM HostAndBack ==
  \A m \in Seq(Entry) : \A id \in Nat :
    HostDisjoint(m) /\ InContainer(m, id) =>
      toHost(id, m) \in Nat /\ toContainer(toHost(id, m), m) = id
<1> SUFFICES ASSUME NEW m \in Seq(Entry), NEW id \in Nat, HostDisjoint(m), InContainer(m, id)
             PROVE  toHost(id, m) \in Nat /\ toContainer(toHost(id, m), m) = id
  OBVIOUS
<1>1. PICK i \in 1 .. Len(m) :
        HasContainer(m[i], id) /\ toHost(id, m) = m[i].hostID + (id - m[i].containerID)
  BY ToHostEntry
<1>2. \A k \in 1 .. Len(m) : m[k].hostID \in Nat /\ m[k].containerID \in Nat /\ m[k].size \in Nat
  <2> TAKE k \in 1 .. Len(m)
  <2>1. m[k] \in Entry OBVIOUS
  <2> QED BY <2>1 DEF Entry
<1> DEFINE h == toHost(id, m)
<1>0. h = m[i].hostID + (id - m[i].containerID) /\ HasContainer(m[i], id)
  BY <1>1
<1> HIDE DEF h
<1>3. h \in Nat /\ HasHost(m[i], h) /\ h = m[i].hostID + (id - m[i].containerID)
  <2>1. m[i].hostID \in Nat /\ m[i].containerID \in Nat /\ m[i].size \in Nat
    BY <1>2
  <2>2. \A c, f, s \in Nat : id >= c /\ id <= c + s - 1 =>
          f + (id - c) \in Nat /\ f + (id - c) >= f /\ f + (id - c) <= f + s - 1
    OBVIOUS
  <2>3. id >= m[i].containerID /\ id <= m[i].containerID + m[i].size - 1
    BY <1>0 DEF HasContainer
  <2>4. /\ m[i].hostID + (id - m[i].containerID) \in Nat
        /\ m[i].hostID + (id - m[i].containerID) >= m[i].hostID
        /\ m[i].hostID + (id - m[i].containerID) <= m[i].hostID + m[i].size - 1
    BY <2>1, <2>2, <2>3
  <2> QED BY <1>0, <2>4 DEF HasHost
<1>4. PICK k \in 1 .. Len(m) :
        HasHost(m[k], h) /\ toContainer(h, m) = m[k].containerID + (h - m[k].hostID)
  BY <1>3, ToContainerEntry
<1>5. k = i
  BY <1>3, <1>4 DEF HostDisjoint
<1>6. toContainer(h, m) = id
  BY <1>2, <1>3, <1>4, <1>5
<1> QED BY <1>3, <1>6 DEF h

(* IDMappings.ToContainer undoes IDMappings.ToHost for every mapped id but *)
(* one: ToHost leaves the id that root is mapped to as it is, so that a    *)
(* container id of that value comes back as root.  (idtools.go 154-186)    *)
THEOREM RootIsLeftOut ==
  \A m \in Seq(Entry) : \A id \in Nat :
    HostDisjoint(m) /\ InContainer(m, 0) /\ InContainer(m, id) =>
      ToContainer(ToHost(id, m), m) = IF id = RootPair(m) THEN 0 ELSE id
<1> TAKE m \in Seq(Entry)
<1> TAKE id \in Nat
<1> HAVE HostDisjoint(m) /\ InContainer(m, 0) /\ InContainer(m, id)
<1>1. toContainer(toHost(0, m), m) = 0
  BY HostAndBack
<1>2. toContainer(toHost(id, m), m) = id
  BY HostAndBack
<1> QED BY <1>1, <1>2 DEF ToContainer, ToHost, RootPair
=============================================================================

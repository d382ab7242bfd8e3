------------------------------- MODULE IdMaps -------------------------------
(***************************************************************************)
(* The id mappings of docker/pkg/idtools/idtools.go.  A map is a sequence  *)
(* of entries, nil is the empty sequence (the program passes no other      *)
(* empty one); uid and gid are mapped alike and are one id here.           *)
(***************************************************************************)
EXTENDS Integers, Sequences, FiniteSets

LOCAL Seqs == INSTANCE SequencesExt

Unmapped == -1      \* the id that comes with an error

IDMap(containerID, hostID, size) ==
  [containerID |-> containerID, hostID |-> hostID, size |-> size]

HasHost(m, id)      == id >= m.hostID /\ id <= m.hostID + m.size - 1
HasContainer(m, id) == id >= m.containerID /\ id <= m.containerID + m.size - 1

toContainer(hostID, idMap) ==
  IF idMap = <<>> THEN hostID
  ELSE IF \A i \in 1 .. Len(idMap) : ~HasHost(idMap[i], hostID) THEN Unmapped
  ELSE LET m == idMap[CHOOSE i \in 1 .. Len(idMap) :
                        HasHost(idMap[i], hostID) /\ \A j \in 1 .. i - 1 : ~HasHost(idMap[j], hostID)]
       IN  m.containerID + (hostID - m.hostID)

toHost(contID, idMap) ==
  IF idMap = <<>> THEN contID
  ELSE IF \A i \in 1 .. Len(idMap) : ~HasContainer(idMap[i], contID) THEN Unmapped
  ELSE LET m == idMap[CHOOSE i \in 1 .. Len(idMap) :
                        HasContainer(idMap[i], contID)
                        /\ \A j \in 1 .. i - 1 : ~HasContainer(idMap[j], contID)]
       IN  m.hostID + (contID - m.containerID)

RootPair(idMap) == toHost(0, idMap)

(* IDMappings.ToHost leaves the id that root is mapped to as it is.        *)
ToHost(id, idMap)      == IF id = RootPair(idMap) THEN id ELSE toHost(id, idMap)
ToContainer(id, idMap) == toContainer(id, idMap)

(* createIDMap: ranges, a set of [start, length], lowest first, get        *)
(* adjacent container ids from 0 on.                                       *)
createIDMap(ranges) ==
  LET byStart == Seqs!SetToSortSeq(ranges, LAMBDA r, s : r.start < s.start)
  IN  Seqs!FoldLeft(
        LAMBDA m, r : Append(m, IDMap(IF m = <<>> THEN 0
                                      ELSE Seqs!Last(m).containerID + Seqs!Last(m).size,
                                      r.start, r.length)),
        <<>>, byStart)
=============================================================================

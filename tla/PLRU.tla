-------------------------------- MODULE PLRU --------------------------------
(***************************************************************************)
(* plru.sv: the pseudo-LRU record of each set.  Bit 0 tells which pair of  *)
(* ways was used last, bit 1 which way of the pair {0, 1}, bit 2 which way *)
(* of the pair {2, 3}.  With two ways only bit 0 is used.                  *)
(***************************************************************************)
EXTENDS Integers

CONSTANTS SET_SIZE, GROUP_NUM  \* SET_SIZE is 2 or 4

VARIABLE record

Sets == 0 .. GROUP_NUM - 1
Record == [0 .. 2 -> {0, 1}]

(* The record has no reset: any content is a possible initial one.         *)
Init == record \in [Sets -> Record]

UpdatedOnlyPair(old, way) == [old EXCEPT ![0] = way \div 2]

(* A record after way ask_way is used.                                     *)
Updated(old, way) ==
  IF SET_SIZE = 2 THEN [old EXCEPT ![0] = 1 - way]
  ELSE LET high == way \div 2
           low  == way % 2
       IN  [bit \in 0 .. 2 |->
              IF bit = 0 THEN 1 - high
              ELSE IF bit = 1 THEN IF high = 1 THEN old[1] ELSE 1 - low
              ELSE IF high = 1 THEN 1 - low ELSE old[1]]

(* valid is high for one cycle.                                            *)
Access(i, way) == record' = [record EXCEPT ![i] = Updated(@, way)]

(* lru_way                                                                 *)
LruWay(i) ==
  IF SET_SIZE = 2 THEN record[i][0]
  ELSE IF record[i][0] = 1 THEN 2 + record[i][2]
  ELSE record[i][1]
=============================================================================

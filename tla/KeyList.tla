------------------------------ MODULE KeyList ------------------------------
(***************************************************************************)
(* The sorted list of keyed data, keylist.c, in which the VMAC table and   *)
(* the list of known devices are kept.                                     *)
(*                                                                         *)
(* The array is its live prefix, a sequence of nodes, and the number of    *)
(* pointers allocated for it.  Any allocation may fail.  An addition moves *)
(* the nodes before it allocates the new one: when that allocation fails   *)
(* the last node is lost and another is there twice.  What is done with    *)
(* such a torn list is not followed.                                       *)
(***************************************************************************)
EXTENDS Integers, FiniteSetsExt, Sequences, SequencesExt, BagsExt

CONSTANTS
    KLKeys,            \* the keys in use, up to the last key there is
    KLData,
    chunk,             \* pointers allocated at a time
    MaxNodes

ASSUME KeyListAssumption ==
    /\ KLKeys \subseteq Nat /\ KLKeys # {} /\ KLKeys = Min(KLKeys) .. Max(KLKeys)
    /\ chunk \in Nat \ {0}
    /\ MaxNodes \in Nat \ {0}

VARIABLES
    list,              \* [size, array]
    stored,            \* history: the bag of nodes added and not deleted
    torn               \* a node allocation failed after the nodes had moved

klVars == <<list, stored, torn>>

KLNodes == [key : KLKeys, data : KLData]

count(l) == Len(l.array)

-----------------------------------------------------------------------------
(* The size of the array.                                                  *)

new_size(l) ==
    CASE count(l) = l.size -> l.size + chunk
      [] l.size > chunk /\ count(l) < l.size - chunk -> l.size - chunk
      [] OTHER -> l.size

\* The lists CheckArraySize may leave, one of them when it gets no memory.
CheckArraySize(l) == {l, [l EXCEPT !.size = new_size(l)]}

-----------------------------------------------------------------------------
(* Looking for a key.  Indices count from 0, as in the code.               *)

FindIndex_Short(l, key) ==
    LET at == {i \in 0 .. count(l) - 2 : l.array[i + 1].key = key}
    IN  IF at = {} THEN [found |-> FALSE, index |-> 0]
        ELSE [found |-> TRUE, index |-> Min(at)]

FindIndex(l, key) ==
    LET search[left \in 0 .. count(l), right \in -1 .. count(l)] ==
            LET index == (left + right) \div 2
                current_key == l.array[index + 1].key
                l2 == IF key < current_key THEN left ELSE index + 1
                r2 == IF key < current_key THEN index - 1 ELSE right
            IN  IF key # current_key /\ l2 <= r2 THEN search[l2, r2] ELSE index
        at == search[0, count(l) - 1]
        current == l.array[at + 1].key
    IN  IF l.array = <<>> THEN [found |-> FALSE, index |-> 0]
        ELSE [found |-> key = current, index |-> IF key > current THEN at + 1 ELSE at]

Keylist_Data(l, key) ==
    IF FindIndex(l, key).found THEN {l.array[FindIndex(l, key).index + 1].data} ELSE {}

Keylist_Next_Empty_Key(l, key) ==
    LET next[k \in KLKeys] ==
            IF FindIndex(l, k).found /\ k # Max(KLKeys) THEN next[k + 1] ELSE k
    IN  next[key]

-----------------------------------------------------------------------------
KLInit ==
    /\ list \in CheckArraySize([size |-> 0, array |-> <<>>])
    /\ stored = EmptyBag
    /\ torn = FALSE

Keylist_Data_Add(key, data) ==
    /\ ~torn
    /\ count(list) < MaxNodes
    /\ \E l \in CheckArraySize(list) :
        LET index == FindIndex(l, key).index + 1
            node == [key |-> key, data |-> data]
        IN  \/ /\ count(l) = l.size
               /\ UNCHANGED klVars
            \/ /\ count(l) < l.size
               /\ list' = [l EXCEPT !.array = InsertAt(@, index, node)]
               /\ stored' = stored (+) SetToBag({node})
               /\ UNCHANGED torn
            \/ /\ count(l) < l.size
               /\ list' = IF index > count(l) THEN l
                          ELSE [l EXCEPT !.array = Front(InsertAt(@, index, @[index]))]
               /\ torn' = (index <= count(l))
               /\ UNCHANGED stored

DeleteIndex(l, index) == [l EXCEPT !.array = RemoveAt(@, index + 1)]

Keylist_Data_Delete_By_Index(index) ==
    /\ index \in 0 .. count(list) - 1
    /\ list' \in CheckArraySize(DeleteIndex(list, index))
    /\ stored' = stored (-) SetToBag({list.array[index + 1]})
    /\ UNCHANGED torn

Keylist_Data_Delete(key) ==
    /\ ~torn
    /\ FindIndex(list, key).found
    /\ Keylist_Data_Delete_By_Index(FindIndex(list, key).index)

Keylist_Data_Pop ==
    /\ ~torn
    /\ Keylist_Data_Delete_By_Index(count(list) - 1)

\* The list is deleted and another one created.
Keylist_Delete ==
    /\ list' \in CheckArraySize([size |-> 0, array |-> <<>>])
    /\ stored' = EmptyBag
    /\ torn' = FALSE

KLNext ==
    \/ \E k \in KLKeys, d \in KLData : Keylist_Data_Add(k, d)
    \/ \E k \in KLKeys : Keylist_Data_Delete(k)
    \/ Keylist_Data_Pop
    \/ Keylist_Delete

KLSpec == KLInit /\ [][KLNext]_klVars

-----------------------------------------------------------------------------
\* The list never holds more nodes than the array has room for, whichever
\* allocations of CheckArraySize failed.
KLTypeOK ==
    /\ list \in [size : {n * chunk : n \in 0 .. MaxNodes + 1}, array : Seq(KLNodes)]
    /\ count(list) <= list.size
    /\ IsABag(stored) /\ BagToSet(stored) \subseteq KLNodes
    /\ torn \in BOOLEAN

\* Unless a node could not be allocated, the list holds what was added to it and
\* not deleted, however often the array grew, shrank or failed to; the binary
\* search finds a key exactly when it was stored, with data stored under it, for
\* keys stored twice as well; and Keylist_Next_Empty_Key gives the first key from
\* the one asked about that is not in use, or the last key when all of them are.
FindsEntries ==
    /\ KLTypeOK
    /\ ~torn => \A n \in KLNodes :
          Cardinality({i \in DOMAIN list.array : list.array[i] = n}) = CopiesIn(n, stored)
    /\ ~torn => \A k \in KLKeys :
          LET under == {n \in BagToSet(stored) : n.key = k}
              free == {x \in KLKeys : x >= k /\ \A n \in BagToSet(stored) : n.key # x}
          IN  /\ FindIndex(list, k).found = (under # {})
              /\ Keylist_Data(list, k) \subseteq {n.data : n \in under}
              /\ Keylist_Next_Empty_Key(list, k) = IF free = {} THEN Max(KLKeys) ELSE Min(free)
============================================================================

------------------------------ MODULE Multimap ------------------------------
(***************************************************************************)
(* What a dictionary is to its users: a bag of (key, data) pairs.  Looking *)
(* a key up gives the data of one of its pairs, deleting removes one pair, *)
(* and a key without pairs is absent.  A user that never puts a key twice  *)
(* has an ordinary map.                                                    *)
(***************************************************************************)
EXTENDS Naturals

CONSTANTS Keys, Data, NoData

VARIABLES
  contents,  \* how often each pair is present
  last       \* the latest operation and its answer

mapVars == <<contents, last>>

DataOf(k) == {d \in Data : contents[<<k, d>>] > 0}

Answers(op, k, d) == last' = [op |-> op, key |-> k, data |-> d]

Init ==
  /\ contents = [p \in Keys \X Data |-> 0]
  /\ last.data = NoData

Put(k, d) ==
  /\ contents' = [contents EXCEPT ![<<k, d>>] = @ + 1]
  /\ Answers("put", k, d)

Lookup(k) ==
  /\ UNCHANGED contents
  /\ \/ \E d \in DataOf(k) : Answers("lookup", k, d)
     \/ DataOf(k) = {} /\ Answers("lookup", k, NoData)

Delete(k, S) ==
  \/ \E d \in DataOf(k) \cap S :
       /\ contents' = [contents EXCEPT ![<<k, d>>] = @ - 1]
       /\ Answers("delete", k, d)
  \/ DataOf(k) \cap S = {} /\ UNCHANGED contents /\ Answers("delete", k, NoData)

Clear ==
  /\ contents' = [p \in Keys \X Data |-> 0]
  /\ UNCHANGED last

Next ==
  \/ Clear
  \/ \E k \in Keys :
       \/ Lookup(k) \/ Delete(k, Data)
       \/ \E d \in Data : Put(k, d) \/ Delete(k, {d})

Spec == Init /\ [][Next]_mapVars

=============================================================================

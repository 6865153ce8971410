-------------------------------- MODULE Dict --------------------------------
(***************************************************************************)
(* The hash table of dict.c, in which the proxy keeps the application's    *)
(* callback functions, the Ruby interpreter its functions by method id and *)
(* the Javascript interpreter its functions by object.  Each slot is a     *)
(* linked list.  Looking up is not an observer: it moves what it found to  *)
(* the front of its list, and may rebuild the whole table, which reverses  *)
(* the lists.                                                              *)
(***************************************************************************)
EXTENDS Integers, Sequences, FiniteSets, SequencesExt

CONSTANTS
  Keys, Data,
  NoData,       \* the NULL that dict_lookup returns for an absent key
  Hash,         \* key_type->hash, Keys -> Nat
  Floor,        \* least size of a table that has grown: 15 in dict.c
  Sizes,        \* the sizes dict_init is called with
  MaxEntries    \* bound: entries in the table

ASSUME DictAssumption ==
  /\ NoData \notin Data /\ Hash \in [Keys -> Nat]
  /\ Floor \in Nat \ {0} /\ Sizes \subseteq Nat /\ MaxEntries \in Nat

VARIABLES
  slots,   \* h->slots, from 1; its length is h->hashsize
  num,     \* h->num
  typed,   \* h->key_type is not NULL
  last     \* the latest operation and its answer

vars == <<slots, num, typed, last>>

Entry == [key : Keys, data : Data]
Empty(size) == [i \in 1..size |-> <<>>]

(* The slot of a key in a table of that size. *)
Home(k, size) == (Hash[k] % size) + 1

Answers(op, k, d) == last' = [op |-> op, key |-> k, data |-> d]

TypeOK ==
  /\ slots \in Seq(Seq(Entry)) /\ num \in 0..MaxEntries /\ typed \in BOOLEAN
  /\ last \in [op : {"put", "lookup", "delete"}, key : Keys, data : Data \cup {NoData}]

Init ==
  /\ \E size \in Sizes : slots = Empty(size)
  /\ num = 0 /\ typed = TRUE
  /\ last \in [op : {"lookup"}, key : Keys, data : {NoData}]

-----------------------------------------------------------------------------
(* Growing                                                                 *)

Full(size) == num * 3 >= size * 2

(* Fault: one step of growth, however full the table is. *)
OneStepUp(size) == IF size < Floor THEN Floor ELSE (size + 1) * 2 - 1

(* The next size at which the table is less than two thirds full. *)
NewSize(size) ==
  LET up[s \in Nat] ==
        IF Full(s) THEN up[IF s < Floor THEN Floor ELSE (s + 1) * 2 - 1] ELSE s
  IN up[size]

(* Where the entries of a table are, what is there, and which of two is    *)
(* met later by a loop over all slots and all lists.                       *)
Places(table) == UNION {{<<i, j>> : j \in DOMAIN table[i]} : i \in DOMAIN table}
At(table, x)  == table[x[1]][x[2]]
Later(y, x)   == y[1] > x[1] \/ (y[1] = x[1] /\ y[2] > x[2])

(* Fault: the hash of the old table is used for the new one. *)
ExpandInPlace(newlen) ==
  [i \in 1..newlen |-> IF i <= Len(slots) THEN Reverse(slots[i]) ELSE <<>>]

(* The entries that move to slot i of a table of that size. *)
Moving(i, newlen) == {x \in Places(slots) : Home(At(slots, x).key, newlen) = i}

(* Every entry is taken in turn and put in front of its new list: there    *)
(* are as many in front of it as go to the same list later.                *)
Expand(newlen) ==
  [i \in 1..newlen |-> [j \in 1..Cardinality(Moving(i, newlen)) |->
     At(slots, CHOOSE x \in Moving(i, newlen) :
                 Cardinality({y \in Moving(i, newlen) : Later(y, x)}) = j - 1)]]

-----------------------------------------------------------------------------
Put(k, d) ==
  LET table == IF slots = <<>> THEN Expand(1) ELSE slots
      h == Home(k, Len(table))
  IN /\ typed /\ num < MaxEntries
     /\ slots' = [table EXCEPT ![h] = <<[key |-> k, data |-> d]>> \o @]
     /\ num' = num + 1
     /\ Answers("put", k, d)
     /\ UNCHANGED typed

(* Fault: the entry behind the one found is dropped. *)
CutAndMove(list, i) == <<list[i]>> \o SubSeq(list, 1, i - 1) \o SubSeq(list, i + 2, Len(list))

MoveToFront(list, i) == <<list[i]>> \o RemoveAt(list, i)

(* Fault: dict_lookup returns what dict_do_lookup does. *)
EntryAt(list, i) == list[i]

DataAt(list, i) == list[i].data

(* dict_do_lookup, after the first entry of the list did not match. *)
Walk(table, k) ==
  LET h == Home(k, Len(table))
      i == SelectInSeq(table[h], LAMBDA e : e.key = k)
  IN IF i = 0
     THEN slots' = table /\ Answers("lookup", k, NoData)
     ELSE /\ slots' = [table EXCEPT ![h] = MoveToFront(@, i)]
          /\ Answers("lookup", k, DataAt(table[h], i))

(* dict_lookup, and dict_contains with it. *)
Lookup(k) ==
  /\ UNCHANGED <<num, typed>>
  /\ IF num = 0 THEN UNCHANGED slots /\ Answers("lookup", k, NoData)
     ELSE LET list == slots[Home(k, Len(slots))] IN
          IF Len(list) > 1 /\ list[1].key # k /\ Full(Len(slots))
          THEN Walk(Expand(NewSize(Len(slots))), k)
          ELSE Walk(slots, k)

(* dict_del for S = Data, dict_del2 for a singleton S. *)
Delete(k, S) ==
  LET h == Home(k, Len(slots))
      i == SelectInSeq(slots[h], LAMBDA e : e.key = k /\ e.data \in S)
  IN /\ UNCHANGED typed
     /\ IF num = 0 \/ i = 0
        THEN UNCHANGED <<slots, num>> /\ Answers("delete", k, NoData)
        ELSE /\ slots' = [slots EXCEPT ![h] = RemoveAt(@, i)]
             /\ num' = num - 1
             /\ Answers("delete", k, DataAt(slots[h], i))

(* The user goes on with a copy: dict_clone also reverses the lists. *)
Clone ==
  /\ slots' = [i \in DOMAIN slots |-> Reverse(slots[i])]
  /\ UNCHANGED <<num, typed, last>>

(* dict_clear forgets the key type too: nothing can be put any more ... *)
Clear ==
  /\ slots' = <<>> /\ num' = 0 /\ typed' = FALSE
  /\ UNCHANGED last

(* ... until dict_init. *)
InitAgain ==
  /\ ~typed
  /\ \E size \in Sizes : slots' = Empty(size)
  /\ num' = 0 /\ typed' = TRUE
  /\ UNCHANGED last

Next ==
  \/ Clone \/ Clear \/ InitAgain
  \/ \E k \in Keys :
       \/ Lookup(k) \/ Delete(k, Data)
       \/ \E d \in Data : Put(k, d) \/ Delete(k, {d})

Spec == Init /\ [][Next]_vars

-----------------------------------------------------------------------------
(* Properties                                                              *)

(* dict_count tells how many entries the lists hold: dict_do_lookup trusts *)
(* it when it skips an empty table and when it decides to grow.            *)
CountRight == num = Cardinality(Places(slots))

(* "if dict is 2/3 filled, double the size", and assert(hashsize < newlen) *)
(* in dict_expand: a lookup that rebuilds the table makes it larger, and   *)
(* leaves it less than two thirds full, so that the next ones do not.      *)
GrowsEnough ==
  [][Len(slots') # Len(slots) /\ last'.op = "lookup" /\ typed /\ typed' =>
       Len(slots') > Len(slots) /\ num' * 3 < Len(slots') * 2]_vars

(* However lists are reordered, rebuilt and copied, no pair is lost,       *)
(* duplicated or out of reach of its key.                                  *)
Holding(table, p) == {x \in Places(table) : <<At(table, x).key, At(table, x).data>> = p}

Bag == INSTANCE Multimap WITH
  contents <- [p \in Keys \X Data |-> Cardinality(Holding(slots, p))]

IsMultimap == Bag!Spec

=============================================================================

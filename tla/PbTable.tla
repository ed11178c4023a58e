------------------------------ MODULE PbTable ------------------------------
(***************************************************************************)
(* lpb.h: the hash table in which types, fields and oneofs are found.      *)
(*                                                                         *)
(* Slots are 0..size-1.  Key 0 has slot 0 for itself.  Another key is in   *)
(* its main position or in a slot further down the chain that begins       *)
(* there; free slots for these are taken from the end.  Removing a key     *)
(* leaves its slot in the chain, without a key, which is key 0.            *)
(*                                                                         *)
(* Keys are numbers here, as in the tables by number; names are keys by    *)
(* their addresses.  A `next' is the slot itself, 0 for none.              *)
(***************************************************************************)
EXTENDS Integers, FiniteSets, FiniteSetsExt

CONSTANTS
    PbKeys, PbValues,   \* what is put into a table
    MinSize,            \* PB_MIN_HASHTABLE_SIZE, 8
    Multiplier          \* of pbT_hash, 2654435761

NULL == 0

ASSUME PbTableAssumption ==
    /\ PbKeys \subseteq Nat /\ PbValues \subseteq Nat \ {NULL}
    /\ MinSize \in Nat \ {0, 1} /\ Multiplier \in Nat

VARIABLES
    table,
    held                \* key -> what was put under it last, NULL if it was removed

tableVars == <<table, held>>

EntryOf(key, next, value) == [key |-> key, next |-> next, value |-> value]
NoEntry == EntryOf(0, 0, NULL)
Blank(n, zero) == [size |-> n, lastfree |-> n, zero |-> zero, hash |-> [i \in 0..(n - 1) |-> NoEntry]]
EmptyTable == Blank(0, FALSE)

Slots(t) == 0..(t.size - 1)

\* The main position of a key: never slot 0, but for key 0.
pbT_hash(t, key) ==
    LET h == (key * Multiplier) % t.size IN IF key # 0 /\ h = 0 THEN 1 ELSE h

\* The next slot of a chain, or its last one again; and where a walk from i is after n steps.
Next_(t, i) == IF t.hash[i].next = 0 THEN i ELSE t.hash[i].next
Walk(t, i) == LET at[n \in 0..t.size] == IF n = 0 THEN i ELSE Next_(t, at[n - 1]) IN at
Chain(t, i) == {Walk(t, i)[n] : n \in 0..t.size}

\* The slot of a key, or -1.
pb_gettable(t, key) ==
    LET found == {i \in Chain(t, pbT_hash(t, key)) : t.hash[i].key = key} IN
    CASE t.size = 0 -> -1
      [] t.size # 0 /\ key = 0 -> IF t.zero THEN 0 ELSE -1
      [] OTHER -> IF found = {} THEN -1 ELSE CHOOSE i \in found : TRUE

Write(t, i, entry) == [t EXCEPT !.hash = [t.hash EXCEPT ![i] = entry]]

Enter(t, i, key) == [i |-> i, t |-> Write(t, i, EntryOf(key, t.hash[i].next, NULL))]

FreeSlots(t) == {i \in 1..(t.lastfree - 1) : t.hash[i].key = 0 /\ t.hash[i].next = 0}

\* Slip: the key that moves takes the new one's place in its chain along.
Moved_Slip(t, above, mp, f) == Write(Write(t, f, t.hash[mp]), mp, NoEntry)

\* What is at mp goes to the free slot f, in its chain, too.
Moved(t, above, mp, f) ==
    LET linked == Write(t, above, EntryOf(t.hash[above].key, f, t.hash[above].value)) IN
    Write(Write(linked, f, t.hash[mp]), mp, NoEntry)

\* The free slot f comes after mp.
Linked(t, mp, f) ==
    Write(Write(t, f, EntryOf(0, t.hash[mp].next, NULL)), mp, EntryOf(t.hash[mp].key, f, t.hash[mp].value))

\* The main position is another key's: one that belongs elsewhere moves to the free slot,
\* one that belongs here stays and has the new one after it.
Collide(t, mp, f, key) ==
    LET on == pbT_hash(t, t.hash[mp].key) IN
    IF on # mp
    THEN Enter(Moved(t, CHOOSE i \in Chain(t, on) : t.hash[i].next = mp, mp, f), mp, key)
    ELSE Enter(Linked(t, mp, f), f, key)

\* A new key in a table that has room, of which the caller sets the value.
Insert(t, key) ==
    LET mp == pbT_hash(t, key)
        f == Max(FreeSlots(t)) IN
    CASE key = 0 -> Enter([t EXCEPT !.zero = TRUE], 0, 0)
      [] key # 0 /\ t.hash[mp].key = 0 -> Enter(t, mp, key)
      [] OTHER -> Collide([t EXCEPT !.lastfree = f], mp, f, key)

SetValue(e, value) == Write(e.t, e.i, EntryOf(e.t.hash[e.i].key, e.t.hash[e.i].next, value))

\* The first i slots of the old table, those without a key, too, in the new one.
Refilled(old, new) ==
    LET t[i \in 0..old.size] ==
            IF i = 0 THEN new ELSE SetValue(Insert(t[i - 1], old.hash[i - 1].key), old.hash[i - 1].value) IN
    t

\* The size is a power of two: it doubles.
pb_resizetable(t) ==
    Refilled(t, Blank(IF t.size = 0 THEN MinSize ELSE 2 * t.size, t.zero))[t.size]

\* Only the main position is missing or taken, and there is no other slot.
IsFull(t, key) ==
    t.size = 0 \/ (key # 0 /\ t.hash[pbT_hash(t, key)].key # 0 /\ FreeSlots(t) = {})

pbT_newkey(t, key) == Insert(IF IsFull(t, key) THEN pb_resizetable(t) ELSE t, key)

pb_settable(t, key) ==
    LET i == pb_gettable(t, key) IN IF i # -1 THEN [i |-> i, t |-> t] ELSE pbT_newkey(t, key)

Value(t, key) == LET i == pb_gettable(t, key) IN IF i = -1 THEN NULL ELSE t.hash[i].value

\* The slots pb_nextentry comes to.
Visited(t) == {i \in Slots(t) : IF i = 0 THEN t.zero ELSE t.hash[i].key # 0}

-----------------------------------------------------------------------------
(* What its users do with a table. *)

TableInit == table = EmptyTable /\ held = [k \in PbKeys |-> NULL]

\* A table that grows with a hole in it enters the hole as key 0, after the real one.
GrewOverHole(old, new) == new.size > old.size /\ \E i \in Slots(old) \ {0} : old.hash[i].key = 0

PutKey(k, v) ==
    /\ table' = SetValue(pb_settable(table, k), v)
    /\ held' = [i \in PbKeys |-> IF i = k THEN v
                                 ELSE IF i = 0 /\ GrewOverHole(table, table') THEN NULL
                                 ELSE held[i]]

RemoveKey(k) ==
    /\ Value(table, k) # NULL
    /\ LET i == pb_gettable(table, k) IN table' = Write(table, i, EntryOf(0, table.hash[i].next, NULL))
    /\ held' = [held EXCEPT ![k] = NULL]

pb_freetable ==
    /\ table' = EmptyTable
    /\ held' = [k \in PbKeys |-> NULL]

TableNext ==
    \/ \E k \in PbKeys : RemoveKey(k) \/ \E v \in PbValues : PutKey(k, v)
    \/ pb_freetable

TableSpec == TableInit /\ [][TableNext]_tableVars

-----------------------------------------------------------------------------
(* Properties *)

\* The table is the map `held': what is found, and what is come by.
IsMap ==
    /\ \A k \in PbKeys : Value(table, k) = held[k]
    /\ \A i, j \in Visited(table) : table.hash[i].key = table.hash[j].key => i = j
    /\ \A k \in PbKeys : held[k] # NULL =>
          \E i \in Visited(table) : table.hash[i].key = k /\ table.hash[i].value = held[k]
    /\ \A i \in Visited(table) :
          table.hash[i].value # NULL => held[table.hash[i].key] = table.hash[i].value

\* Slots below lastfree are the heads of their chains: none can be cut off by being used
\* again.
HeadsAreFree ==
    \A i, j \in Slots(table) : table.hash[i].next = j /\ j # 0 => j >= table.lastfree

\* A hash table of protobuf holds what was put into it and not removed, and it is found by
\* the chain of its key.
TableIsMap == IsMap /\ HeadsAreFree
=============================================================================

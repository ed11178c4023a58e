------------------------------ MODULE PbNames ------------------------------
(***************************************************************************)
(* The names of a schema (lpbc/lpb.h, "name table"): each text is kept     *)
(* once, with the number of its uses, in a table of chains; and a cache    *)
(* remembers the hash of a text by the address of the text, where there    *)
(* may be another text by now.                                             *)
(***************************************************************************)
EXTENDS Integers, FiniteSets

CONSTANTS
    Texts, Addresses,       \* texts shorter than 65536, which is what an entry has room for
    pbN_calchash,           \* the hash of a text
    CacheSlots,             \* the places of the cache
    SlotOf,                 \* the place of an address
    PB_MIN_STRTABLE_SIZE,
    NoAddress,              \* where no text is: NULL
    CountLimit,             \* 65536: the uses are counted in 16 bits
    MaxNameUses             \* bound: how often a text is in use at once

ASSUME NamesAssumption ==
    /\ IsFiniteSet(Texts) /\ NoAddress \notin Addresses
    /\ pbN_calchash \in [Texts -> Nat] /\ SlotOf \in [Addresses -> CacheSlots]
    /\ PB_MIN_STRTABLE_SIZE \in Nat \ {0} /\ CountLimit \in Nat \ {0} /\ MaxNameUses \in Nat

VARIABLES
    nametable,      \* the table
    cache,          \* for each place of the cache two addresses, and a hash for each
    memory,         \* the text there is at an address
    uses            \* how often a text is in use: by types, fields and whoever else keeps it

nameVars == <<nametable, cache, memory, uses>>

NameHash(t) == pbN_calchash[t]

\* A chain is the set of its entries: their order decides nothing.
NameEntry(t, hash, refcount) == [name |-> t, hash |-> hash, refcount |-> refcount]
NoNames == [size |-> 0, chain |-> <<>>, count |-> 0]
Buckets(n) == 0..(n.size - 1)
Bucket(n, hash) == hash % n.size

pbN_getname(n, t, hash) ==
    IF n.size = 0 THEN {} ELSE {e \in n.chain[Bucket(n, hash)] : e.hash = hash /\ e.name = t}

\* The table doubles, and each entry is put into the chain that is its own now.
pbN_resize(n) ==
    LET size == IF n.size = 0 THEN PB_MIN_STRTABLE_SIZE ELSE 2 * n.size
        entries == UNION {n.chain[b] : b \in Buckets(n)} IN
    [size |-> size, count |-> n.count, chain |-> [b \in 0..(size - 1) |-> {e \in entries : e.hash % size = b}]]

PutEntry(n, old, new) ==
    LET b == Bucket(n, new.hash) IN [n.chain EXCEPT ![b] = (@ \ {old}) \union {new}]

pbN_newname(n, t, hash) ==
    LET m == IF n.count >= n.size THEN pbN_resize(n) ELSE n
        new == NameEntry(t, hash, 0) IN
    [size |-> m.size, count |-> m.count + 1, chain |-> PutEntry(m, new, new)]

pb_usename(n, e) ==
    [size |-> n.size, count |-> n.count, chain |-> PutEntry(n, e, NameEntry(e.name, e.hash, (e.refcount + 1) % CountLimit))]

pbN_delname(n, e) ==
    [size |-> n.size, count |-> n.count - 1,
     chain |-> [b \in Buckets(n) |-> IF b = Bucket(n, e.hash) THEN n.chain[b] \ {e} ELSE n.chain[b]]]

\* A name goes with its last use.
NameLess(n, e) ==
    IF e.refcount <= 1 THEN pbN_delname(n, e)
    ELSE [size |-> n.size, count |-> n.count, chain |-> PutEntry(n, e, NameEntry(e.name, e.hash, e.refcount - 1))]

-----------------------------------------------------------------------------
(* The cache *)

\* Which of the two addresses of a place is this one.
Hit(a) == {k \in {0, 1} : cache[SlotOf[a]][k].name = a}
FirstHit(a) == IF 0 \in Hit(a) THEN 0 ELSE 1

\* The hash that was right for the text that was at the address, if it is still there.
Remembered(a) ==
    IF Hit(a) = {} THEN {} ELSE pbN_getname(nametable, memory[a], cache[SlotOf[a]][FirstHit(a)].hash)

\* What pb_name finds.
NameFound(a) ==
    IF Remembered(a) # {} THEN Remembered(a) ELSE pbN_getname(nametable, memory[a], NameHash(memory[a]))

\* What is left in the cache: a new address becomes the first one, and gets its hash.
CacheAfter(a) ==
    LET place == cache[SlotOf[a]]
        moved == IF Hit(a) = {} THEN [k \in {0, 1} |-> IF k = 1 THEN place[0] ELSE [name |-> a, hash |-> place[0].hash]]
                 ELSE place
        k == IF Hit(a) = {} THEN 0 ELSE FirstHit(a) IN
    IF Remembered(a) # {} THEN place
    ELSE [moved EXCEPT ![k] = [name |-> a, hash |-> NameHash(memory[a])]]

-----------------------------------------------------------------------------
\* pb_newname: a text that is a name already is used once more.
NewName(t) ==
    LET hash == NameHash(t)
        n == IF pbN_getname(nametable, t, hash) = {} THEN pbN_newname(nametable, t, hash) ELSE nametable IN
    /\ uses[t] < MaxNameUses
    /\ \E e \in pbN_getname(n, t, hash) : nametable' = pb_usename(n, e)
    /\ uses' = [uses EXCEPT ![t] = uses[t] + 1]
    /\ UNCHANGED <<cache, memory>>

\* Whoever has a name gives it to another one, or gives it up.
UseName(t) ==
    /\ uses[t] > 0 /\ uses[t] < MaxNameUses
    /\ \E e \in pbN_getname(nametable, t, NameHash(t)) : nametable' = pb_usename(nametable, e)
    /\ uses' = [uses EXCEPT ![t] = uses[t] + 1]
    /\ UNCHANGED <<cache, memory>>

DelName(t) ==
    /\ uses[t] > 0
    /\ \E e \in pbN_getname(nametable, t, NameHash(t)) : nametable' = NameLess(nametable, e)
    /\ uses' = [uses EXCEPT ![t] = uses[t] - 1]
    /\ UNCHANGED <<cache, memory>>

FindName(a) ==
    /\ cache' = [cache EXCEPT ![SlotOf[a]] = CacheAfter(a)]
    /\ UNCHANGED <<nametable, memory, uses>>

\* Lua's strings go, and others take their place.
RewriteText(a, t) ==
    /\ memory' = [memory EXCEPT ![a] = t]
    /\ UNCHANGED <<nametable, cache, uses>>

\* The whole schema goes; the cache does not.
pbN_free ==
    /\ nametable' = NoNames
    /\ uses' = [t \in Texts |-> 0]
    /\ UNCHANGED <<cache, memory>>

\* The cache is zeros at first: no text has that address.
NamesInit ==
    /\ nametable = NoNames
    /\ cache = [s \in CacheSlots |-> [k \in {0, 1} |-> [name |-> NoAddress, hash |-> 0]]]
    /\ memory \in [Addresses -> Texts]
    /\ uses = [t \in Texts |-> 0]

NamesNext ==
    \/ \E t \in Texts : NewName(t) \/ UseName(t) \/ DelName(t)
    \/ \E a \in Addresses : FindName(a) \/ \E t \in Texts : RewriteText(a, t)
    \/ pbN_free

NamesSpec == NamesInit /\ [][NamesNext]_nameVars

\* Unless its uses are too many to be counted, a text is a name as long as it is used, and is
\* found as such wherever it is read from, whatever the cache remembers of the address; it is
\* there once, with as many uses as it has.
NamesAreKept ==
    /\ \A a \in Addresses :
         NameFound(a) = IF uses[memory[a]] > 0 THEN {NameEntry(memory[a], NameHash(memory[a]), uses[memory[a]])} ELSE {}
    /\ nametable.count = Cardinality({t \in Texts : uses[t] > 0})
    /\ UNION {nametable.chain[b] : b \in Buckets(nametable)}
         = {NameEntry(t, NameHash(t), uses[t]) : t \in {t \in Texts : uses[t] > 0}}
=============================================================================

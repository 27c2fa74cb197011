-------------------------------- MODULE Mcfg --------------------------------
(***************************************************************************)
(* The configuration dictionary of ts_test/vns_config.c: a hash table of   *)
(* chained entries that doubles when it gets crowded, with running totals  *)
(* of the space its keys and values need.  Callers ask for the totals,     *)
(* allocate that much and have the keys or the whole dictionary written.   *)
(* One action is one call of the interface; malloc may fail in any of them.*)
(*                                                                         *)
(* A key is a value of Keys, up to letter case (hash and comparison fold   *)
(* it).  A key with a '-' is "ranged": it is hashed up to the '-' and      *)
(* matches every entry of its chain whose key begins with that stem.       *)
(***************************************************************************)
EXTENDS Integers, Sequences, FiniteSets, SequencesExt

CONSTANTS
    Keys,        \* the keys callers pass
    Ranged,      \* those with a '-'
    Begins,      \* per ranged key: the keys that begin with its stem
    Hash,        \* per key: __hash33 of it
    KeyLen,      \* per key: strlen of it
    Section,     \* per key: the part before its first '.', or NoSection
    SectionLen,  \* per section: strlen of it
    NoSection,
    Hooked,      \* the keys callers register callbacks for
    Values,      \* the strings callers store
    ValLen,      \* per value: strlen of it
    NoVal,       \* an entry with val == NULL
    FirstSize,   \* chains of a new dictionary (16)
    MallocFails, \* whether mcfg_malloc may return NULL
    MaxKeyLen,   \* bound on tot_key_len, which grows with every delete
    MaxValLen    \* bound on tot_val_len, which grows with every overwrite

Callbacks == {"read_cb", "write_cb"}
Entry == [key : Keys, val : Values \cup {NoVal}, cb : SUBSET Callbacks]

ASSUME McfgAssumption ==
    /\ IsFiniteSet(Keys) /\ Ranged \subseteq Keys /\ Hooked \subseteq Keys
    /\ Begins \in [Ranged -> SUBSET Keys]
    /\ \A k \in Ranged : k \in Begins[k]
    /\ Hash \in [Keys -> Nat]
    /\ KeyLen \in [Keys -> Nat] /\ ValLen \in [Values -> Nat]
    /\ DOMAIN Section = Keys /\ SectionLen \in [Range(Section) \ {NoSection} -> Nat]
    /\ \A k \in Keys : Section[k] # NoSection => SectionLen[Section[k]] < KeyLen[k]
    /\ NoVal \notin Values
    /\ FirstSize \in Nat \ {0}
    /\ MallocFails \in BOOLEAN
    /\ MaxKeyLen \in Nat /\ MaxValLen \in Nat

VARIABLES
    buddy_size,   \* number of chains
    buddy,        \* the chains, each with its newest entry first
    entry_num,    \* number of entries
    tot_key_len,  \* space for all keys, as the code counts it
    tot_val_len,  \* space for all values, as the code counts it
    ret           \* result of the last call: 0 or -1

vars == <<buddy_size, buddy, entry_num, tot_key_len, tot_val_len, ret>>

Chains == 0 .. buddy_size - 1
Home(k) == Hash[k] % buddy_size
Entries == UNION {Range(buddy[c]) : c \in Chains}

Mallocs == IF MallocFails THEN BOOLEAN ELSE {TRUE}

(***************************************************************************)
(* dict_get_entry: the search.                                             *)
(***************************************************************************)
Matches_Prefix(k, key) ==
    key = k \/ \E r \in Ranged : {k, key} \subseteq Begins[r]
Matches(k, key) == IF k \in Ranged THEN key \in Begins[k] ELSE key = k

\* The entry at place i of k's chain is the one the search stops at.
Finds(k, i) ==
    /\ i \in DOMAIN buddy[Home(k)]
    /\ Matches(k, buddy[Home(k)][i].key)
    /\ \A j \in 1 .. i - 1 : ~Matches(k, buddy[Home(k)][j].key)
Missing_HeadOnly(k) == \A i \in DOMAIN buddy[Home(k)] : i = 1 => ~Matches(k, buddy[Home(k)][i].key)
Missing(k) == \A i \in DOMAIN buddy[Home(k)] : ~Matches(k, buddy[Home(k)][i].key)

\* The entry a call with key k works on: a set of at most one.
Resolve(k) == {buddy[Home(k)][i] : i \in {j \in DOMAIN buddy[Home(k)] : Finds(k, j)}}

(***************************************************************************)
(* dict_get_entry: a new entry goes to the head of its chain.  When the    *)
(* chain was not empty and entry_num * 4 exceeds the size, the table       *)
(* doubles, which reverses what each chain keeps.                          *)
(***************************************************************************)
KeySpace_CharsOnly(k) == KeyLen[k]
KeySpace(k) == KeyLen[k] + 1 + 5
ValSpace(v) == ValLen[v] + 1 + 5
KeyCredit(k) == KeyLen[k] + 5
ValCredit(v) == IF v = NoVal THEN 0 ELSE ValLen[v] + 5

Crowded(k) == buddy[Home(k)] # <<>> /\ entry_num * 4 > buddy_size

\* What has come to chain c of n when the first i entries of a chain are moved,
\* each to the head of its new chain.
Moved(chain, c, n) ==
    LET moved[i \in 0 .. Len(chain)] ==
            IF i = 0 THEN <<>>
            ELSE IF Hash[chain[i].key] % n = c THEN <<chain[i]>> \o moved[i - 1]
            ELSE moved[i - 1]
    IN moved[Len(chain)]

Rehash_LowerHalf(table) ==
    [c \in 0 .. 2 * buddy_size - 1 |->
        IF c >= buddy_size THEN <<>> ELSE Moved(table[c], c, 2 * buddy_size)]
Rehash(table) ==
    [c \in 0 .. 2 * buddy_size - 1 |-> Moved(table[c % buddy_size], c, 2 * buddy_size)]

Insert(k, e, grown) ==
    LET table == [buddy EXCEPT ![Home(k)] = <<e>> \o @]
    IN /\ buddy' = IF Crowded(k) /\ grown THEN Rehash(table) ELSE table
       /\ buddy_size' = IF Crowded(k) /\ grown THEN 2 * buddy_size ELSE buddy_size
       /\ entry_num' = entry_num + 1
       /\ tot_key_len' = tot_key_len + KeySpace(k)

Reply(n) == ret' = n
Fail == Reply(-1) /\ UNCHANGED <<buddy_size, buddy, entry_num, tot_key_len, tot_val_len>>

(***************************************************************************)
(* mcfg_setstring, mcfg_setint, mcfg_setbool: overwrite the value of the   *)
(* entry found, or make a new entry.  A failed copy of the value leaves    *)
(* the entry without one.                                                  *)
(***************************************************************************)
Overwrite(k, v) ==
    \E i \in DOMAIN buddy[Home(k)], copied \in Mallocs :
        /\ Finds(k, i)
        /\ buddy' = [buddy EXCEPT ![Home(k)][i].val = IF copied THEN v ELSE NoVal]
        /\ tot_val_len' = tot_val_len - ValCredit(buddy[Home(k)][i].val)
                                      + IF copied THEN ValSpace(v) ELSE 0
        /\ Reply(IF copied THEN 0 ELSE -1)
        /\ UNCHANGED <<buddy_size, entry_num, tot_key_len>>

Add(k, v) ==
    \E copied \in Mallocs, grown \in Mallocs :
        /\ Missing(k)
        /\ tot_key_len + KeySpace(k) <= MaxKeyLen
        /\ Insert(k, [key |-> k, val |-> IF copied THEN v ELSE NoVal, cb |-> {}], grown)
        /\ tot_val_len' = tot_val_len + IF copied THEN ValSpace(v) ELSE 0
        /\ Reply(IF copied THEN 0 ELSE -1)

SetString(k, v) ==
    /\ tot_val_len + ValSpace(v) <= MaxValLen
    /\ \/ Overwrite(k, v)
       \/ Add(k, v)
       \/ MallocFails /\ Missing(k) /\ Fail      \* no entry, or no copy of the key

(***************************************************************************)
(* mcfg_write overwrites only; the write callback is the caller's.         *)
(***************************************************************************)
Write(k, v) ==
    /\ tot_val_len + ValSpace(v) <= MaxValLen
    /\ \/ Overwrite(k, v)
       \/ Missing(k) /\ Fail

(***************************************************************************)
(* mcfg_register_read and mcfg_register_write: a callback on the entry     *)
(* found, or on a new entry without a value.                               *)
(***************************************************************************)
Register(k, cb) ==
    \/ \E i \in DOMAIN buddy[Home(k)] :
          /\ Finds(k, i)
          /\ buddy' = [buddy EXCEPT ![Home(k)][i].cb = @ \cup {cb}]
          /\ Reply(0)
          /\ UNCHANGED <<buddy_size, entry_num, tot_key_len, tot_val_len>>
    \/ \E grown \in Mallocs :
          /\ Missing(k)
          /\ tot_key_len + KeySpace(k) <= MaxKeyLen
          /\ Insert(k, [key |-> k, val |-> NoVal, cb |-> {cb}], grown)
          /\ Reply(0)
          /\ UNCHANGED tot_val_len
    \/ MallocFails /\ Missing(k) /\ Fail

(***************************************************************************)
(* mcfg_unset_key: the entry found is unlinked, and its key and value are  *)
(* taken off the totals with one byte less than they were counted with.    *)
(* The call returns 0 also when there is no entry.                         *)
(***************************************************************************)
UnsetKey(k) ==
    \/ \E i \in DOMAIN buddy[Home(k)] :
          /\ Finds(k, i)
          /\ buddy' = [buddy EXCEPT ![Home(k)] = RemoveAt(@, i)]
          /\ tot_key_len' = tot_key_len - KeyCredit(buddy[Home(k)][i].key)
          /\ tot_val_len' = tot_val_len - ValCredit(buddy[Home(k)][i].val)
          /\ entry_num' = entry_num - 1
          /\ Reply(0)
          /\ UNCHANGED buddy_size
    \/ /\ Missing(k)
       /\ Reply(0)
       /\ UNCHANGED <<buddy_size, buddy, entry_num, tot_key_len, tot_val_len>>

(***************************************************************************)
(* What callers size their buffers with, and what is written to them.      *)
(***************************************************************************)
\* mcfg_get_keys_len, and what mcfg_get_keys writes: a 4-byte pointer and the
\* characters of every key.
KeysBuffer == 4 * entry_num + tot_key_len
KeysWritten == SumFunction([e \in Entries |-> 4 + KeyLen[e.key] + 1])

\* mcfg_get_buffer_len, and what mcfg_dump_buffer writes: one line per key
\* with the value its key resolves to, a header per section, the final NUL.
DumpBuffer == tot_key_len + tot_val_len
Prefix(k) == IF Section[k] = NoSection THEN 0 ELSE SectionLen[Section[k]] + 1
DumpLine(k) ==
    LET e == CHOOSE x \in Resolve(k) : TRUE
    IN KeyLen[k] - Prefix(k)
         + (IF e.val = NoVal THEN 7 ELSE 1 + ValLen[e.val])     \* ";=undef", "="
         + 3 * Cardinality(e.cb) + 1
DumpWritten ==
    LET keys == {e.key : e \in Entries}
        secs == {Section[k] : k \in keys} \ {NoSection}
    IN SumFunction([k \in keys |-> DumpLine(k)])
         + SumFunction([s \in secs |-> SectionLen[s] + 4]) + 1

-----------------------------------------------------------------------------
Init ==
    /\ buddy_size = FirstSize
    /\ buddy = [c \in 0 .. FirstSize - 1 |-> <<>>]
    /\ entry_num = 0
    /\ tot_key_len = 0
    /\ tot_val_len = 0
    /\ ret = 0

Next ==
    \/ \E k \in Keys, v \in Values : SetString(k, v) \/ Write(k, v)
    \/ \E k \in Hooked, cb \in Callbacks : Register(k, cb)
    \/ \E k \in Keys : UnsetKey(k)

Spec == Init /\ [][Next]_vars

-----------------------------------------------------------------------------
\* The table is a table of entries, the totals are totals; every entry is in
\* the chain the search for its key looks in, also after the table has doubled;
\* no key has two entries, and entry_num counts them: a failed malloc between
\* the steps of an insertion leaves nothing behind (dict_get_entry,
\* dict_unset_entry).
TypeOK ==
    /\ buddy_size \in Nat \ {0}
    /\ buddy \in [Chains -> Seq(Entry)]
    /\ entry_num \in 0 .. Cardinality(Keys)
    /\ tot_key_len \in 0 .. MaxKeyLen
    /\ tot_val_len \in 0 .. MaxValLen
    /\ ret \in {0, -1}

InHomeChain == \A c \in Chains : \A i \in DOMAIN buddy[c] : Home(buddy[c][i].key) = c
OneEntryPerKey ==
    /\ \A c, d \in Chains : \A i \in DOMAIN buddy[c], j \in DOMAIN buddy[d] :
          buddy[c][i].key = buddy[d][j].key => c = d /\ i = j
    /\ entry_num = Cardinality(Entries)
TableInv == TypeOK /\ InHomeChain /\ OneEntryPerKey

\* A buffer of mcfg_get_keys_len bytes takes what mcfg_get_keys writes, after
\* any history of additions and deletions, whose credits and debits differ; and
\* one of mcfg_get_buffer_len bytes takes the dump of a dictionary in which
\* every key has a value and resolves to its own entry, headers and callback
\* marks included.
KeysFit == KeysWritten <= KeysBuffer
DumpFits ==
    /\ Entries # {}
    /\ \A e \in Entries : e.val # NoVal /\ Resolve(e.key) = {e}
    => DumpWritten <= DumpBuffer
SizesFit == KeysFit /\ DumpFits

\* What a plain key resolves to changes only by a call with that key or with
\* a ranged key whose stem it begins with, never by the growth of the table.
PlainStable ==
    [][\A k \in Keys \ Ranged :
          Resolve(k)' # Resolve(k) =>
              \E q \in {k} \cup {r \in Ranged : k \in Begins[r]} :
                  \/ \E v \in Values : SetString(q, v) \/ Write(q, v)
                  \/ \E cb \in Callbacks : Register(q, cb)
                  \/ UnsetKey(q)]_vars

\* For the keys without a '-' the hash table implements a map from keys to
\* entries (McfgMap), whatever calls with ranged keys do to it.
PlainKeys == Keys \ Ranged
Map == INSTANCE McfgMap WITH
    Keys <- PlainKeys,
    m <- [k \in PlainKeys |-> {[val |-> e.val, cb |-> e.cb] : e \in Resolve(k)}]
ImplementsMap == Map!Spec
=============================================================================

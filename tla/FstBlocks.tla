----------------------------- MODULE FstBlocks -----------------------------
(***************************************************************************)
(* The value change block of an FST file (fst/block_format.txt): how the   *)
(* changes of a handle become a chain of bytes, how equal chains are       *)
(* shared, how the index tells the reader where each chain is, and how the *)
(* reader takes all of this apart again.                                   *)
(*                                                                         *)
(* A value is a sequence of character codes.  lens[h] is the length of the *)
(* values of handle h; 0 is a string of any length.  A varint is one       *)
(* number here, chains are stored uncompressed, and a position counts      *)
(* from the pack type character, as in the file.                           *)
(***************************************************************************)
EXTENDS Integers, SequencesExt

ZeroCh == 48
OneCh  == 49
XCh    == 120
DashCh == 45

IsBinary(v) == \A k \in DOMAIN v : v[k] \in {ZeroCh, OneCh}

\* FST_RCV_STR: what a bit can be besides 0 and 1; anything else becomes "-".
RcvLetters == <<XCh, 122, 104, 117, 119, 108, DashCh>>

Lower(c) == IF c \in 65..90 THEN c + 32 ELSE c

RcvIndex(c) ==
    IF Lower(c) \in ToSet(RcvLetters)
    THEN (CHOOSE k \in DOMAIN RcvLetters : RcvLetters[k] = Lower(c)) - 1
    ELSE Len(RcvLetters) - 1

------------------------------------------------------------------------------
(* Writing a chain. *)

BitEntry(delta, c) ==
    IF c \in {ZeroCh, OneCh} THEN <<2 * (c - ZeroCh) + 4 * delta>>
    ELSE <<1 + 2 * RcvIndex(c) + 16 * delta>>

\* Eight characters in a byte, the first in the highest bit.
PackedBits(v) ==
    [b \in 1..((Len(v) + 7) \div 8) |->
        MapThenSumSet(LAMBDA k : (v[k] - ZeroCh) * 2^(8 * b - k),
                      {k \in DOMAIN v : k \in (8 * b - 7)..(8 * b)})]

VectorEntry(delta, v) ==
    IF IsBinary(v) THEN <<2 * delta>> \o PackedBits(v) ELSE <<2 * delta + 1>> \o v

StringEntry(delta, v) == <<2 * delta, Len(v)>> \o v

Entry(len, delta, v) ==
    IF len = 1 THEN BitEntry(delta, v[1])
    ELSE IF len = 0 THEN StringEntry(delta, v)
    ELSE VectorEntry(delta, v)

\* changes: a sequence of [delta, value], oldest first.
Chain(len, changes) ==
    FlattenSeq([k \in DOMAIN changes |-> Entry(len, changes[k].delta, changes[k].value)])

------------------------------------------------------------------------------
(* Taking the first entry off a chain. *)

Delta(len, chain) ==
    IF len = 1 THEN IF chain[1] % 2 = 0 THEN chain[1] \div 4 ELSE chain[1] \div 16
    ELSE chain[1] \div 2

UnpackedBits(len, bytes) ==
    [k \in 1..len |->
        ZeroCh + ((bytes[(k + 7) \div 8] \div 2^(7 - ((k - 1) % 8))) % 2)]

EntrySize(len, chain) ==
    IF len = 1 THEN 1
    ELSE IF len = 0 THEN 2 + chain[2]
    ELSE IF chain[1] % 2 = 0 THEN 1 + (len + 7) \div 8
    ELSE 1 + len

EntryValue(len, chain) ==
    IF len = 1
    THEN <<IF chain[1] % 2 = 0 THEN ZeroCh + ((chain[1] \div 2) % 2)
           ELSE RcvLetters[((chain[1] \div 2) % 8) + 1]>>
    ELSE IF len = 0 THEN SubSeq(chain, 3, 2 + chain[2])
    ELSE IF chain[1] % 2 = 0 THEN UnpackedBits(len, SubSeq(chain, 2, EntrySize(len, chain)))
    ELSE SubSeq(chain, 2, 1 + len)

AfterEntry(len, chain) == SubSeq(chain, EntrySize(len, chain) + 1, Len(chain))

------------------------------------------------------------------------------
(* Placing the chains.  Of equal chains only the first is stored; the      *)
(* others point to it by the negated handle.                               *)

FirstWith(chains, h) == Min({g \in 1..h : chains[g] = chains[h]})

Stored(chains) == {h \in DOMAIN chains : chains[h] # <<>> /\ FirstWith(chains, h) = h}

\* The chain length 0 in front of a chain says that it is not compressed.
ChainsAsStored(chains) ==
    [h \in DOMAIN chains |-> IF h \in Stored(chains) THEN <<0>> \o chains[h] ELSE <<>>]

Body(chains) == FlattenSeq(ChainsAsStored(chains))
\* Faulty variant: the handles of aliases count from zero.
PointerFromZero(chains, h) ==
    IF chains[h] = <<>> THEN 0
    ELSE IF h \in Stored(chains)
         THEN 1 + MapThenSumSet(LAMBDA g : Len(ChainsAsStored(chains)[g]), 1..(h - 1))
    ELSE 1 - FirstWith(chains, h)

Pointer(chains, h) ==
    IF chains[h] = <<>> THEN 0
    ELSE IF h \in Stored(chains)
         THEN 1 + MapThenSumSet(LAMBDA g : Len(ChainsAsStored(chains)[g]), 1..(h - 1))
    ELSE -FirstWith(chains, h)

Pointers(chains) == [h \in DOMAIN chains |-> Pointer(chains, h)]

------------------------------------------------------------------------------
(* The index: runs of handles without changes, increments of the position, *)
(* aliases, with 1 for the alias of before.                                *)

ZeroRun(n) == IF n > 0 THEN <<2 * n>> ELSE <<>>

IndexPointer(w, p) ==
    IF p = 0 THEN [w EXCEPT !.zeros = @ + 1]
    ELSE IF p > 0
    THEN [w EXCEPT !.items = @ \o ZeroRun(w.zeros) \o <<2 * (p - w.position) + 1>>,
                   !.zeros = 0, !.position = p]
    ELSE [w EXCEPT !.items = @ \o ZeroRun(w.zeros) \o
                             <<IF p = w.alias THEN 1 ELSE 2 * p + 1>>,
                   !.zeros = 0, !.alias = p]

IndexOf(pointers) ==
    LET w == FoldLeft(IndexPointer,
                      [items |-> <<>>, zeros |-> 0, position |-> 0, alias |-> 0], pointers)
    IN  w.items \o ZeroRun(w.zeros)

------------------------------------------------------------------------------
(* Reading the index.  table[h] is where the chain of h starts, 0 for none *)
(* or for an alias, whose lengths[h] is negative.  last is pidx, the last  *)
(* handle with a chain of its own.  Table, lengths and last are those the  *)
(* block before left: they are cleared only when the table has to grow.    *)

NoIndex == [table |-> <<>>, lengths |-> <<>>, last |-> 1]

GrownIndex(n, old) ==
    IF n + 1 > Len(old.table)
    THEN [old EXCEPT !.table = [h \in 1..(n + 1) |-> 0], !.lengths = [h \in 1..(n + 1) |-> 0]]
    ELSE old

\* r.next is the handle the item is about.
IndexZeros(r, n) ==
    [r EXCEPT !.table = [h \in DOMAIN @ |-> IF h \in r.next..(r.next + n - 1) THEN 0 ELSE @[h]],
              !.next = @ + n]

\* The length of a chain is known when the next one starts.
IndexPosition(r, position) ==
    LET table == [r.table EXCEPT ![r.next] = position]
    IN  [r EXCEPT !.table = table, !.position = position, !.last = r.next, !.next = @ + 1,
                  !.lengths = IF r.next > 1
                              THEN [@ EXCEPT ![r.last] = position - table[r.last]] ELSE @]

IndexAlias(r, alias) ==
    [r EXCEPT !.table[r.next] = 0, !.lengths[r.next] = alias, !.alias = alias, !.next = @ + 1]

IndexItem(r, item) ==
    LET shift == (item - 1) \div 2
    IN  IF item % 2 = 0 THEN IndexZeros(r, item \div 2)
        ELSE IF shift > 0 THEN IndexPosition(r, r.position + shift)
        ELSE IndexAlias(r, IF shift < 0 THEN shift ELSE r.alias)

\* The last chain ends where the index starts.
IndexEnd(r, end) ==
    [r EXCEPT !.table[r.next] = end, !.lengths[r.last] = end - [r.table EXCEPT ![r.next] = end][r.last]]

\* A handle without a position and with a negative length takes the chain
\* of the handle that the length names.
ResolveAlias(r, h) ==
    LET target == -r.lengths[h]
    IN  IF r.lengths[h] < 0 /\ r.table[h] = 0 /\ target < h
        THEN [r EXCEPT !.table[h] = r.table[target], !.lengths[h] = r.lengths[target]]
        ELSE r

\* n handles, the index of the block and the end of its chains.
ReadIndex(n, items, end, old) ==
    LET start    == GrownIndex(n, old) @@ [next |-> 1, position |-> 0, alias |-> 0]
        read     == IndexEnd(FoldLeft(IndexItem, start, items), end)
        resolved == FoldLeft(ResolveAlias, read, [h \in 1..(read.next - 1) |-> h])
    IN  [table |-> resolved.table, lengths |-> resolved.lengths, last |-> resolved.last]

ChainOf(body, index, h) ==
    IF index.table[h] = 0 THEN <<>>
    ELSE SubSeq(body, index.table[h] + 1, index.table[h] + index.lengths[h] - 1)

------------------------------------------------------------------------------
(* The time table holds the differences. *)

Times(deltas) ==
    LET sum[k \in 0..Len(deltas)] == IF k = 0 THEN 0 ELSE sum[k - 1] + deltas[k]
    IN  [k \in DOMAIN deltas |-> sum[k]]
=============================================================================

----------------------------- MODULE FstProofs -----------------------------
(***************************************************************************)
(* What the writer of fst/fstapi.c leaves on the disk and what its reader  *)
(* tells of it, for all variables, values, times, limits and requests,     *)
(* wherever the writer is closed, killed or crashes.                       *)
(*                                                                         *)
(* FstInv: while time goes on, the last block is open and those before it  *)
(* are finished; before the first time there is no block, and in a full    *)
(* file none is open (Blocked).  That is why the header which a close cuts *)
(* off or which a flush turns into a block is never a finished block.      *)
(* Every block stands behind a hierarchy that is on the disk (Described),  *)
(* which is what a reader needs when the header was never completed.       *)
(*                                                                         *)
(* TimesInv: the times of a table, which are differences on the disk, lie  *)
(* between the begin and the end of their block, and all blocks between    *)
(* the first time and the current one.  BlackoutsInv: the table of         *)
(* blackouts has the times that the application gave.                      *)
(*                                                                         *)
(* ReaderInv: the reader's next time is not before what it has delivered   *)
(* and not before a blackout it has yet to tell; while it is in a block,   *)
(* its lists hold each handle once, at a time that is not delivered yet.   *)
(*                                                                         *)
(* Which value a block holds of a variable is a fold over its changes and  *)
(* stays with the runs.                                                    *)
(***************************************************************************)
EXTENDS FstFile, FiniteSetTheorems, TLAPS

\* Induction over sets of numbers, and the ends of such a set.
Facts == INSTANCE TraceLemmas

------------------------------------------------------------------------------
(* Types. *)

\* The lengths that variables may have.
Lengths == DOMAIN Values

\* The values a variable may have, also the one it starts with.
Vals == (UNION {Values[len] : len \in Lengths}) \cup {Undefined(len) : len \in Lengths}

Changes   == [delta : Nat, value : Vals]
Blackouts == [time : Nat, active : BOOLEAN]
Emissions == [time : Nat, handle : Nat, value : Vals]

\* struct fstWriterContext.
Contexts ==
    [lens : Seq(Lengths), mapped : BOOLEAN, curval : Seq(Vals), vchg : Seq(Seq(Changes)),
     lastIdx : Seq(Nat), tchn : Seq(Nat), tchnIdx : Nat, curtime : Nat, firsttime : Nat,
     initialTime : BOOLEAN, vcEmitted : BOOLEAN, flushPending : BOOLEAN,
     headerOnly : BOOLEAN, limit : Nat, locked : BOOLEAN, blackouts : Seq(Blackouts)]

\* A block as far as its times go; what is in it is not looked at.
IsBlock(s) ==
    /\ {"tag", "begin", "frame"} \subseteq DOMAIN s
    /\ s.tag \in {"skip", "vcdata"} /\ s.begin \in Nat /\ s.frame \in Seq(Vals)
    /\ s.tag = "vcdata" =>
          /\ {"end", "times"} \subseteq DOMAIN s
          /\ s.end \in Nat /\ s.begin <= s.end /\ s.times \in Seq(Nat)

Headers  == [start : Nat, end : Nat]
Switches == [active : BOOLEAN, delta : Int]

\* Files whose blocks are in S.
FilesOf(S) ==
    [sections : Seq(S), header : Headers, geom : Seq(Lengths), blackouts : Seq(Switches),
     hier : Seq(Lengths)]

\* A file with well-formed blocks.
IsFile(f) ==
    /\ f \in FilesOf(ToSet(f.sections))
    /\ \A k \in DOMAIN f.sections : IsBlock(f.sections[k])

Pasts == [saved : Nat, idleFlush : BOOLEAN, blackouts : Seq(Blackouts),
          changes : Nat, extras : Nat]

\* The types of the state of the writer.
Types ==
    /\ phase \in {"writing", "closed", "dead"}
    /\ xc \in Contexts
    /\ IsFile(file)
    /\ emitted \in Seq(Emissions)
    /\ past \in Pasts

\* Every variable has its slots, and no change is further from the one before
\* than the times that have passed in the block.
Aligned(c) ==
    /\ Len(c.curval) = Len(c.lens)
    /\ Len(c.vchg) = Len(c.lens)
    /\ Len(c.lastIdx) = Len(c.lens)
    /\ \A h \in DOMAIN c.lens : c.lastIdx[h] <= c.tchnIdx
    /\ \A h \in DOMAIN c.lens : \A k \in DOMAIN c.vchg[h] : c.vchg[h][k].delta <= c.tchnIdx

\* No block is open.
AllFinished(f) == \A k \in DOMAIN f.sections : f.sections[k].tag = "vcdata"
\* One block is open, the last.
LastIsOpen(f) ==
    /\ f.sections # <<>>
    /\ \A k \in DOMAIN f.sections :
          f.sections[k].tag = IF k = Len(f.sections) THEN "skip" ELSE "vcdata"

\* While time goes on the last block is open and all before are finished;
\* before there is no block, and a full file has none that is open.
Blocked(f, c) ==
    /\ ~c.initialTime => ~c.locked /\ LastIsOpen(f)
    /\ c.initialTime /\ ~c.locked => f.sections = <<>>
    /\ c.locked => AllFinished(f)

\* A block begins at the time at which the one before it ended, and that one
\* is finished.
Adjoin(f) ==
    \A k \in DOMAIN f.sections :
        k > 1 => /\ f.sections[k - 1].tag = "vcdata"
                 /\ f.sections[k].begin = f.sections[k - 1].end

BlocksAdjoin == Adjoin(file)

\* The open block has begun.
BegunBy(f, c) == ~c.initialTime => f.sections[Len(f.sections)].begin <= c.curtime

\* The hierarchy is on the disk when the maps are there or a block is.
Described(f, c) ==
    /\ c.mapped => f.hier = c.lens
    /\ f.sections # <<>> => f.hier # <<>>

\* A file and a context that go together.
Ready(f, c) == Blocked(f, c) /\ Described(f, c) /\ BegunBy(f, c)

Writing == phase = "writing" => Ready(file, xc)

\* Changes that count as saved are in a finished block, and a file with blocks
\* has the hierarchy, also when the writer is gone.
Saved ==
    /\ file.sections # <<>> => file.hier # <<>>
    /\ phase = "closed" => file.hier # <<>>
    /\ past.saved > 0 => HasFlushed(file)
    /\ past.saved <= Len(emitted)

\* Only a file without saved changes fails to open.
Opened == rd.pc = "failed" => phase # "writing" /\ past.saved = 0

\* The inductive invariant.
FstInv == Types /\ Aligned(xc) /\ Writing /\ BlocksAdjoin /\ Saved /\ Opened
------------------------------------------------------------------------------
(* Contexts. *)

\* A sequence with one more element.
LEMMA AppendIs ==
  ASSUME NEW S, NEW s \in Seq(S), NEW e \in S
  PROVE  /\ Append(s, e) \in Seq(S) /\ Append(s, e) # <<>>
         /\ Len(s) \in Nat /\ Len(Append(s, e)) = Len(s) + 1
         /\ DOMAIN s = 1..Len(s) /\ DOMAIN Append(s, e) = 1..(Len(s) + 1)
         /\ \A k \in DOMAIN s : Append(s, e)[k] = s[k]
         /\ Append(s, e)[Len(s) + 1] = e
OBVIOUS

\* A function over 1..n is a sequence.
LEMMA FunctionIsSeq ==
  ASSUME NEW S, NEW n \in Nat, NEW f, DOMAIN f = 1..n, f = [i \in DOMAIN f |-> f[i]],
         \A i \in 1..n : f[i] \in S
  PROVE  f \in Seq(S) /\ Len(f) = n
<1>1. f \in [1..n -> S]
  OBVIOUS
<1> QED
  BY <1>1

\* The slots of the variables are there.
LEMMA Slots ==
  ASSUME NEW c \in Contexts, Aligned(c)
  PROVE  /\ Len(c.lens) \in Nat
         /\ DOMAIN c.lens = 1..Len(c.lens)
         /\ DOMAIN c.curval = DOMAIN c.lens
         /\ DOMAIN c.vchg = DOMAIN c.lens
         /\ DOMAIN c.lastIdx = DOMAIN c.lens
BY DEF Contexts, Aligned

\* What the slots are is in five fields.
LEMMA SameSlots ==
  ASSUME NEW c, Aligned(c), NEW d,
         \A g \in {"lens", "curval", "vchg", "lastIdx", "tchnIdx"} : d[g] = c[g]
  PROVE  Aligned(d)
<1>1. /\ d.lens = c.lens /\ d.curval = c.curval /\ d.vchg = c.vchg
      /\ d.lastIdx = c.lastIdx /\ d.tchnIdx = c.tchnIdx
  OBVIOUS
<1> QED
  BY <1>1 DEF Aligned

\* A sequence of one value only.
LEMMA ConstantIsSeq ==
  ASSUME NEW S, NEW e \in S, NEW n \in Nat
  PROVE  [i \in 1..n |-> e] \in Seq(S) /\ Len([i \in 1..n |-> e]) = n
OBVIOUS

\* Slots without changes.
LEMMA NoChains ==
  ASSUME NEW c \in Contexts, Aligned(c)
  PROVE  /\ [h \in DOMAIN c.lens |-> <<>>] \in Seq(Seq(Changes))
         /\ Len([h \in DOMAIN c.lens |-> <<>>]) = Len(c.lens)
         /\ [h \in DOMAIN c.lens |-> 0] \in Seq(Nat)
         /\ Len([h \in DOMAIN c.lens |-> 0]) = Len(c.lens)
<1> DEFINE n == Len(c.lens)
<1>1. n \in Nat /\ DOMAIN c.lens = 1..n
  BY Slots
<1>2. <<>> \in Seq(Changes)
  OBVIOUS
<1> HIDE DEF n
<1>3. [h \in 1..n |-> <<>>] \in Seq(Seq(Changes)) /\ Len([h \in 1..n |-> <<>>]) = n
  BY <1>1, <1>2, ConstantIsSeq
<1>4. [h \in 1..n |-> 0] \in Seq(Nat) /\ Len([h \in 1..n |-> 0]) = n
  BY <1>1
<1> QED
  BY <1>1, <1>3, <1>4 DEF n

\* A context without variables.
LEMMA NoContextOK == NoContext \in Contexts /\ Aligned(NoContext)
BY DEF NoContext, Contexts, Aligned

\* A variable starts with a value.
LEMMA UndefinedIsVal ==
  ASSUME NEW len \in Lengths
  PROVE  Undefined(len) \in Vals
<1>1. Undefined(len) \in {Undefined(l) : l \in Lengths}
  OBVIOUS
<1> QED
  BY <1>1 DEF Vals

\* A new variable has all its slots.
LEMMA CreateVarOK ==
  ASSUME NEW c \in Contexts, Aligned(c), NEW len \in Lengths,
         NEW d, d = [c EXCEPT !.mapped = FALSE,
                              !.lens = Append(@, len),
                              !.curval = Append(@, Undefined(len)),
                              !.vchg = Append(@, <<>>),
                              !.lastIdx = Append(@, 0)]
  PROVE  /\ d \in Contexts /\ Aligned(d)
         /\ d.mapped = FALSE
         /\ \A f \in {"initialTime", "locked", "curtime"} : d[f] = c[f]
<1>1. d \in Contexts
  <2>1. /\ c.lens \in Seq(Lengths) /\ c.curval \in Seq(Vals)
        /\ c.vchg \in Seq(Seq(Changes)) /\ c.lastIdx \in Seq(Nat)
    BY DEF Contexts
  <2>2. /\ Append(c.lens, len) \in Seq(Lengths)
        /\ Append(c.curval, Undefined(len)) \in Seq(Vals)
        /\ Append(c.vchg, <<>>) \in Seq(Seq(Changes))
        /\ Append(c.lastIdx, 0) \in Seq(Nat)
    BY <2>1, UndefinedIsVal
  <2> QED
    BY <2>2 DEF Contexts
<1>2. /\ d.lens = Append(c.lens, len) /\ d.curval = Append(c.curval, Undefined(len))
      /\ d.vchg = Append(c.vchg, <<>>) /\ d.lastIdx = Append(c.lastIdx, 0)
      /\ d.tchnIdx = c.tchnIdx
      /\ d.mapped = FALSE /\ d.initialTime = c.initialTime
      /\ d.locked = c.locked /\ d.curtime = c.curtime
  BY DEF Contexts
<1>3. Aligned(d)
  <2>1. /\ c.lens \in Seq(Lengths) /\ c.curval \in Seq(Vals)
        /\ c.vchg \in Seq(Seq(Changes)) /\ c.lastIdx \in Seq(Nat)
        /\ c.tchnIdx \in Nat
    BY DEF Contexts
  <2>2. /\ Len(d.lens) = Len(c.lens) + 1 /\ Len(d.curval) = Len(c.curval) + 1
        /\ Len(d.vchg) = Len(c.vchg) + 1 /\ Len(d.lastIdx) = Len(c.lastIdx) + 1
        /\ DOMAIN d.lens = 1..(Len(c.lens) + 1)
    BY <1>2, <2>1, UndefinedIsVal, AppendIs
  <2>3. \A h \in DOMAIN c.lens : d.lastIdx[h] = c.lastIdx[h] /\ d.vchg[h] = c.vchg[h]
    <3>1. DOMAIN c.lastIdx = DOMAIN c.lens /\ DOMAIN c.vchg = DOMAIN c.lens
      BY Slots
    <3>2. \A h \in DOMAIN c.lastIdx : Append(c.lastIdx, 0)[h] = c.lastIdx[h]
      BY <2>1
    <3>3. \A h \in DOMAIN c.vchg : Append(c.vchg, <<>>)[h] = c.vchg[h]
      BY <2>1
    <3> QED
      BY ONLY <1>2, <3>1, <3>2, <3>3
  <2>4. d.lastIdx[Len(c.lens) + 1] = 0 /\ d.vchg[Len(c.lens) + 1] = <<>>
    <3>1. <<>> \in Seq(Changes)
      OBVIOUS
    <3>2. Append(c.vchg, <<>>)[Len(c.vchg) + 1] = <<>>
      BY <2>1, <3>1, AppendIs
    <3>3. Append(c.lastIdx, 0)[Len(c.lastIdx) + 1] = 0
      BY <2>1, AppendIs
    <3> QED
      BY <1>2, <3>2, <3>3 DEF Aligned
  <2>5. \A h \in DOMAIN d.lens : h \in DOMAIN c.lens \/ h = Len(c.lens) + 1
    BY <2>2, Slots
  <2>6. \A h \in DOMAIN d.lens : d.lastIdx[h] <= d.tchnIdx
    <3>1. \A h \in DOMAIN c.lens : d.lastIdx[h] <= d.tchnIdx
      BY <1>2, <2>3 DEF Aligned
    <3>2. d.lastIdx[Len(c.lens) + 1] <= d.tchnIdx
      <4>1. d.lastIdx[Len(c.lens) + 1] = 0 /\ d.tchnIdx \in Nat
        BY ONLY <1>2, <2>1, <2>4
      <4> QED
        BY ONLY <4>1
    <3> QED
      BY ONLY <2>5, <3>1, <3>2
  <2>7. \A h \in DOMAIN d.lens : \A k \in DOMAIN d.vchg[h] : d.vchg[h][k].delta <= d.tchnIdx
    <3>1. \A h \in DOMAIN c.lens : \A k \in DOMAIN d.vchg[h] : d.vchg[h][k].delta <= d.tchnIdx
      BY <1>2, <2>3 DEF Aligned
    <3>2. DOMAIN d.vchg[Len(c.lens) + 1] = {}
      BY ONLY <2>4
    <3> QED
      BY ONLY <2>5, <3>1, <3>2
  <2>8. /\ Len(d.curval) = Len(d.lens) /\ Len(d.vchg) = Len(d.lens)
        /\ Len(d.lastIdx) = Len(d.lens)
    BY <2>2 DEF Aligned
  <2> QED
    BY <2>6, <2>7, <2>8 DEF Aligned
<1> QED
  BY <1>1, <1>2, <1>3

\* A change is not further from the one before than the times of the block:
\* lastIdx[h] has never been ahead of tchnIdx.
LEMMA RecordedOK ==
  ASSUME NEW c \in Contexts, Aligned(c), NEW h \in DOMAIN c.lens, NEW value \in Vals
  PROVE  /\ Recorded(c, h, value) \in Contexts
         /\ Aligned(Recorded(c, h, value))
         /\ \A f \in {"lens", "mapped", "initialTime", "locked", "curtime"} :
               Recorded(c, h, value)[f] = c[f]
<1> DEFINE change == [delta |-> c.tchnIdx - c.lastIdx[h], value |-> value]
           d == Recorded(c, h, value)
<1>1. change \in Changes
  <2>1. c.tchnIdx \in Nat /\ c.lastIdx[h] <= c.tchnIdx
    BY DEF Contexts, Aligned
  <2>2. c.lastIdx \in Seq(Nat) /\ h \in DOMAIN c.lastIdx
    BY Slots DEF Contexts
  <2>3. c.lastIdx[h] \in Nat
    BY <2>2
  <2> QED
    BY <2>1, <2>3 DEF Changes
<1>2. /\ d.vchg = [c.vchg EXCEPT ![h] = Append(@, change)]
      /\ d.lastIdx = [c.lastIdx EXCEPT ![h] = c.tchnIdx]
      /\ d.lens = c.lens /\ d.curval = c.curval /\ d.tchnIdx = c.tchnIdx
      /\ d.mapped = c.mapped /\ d.initialTime = c.initialTime
      /\ d.locked = c.locked /\ d.curtime = c.curtime
  BY DEF Contexts, Recorded
<1>3. d.vchg \in Seq(Seq(Changes)) /\ d.lastIdx \in Seq(Nat)
  BY SMTT(30), <1>1, <1>2, Slots DEF Contexts
<1>4. d \in Contexts
  BY <1>3 DEF Contexts, Recorded
<1>5. Aligned(d)
  <2>1. /\ c.vchg \in Seq(Seq(Changes)) /\ c.lastIdx \in Seq(Nat) /\ c.tchnIdx \in Nat
    BY DEF Contexts
  <2>2. /\ Len(d.vchg) = Len(c.vchg) /\ Len(d.lastIdx) = Len(c.lastIdx)
    BY <1>2, <2>1
  <2>3. \A g \in DOMAIN c.lens : d.lastIdx[g] <= d.tchnIdx
    <3>1. DOMAIN c.lastIdx = DOMAIN c.lens
      BY Slots
    <3>2. \A g \in DOMAIN c.lens : d.lastIdx[g] = IF g = h THEN c.tchnIdx ELSE c.lastIdx[g]
      BY <1>2, <3>1
    <3>3. \A g \in DOMAIN c.lens : c.lastIdx[g] <= c.tchnIdx
      BY DEF Aligned
    <3> QED
      BY <1>2, <2>1, <3>2, <3>3
  <2>4. ASSUME NEW g \in DOMAIN c.lens, NEW k \in DOMAIN d.vchg[g]
        PROVE  d.vchg[g][k].delta <= d.tchnIdx
    <3>1. CASE g # h
      BY <1>2, <2>1, <3>1, Slots DEF Aligned
    <3>2. CASE g = h
      <4>1. c.vchg[h] \in Seq(Changes) /\ c.lastIdx[h] \in Nat
        BY <2>1, Slots
      <4>2. d.vchg[h] = Append(c.vchg[h], change)
        BY <1>2, <2>1, Slots
      <4>3. change.delta <= c.tchnIdx
        BY <2>1, <4>1
      <4>4. d.vchg[h][k] = change \/ (k \in DOMAIN c.vchg[h] /\ d.vchg[h][k] = c.vchg[h][k])
        BY <1>1, <3>2, <4>1, <4>2
      <4> QED
        BY <1>2, <3>2, <4>3, <4>4 DEF Aligned
    <3> QED
      BY <3>1, <3>2
  <2> QED
    BY <1>2, <2>2, <2>3, <2>4 DEF Aligned
<1> QED
  BY <1>2, <1>4, <1>5

\* Neither is one before the first time.
LEMMA ChangedOK ==
  ASSUME NEW c \in Contexts, Aligned(c), NEW h \in DOMAIN c.lens, NEW value \in Vals
  PROVE  /\ Changed(c, h, value) \in Contexts
         /\ Aligned(Changed(c, h, value))
         /\ \A f \in {"lens", "mapped", "initialTime", "locked", "curtime"} :
               Changed(c, h, value)[f] = c[f]
<1>1. CASE c.initialTime /\ c.lens[h] # 0
  <2> DEFINE d == [c EXCEPT !.curval[h] = value]
  <2>1. c.curval \in Seq(Vals) /\ h \in DOMAIN c.curval
    BY Slots DEF Contexts
  <2>2. [c.curval EXCEPT ![h] = value] \in Seq(Vals)
    BY <2>1
  <2>3. /\ d.curval = [c.curval EXCEPT ![h] = value]
        /\ \A f \in (DOMAIN c) \ {"curval"} : d[f] = c[f]
    BY DEF Contexts
  <2>4. d \in Contexts
    BY <2>2 DEF Contexts
  <2>5. Len(d.curval) = Len(c.curval)
    BY <2>1, <2>3
  <2>6. Aligned(d)
    BY <2>3, <2>5 DEF Aligned, Contexts
  <2> QED
    BY <1>1, <2>3, <2>4, <2>6 DEF Changed, Contexts
<1>2. CASE ~(c.initialTime /\ c.lens[h] # 0)
  BY <1>2, RecordedOK DEF Changed
<1> QED
  BY <1>1, <1>2

\* After a flush the last values are in the frame and the chains are empty.
LEMMA EmptiedOK ==
  ASSUME NEW c \in Contexts, Aligned(c)
  PROVE  /\ Emptied(c) \in Contexts
         /\ Aligned(Emptied(c))
         /\ \A f \in {"lens", "mapped", "initialTime", "locked", "curtime", "firsttime"} :
               Emptied(c)[f] = c[f]
<1> DEFINE d == Emptied(c)
<1>1. /\ d.curval = Checkpoint(c)
      /\ d.vchg = [h \in DOMAIN c.lens |-> <<>>]
      /\ d.lastIdx = [h \in DOMAIN c.lens |-> 0]
      /\ d.tchnIdx = 0
      /\ \A f \in {"lens", "mapped", "initialTime", "locked", "curtime", "firsttime"} :
            d[f] = c[f]
  BY DEF Emptied, Contexts
<1>2. ASSUME NEW h \in DOMAIN c.lens
      PROVE  Checkpoint(c)[h] \in Vals
  <2>1. c.curval[h] \in Vals /\ c.vchg[h] \in Seq(Changes)
    BY Slots DEF Contexts
  <2>2. ASSUME c.vchg[h] # <<>>
        PROVE  Last(c.vchg[h]).value \in Vals
    <3>1. Last(c.vchg[h]) = c.vchg[h][Len(c.vchg[h])]
      BY DEF Last
    <3>2. Last(c.vchg[h]) \in Changes
      BY <2>1, <2>2, <3>1
    <3> QED
      BY <3>2 DEF Changes
  <2> QED
    BY <2>1, <2>2 DEF Checkpoint
<1>3. Checkpoint(c) \in Seq(Vals) /\ Len(Checkpoint(c)) = Len(c.lens)
  <2>1. /\ DOMAIN Checkpoint(c) = 1..Len(c.lens)
        /\ Checkpoint(c) = [h \in DOMAIN Checkpoint(c) |-> Checkpoint(c)[h]]
    BY Slots DEF Checkpoint
  <2> QED
    BY <1>2, <2>1, Slots, FunctionIsSeq
<1>4. /\ d.vchg \in Seq(Seq(Changes)) /\ Len(d.vchg) = Len(c.lens)
      /\ d.lastIdx \in Seq(Nat) /\ Len(d.lastIdx) = Len(c.lens)
  BY <1>1, NoChains
<1>5. d \in Contexts
  <2>1. ASSUME NEW v \in Seq(Vals), NEW g \in Seq(Seq(Changes)), NEW i \in Seq(Nat),
               NEW e \in Seq(Nat), NEW n \in Nat
        PROVE  [c EXCEPT !.curval = v, !.vchg = g, !.lastIdx = i,
                         !.tchn = e, !.tchnIdx = n, !.headerOnly = FALSE] \in Contexts
    BY DEF Contexts
  <2>2. <<>> \in Seq(Nat)
    OBVIOUS
  <2> QED
    BY <1>1, <1>3, <1>4, <2>1, <2>2 DEF Emptied
<1>6. Aligned(d)
  BY <1>1, <1>3, <1>4, Slots DEF Aligned
<1> QED
  BY <1>1, <1>5, <1>6

\* A context in which only flags differ has the same slots.
LEMMA MarkedOK ==
  ASSUME NEW e \in Contexts, Aligned(e)
  PROVE  /\ LET d == [e EXCEPT !.locked = TRUE, !.initialTime = TRUE]
            IN  /\ d \in Contexts /\ Aligned(d) /\ d.locked /\ d.initialTime
                /\ \A g \in {"lens", "mapped", "curtime"} : d[g] = e[g]
         /\ LET d == [e EXCEPT !.headerOnly = TRUE]
            IN  /\ d \in Contexts /\ Aligned(d)
                /\ \A g \in {"lens", "mapped", "curtime", "locked", "initialTime"} :
                      d[g] = e[g]
         /\ \A n \in Nat :
               LET d == [e EXCEPT !.limit = n]
               IN  /\ d \in Contexts /\ Aligned(d)
                   /\ \A g \in {"mapped", "locked", "initialTime"} : d[g] = e[g]
<1>1. ASSUME NEW d, d = [e EXCEPT !.locked = TRUE, !.initialTime = TRUE]
      PROVE  /\ d \in Contexts /\ Aligned(d) /\ d.locked /\ d.initialTime
             /\ \A g \in {"lens", "mapped", "curtime"} : d[g] = e[g]
  <2>1. d \in Contexts /\ d.locked /\ d.initialTime
    BY <1>1 DEF Contexts
  <2>2. \A g \in {"lens", "curval", "vchg", "lastIdx", "tchnIdx", "mapped", "curtime"} : d[g] = e[g]
    BY <1>1 DEF Contexts
  <2> QED
    BY <2>1, <2>2, SameSlots
<1>2. ASSUME NEW d, d = [e EXCEPT !.headerOnly = TRUE]
      PROVE  /\ d \in Contexts /\ Aligned(d)
             /\ \A g \in {"lens", "mapped", "curtime", "locked", "initialTime"} : d[g] = e[g]
  <2>1. d \in Contexts
    BY <1>2 DEF Contexts
  <2>2. \A g \in {"lens", "curval", "vchg", "lastIdx", "tchnIdx", "mapped", "curtime",
                  "locked", "initialTime"} : d[g] = e[g]
    BY <1>2 DEF Contexts
  <2> QED
    BY <2>1, <2>2, SameSlots
<1>3. ASSUME NEW n \in Nat, NEW d, d = [e EXCEPT !.limit = n]
      PROVE  /\ d \in Contexts /\ Aligned(d)
             /\ \A g \in {"mapped", "locked", "initialTime"} : d[g] = e[g]
  <2>1. d \in Contexts
    BY <1>3 DEF Contexts
  <2>2. \A g \in {"lens", "curval", "vchg", "lastIdx", "tchnIdx", "mapped", "locked",
                  "initialTime"} : d[g] = e[g]
    BY <1>3 DEF Contexts
  <2> QED
    BY <2>1, <2>2, SameSlots
<1> QED
  BY <1>1, <1>2, <1>3

\* A full file is locked, and takes time back to before its start.
LEMMA AfterFlushOK ==
  ASSUME NEW c \in Contexts, Aligned(c), NEW f
  PROVE  LET d == AfterFlush(f, c)
         IN  /\ d \in Contexts /\ Aligned(d)
             /\ d.lens = c.lens /\ d.mapped = c.mapped /\ d.curtime = c.curtime
             /\ d.locked = IF Full(f, c) THEN TRUE ELSE c.locked
             /\ d.initialTime = IF Full(f, c) THEN TRUE ELSE c.initialTime
<1> DEFINE e == Emptied(c)
<1>1. /\ e \in Contexts /\ Aligned(e)
      /\ \A g \in {"lens", "mapped", "curtime", "locked", "initialTime"} : e[g] = c[g]
  BY EmptiedOK
<1>2. CASE Full(f, c)
  <2>1. AfterFlush(f, c) = [e EXCEPT !.locked = TRUE, !.initialTime = TRUE]
    BY <1>2 DEF AfterFlush
  <2> QED
    BY ZenonT(90), <1>1, <1>2, <2>1, MarkedOK
<1>3. CASE ~Full(f, c)
  <2>1. AfterFlush(f, c) = [e EXCEPT !.headerOnly = TRUE]
    BY <1>3 DEF AfterFlush
  <2> QED
    BY ZenonT(30), <1>1, <1>3, <2>1, MarkedOK
<1> QED
  BY <1>2, <1>3

\* A later time goes into the time table.
LEMMA WithTimeOK ==
  ASSUME NEW c \in Contexts, Aligned(c), NEW t \in Nat, t >= c.curtime
  PROVE  /\ WithTime(c, t) \in Contexts
         /\ Aligned(WithTime(c, t))
         /\ WithTime(c, t).curtime = t
         /\ \A f \in {"lens", "mapped", "initialTime", "locked"} : WithTime(c, t)[f] = c[f]
<1>1. t - c.curtime \in Nat /\ Append(c.tchn, t - c.curtime) \in Seq(Nat)
  BY DEF Contexts
<1> QED
  BY <1>1 DEF WithTime, Contexts, Aligned

\* So does the same again.
LEMMA RepeatTimeOK ==
  ASSUME NEW c \in Contexts, Aligned(c)
  PROVE  /\ RepeatTime(c) \in Contexts
         /\ Aligned(RepeatTime(c))
         /\ \A f \in {"lens", "mapped", "initialTime", "locked", "curtime"} :
               RepeatTime(c)[f] = c[f]
<1>1. Append(c.tchn, c.curtime) \in Seq(Nat)
  BY DEF Contexts
<1> QED
  BY <1>1 DEF RepeatTime, Contexts, Aligned

\* More times in the block leave the changes within them.
LEMMA CountedOK ==
  ASSUME NEW c \in Contexts, Aligned(c),
         NEW d, d = [c EXCEPT !.tchnIdx = @ + 1]
  PROVE  /\ d \in Contexts /\ Aligned(d)
         /\ \A f \in {"lens", "mapped", "initialTime", "locked", "curtime"} : d[f] = c[f]
<1>1. /\ d.tchnIdx = c.tchnIdx + 1 /\ c.tchnIdx \in Nat
      /\ d.lens = c.lens /\ d.curval = c.curval /\ d.vchg = c.vchg /\ d.lastIdx = c.lastIdx
      /\ \A f \in {"lens", "mapped", "initialTime", "locked", "curtime"} : d[f] = c[f]
  BY DEF Contexts
<1>2. d \in Contexts
  <2>1. \A n \in Nat : [c EXCEPT !.tchnIdx = n] \in Contexts
    BY DEF Contexts
  <2> QED
    BY <1>1, <2>1
<1>3. ASSUME NEW h \in DOMAIN c.lens
      PROVE  c.lastIdx[h] <= c.tchnIdx + 1
  <2>1. c.lastIdx[h] \in Nat
    BY Slots DEF Contexts
  <2> QED
    BY <1>1, <2>1 DEF Aligned
<1>4. ASSUME NEW h \in DOMAIN c.lens, NEW k \in DOMAIN c.vchg[h]
      PROVE  c.vchg[h][k].delta <= c.tchnIdx + 1
  <2>1. c.vchg[h] \in Seq(Changes)
    BY Slots DEF Contexts
  <2>2. c.vchg[h][k] \in Changes
    BY <2>1
  <2>3. c.vchg[h][k].delta \in Nat
    BY <2>2 DEF Changes
  <2> QED
    BY <1>1, <2>3 DEF Aligned
<1>5. Aligned(d)
  BY <1>1, <1>3, <1>4 DEF Aligned
<1> QED
  BY <1>1, <1>2, <1>5

\* The next time in a block.
LEMMA NextTimeOK ==
  ASSUME NEW c \in Contexts, Aligned(c), NEW t \in Nat, t >= c.curtime
  PROVE  /\ NextTime(c, t) \in Contexts
         /\ Aligned(NextTime(c, t))
         /\ NextTime(c, t).curtime = t
         /\ \A f \in {"lens", "mapped", "initialTime", "locked"} : NextTime(c, t)[f] = c[f]
<1> DEFINE d == [c EXCEPT !.tchnIdx = @ + 1]
<1>1. /\ d \in Contexts /\ Aligned(d)
      /\ \A f \in {"lens", "mapped", "initialTime", "locked", "curtime"} : d[f] = c[f]
  BY CountedOK
<1>2. NextTime(c, t) = WithTime(d, t)
  BY DEF NextTime
<1> HIDE DEF d
<1> QED
  BY <1>1, <1>2, WithTimeOK

\* The begin of time forgets the changes made before.
LEMMA BeginTimeOK ==
  ASSUME NEW c \in Contexts, Aligned(c), NEW t \in Nat
  PROVE  /\ BeginTime(c, t) \in Contexts
         /\ Aligned(BeginTime(c, t))
         /\ BeginTime(c, t).curtime = 0
         /\ BeginTime(c, t).firsttime \in {0, t}
         /\ \A f \in {"lens", "mapped", "initialTime", "locked"} : BeginTime(c, t)[f] = c[f]
<1> DEFINE d == BeginTime(c, t)
<1>1. /\ d.vchg = [h \in DOMAIN c.lens |-> <<>>]
      /\ d.lastIdx = [h \in DOMAIN c.lens |-> 0]
      /\ d.curval = c.curval /\ d.tchnIdx = c.tchnIdx
      /\ d.curtime = 0 /\ d.firsttime \in {0, t}
      /\ \A f \in {"lens", "mapped", "initialTime", "locked"} : d[f] = c[f]
  BY DEF BeginTime, Contexts
<1>2. /\ d.vchg \in Seq(Seq(Changes)) /\ Len(d.vchg) = Len(c.lens)
      /\ d.lastIdx \in Seq(Nat) /\ Len(d.lastIdx) = Len(c.lens)
  BY <1>1, NoChains
<1>3. d \in Contexts
  BY <1>1, <1>2 DEF BeginTime, Contexts
<1>4. Aligned(d)
  BY <1>1, <1>2, Slots DEF Aligned, Contexts
<1> QED
  BY <1>1, <1>3, <1>4

\* The first time.
LEMMA FirstTimeOK ==
  ASSUME NEW c \in Contexts, Aligned(c), NEW t \in Nat
  PROVE  /\ FirstTime(c, t) \in Contexts
         /\ Aligned(FirstTime(c, t))
         /\ FirstTime(c, t).curtime = t
         /\ FirstTime(c, t).mapped = TRUE
         /\ FirstTime(c, t).initialTime = FALSE
         /\ \A f \in {"lens", "locked"} : FirstTime(c, t)[f] = c[f]
<1> DEFINE m == WithMaps(c)
           b == BeginTime(m, t)
           w == WithTime(b, t)
<1>1. /\ m \in Contexts /\ Aligned(m) /\ m.mapped = TRUE
      /\ \A f \in {"lens", "locked"} : m[f] = c[f]
  BY DEF WithMaps, Contexts, Aligned
<1>2. /\ b \in Contexts /\ Aligned(b) /\ b.mapped = TRUE /\ b.curtime = 0
      /\ \A f \in {"lens", "locked"} : b[f] = c[f]
  BY <1>1, BeginTimeOK
<1>3. /\ w \in Contexts /\ Aligned(w) /\ w.mapped = TRUE /\ w.curtime = t
      /\ \A f \in {"lens", "locked"} : w[f] = c[f]
  BY <1>2, WithTimeOK
<1>4. FirstTime(c, t) = [w EXCEPT !.initialTime = FALSE]
  BY DEF FirstTime
<1> HIDE DEF m, b, w
<1> QED
  BY <1>3, <1>4 DEF Contexts, Aligned

\* The begin of time that a close makes up.
LEMMA MockedOK ==
  ASSUME NEW c \in Contexts, Aligned(c)
  PROVE  LET d == Mocked(c)
         IN  /\ d \in Contexts
             /\ d.lens = c.lens /\ d.locked = c.locked
             /\ d.curtime = 0 /\ d.initialTime = FALSE
<1> DEFINE b == FirstTime(c, 0)
           chains == [h \in DOMAIN c.lens |->
                IF c.lens[h] = 0 THEN <<>> ELSE <<[delta |-> 0, value |-> c.curval[h]]>>]
<1>1. /\ b \in Contexts /\ b.curtime = 0 /\ b.initialTime = FALSE
      /\ b.lens = c.lens /\ b.locked = c.locked
  BY FirstTimeOK
<1>2. \A h \in DOMAIN c.lens : c.curval[h] \in Vals
  BY Slots DEF Contexts
<1>3. chains \in Seq(Seq(Changes))
  <2>1. ASSUME NEW h \in DOMAIN c.lens
        PROVE  chains[h] \in Seq(Changes)
    <3>1. [delta |-> 0, value |-> c.curval[h]] \in Changes
      BY <1>2 DEF Changes
    <3>2. <<[delta |-> 0, value |-> c.curval[h]]>> \in Seq(Changes) /\ <<>> \in Seq(Changes)
      BY <3>1
    <3> QED
      BY <3>2
  <2>2. DOMAIN chains = 1..Len(c.lens) /\ chains = [h \in DOMAIN chains |-> chains[h]]
    BY Slots
  <2> HIDE DEF chains
  <2> QED
    BY <2>1, <2>2, Slots, FunctionIsSeq
<1>4. Mocked(c) = [b EXCEPT !.vchg = chains]
  BY DEF Mocked
<1> HIDE DEF b, chains
<1> QED
  BY <1>1, <1>3, <1>4 DEF Contexts

------------------------------------------------------------------------------
(* Files. *)

\* The finished blocks of f are in g.
Stay(f, g) ==
    \A k \in DOMAIN f.sections :
        f.sections[k].tag = "vcdata" =>
            k \in DOMAIN g.sections /\ g.sections[k] = f.sections[k]

\* A sequence is one of its own elements.
LEMMA SelfTyped ==
  ASSUME NEW S, NEW s \in Seq(S)
  PROVE  s \in Seq(ToSet(s))
<1>1. DOMAIN s = 1..Len(s) /\ Len(s) \in Nat /\ s = [k \in DOMAIN s |-> s[k]]
  OBVIOUS
<1>2. \A k \in 1..Len(s) : s[k] \in ToSet(s)
  BY <1>1 DEF ToSet
<1> QED
  BY <1>1, <1>2, FunctionIsSeq

\* The blocks of a file are numbered from 1.
LEMMA SectionsAre ==
  ASSUME NEW f, IsFile(f)
  PROVE  /\ Len(f.sections) \in Nat
         /\ DOMAIN f.sections = 1..Len(f.sections)
         /\ f.sections = <<>> <=> Len(f.sections) = 0
BY DEF IsFile, FilesOf

\* A file with other blocks.
LEMMA OtherSections ==
  ASSUME NEW f, IsFile(f), NEW S, NEW s \in Seq(S),
         \A k \in DOMAIN s : IsBlock(s[k])
  PROVE  LET g == [f EXCEPT !.sections = s]
         IN  IsFile(g) /\ g.sections = s /\ g.hier = f.hier
<1> DEFINE g == [f EXCEPT !.sections = s]
<1>1. g.sections = s /\ g.hier = f.hier
  BY DEF IsFile, FilesOf
<1>2. g \in FilesOf(ToSet(s))
  BY SelfTyped DEF IsFile, FilesOf
<1> HIDE DEF g
<1>3. IsFile(g)
  BY <1>1, <1>2 DEF IsFile
<1> QED
  BY <1>1, <1>3 DEF g

\* fstWriterEmitSectionHeader adds an open block.
LEMMA WithHeaderIs ==
  ASSUME NEW f, IsFile(f), NEW c \in Contexts
  PROVE  LET g == WithHeader(f, c)
             n == Len(f.sections)
         IN  /\ IsFile(g) /\ g.hier = f.hier
             /\ Len(g.sections) = n + 1
             /\ \A k \in DOMAIN f.sections : g.sections[k] = f.sections[k]
             /\ g.sections[n + 1].tag = "skip"
             /\ g.sections[n + 1].begin = IF c.initialTime THEN c.firsttime ELSE c.curtime
<1> DEFINE g == WithHeader(f, c)
           e == HeaderOf(c)
           s == Append(f.sections, e)
<1>1. /\ IsBlock(e) /\ e.tag = "skip"
      /\ e.begin = IF c.initialTime THEN c.firsttime ELSE c.curtime
  BY DEF HeaderOf, IsBlock, Contexts
<1> HIDE DEF e
<1>2. f.sections \in Seq(ToSet(f.sections) \cup {e})
  BY DEF IsFile, FilesOf
<1>3. /\ s \in Seq(ToSet(f.sections) \cup {e}) /\ Len(s) = Len(f.sections) + 1
      /\ DOMAIN s = 1..(Len(f.sections) + 1) /\ DOMAIN f.sections = 1..Len(f.sections)
      /\ \A k \in DOMAIN f.sections : s[k] = f.sections[k]
      /\ s[Len(f.sections) + 1] = e /\ Len(f.sections) \in Nat
  BY <1>2, AppendIs
<1> HIDE DEF s
<1>4. \A k \in DOMAIN s : IsBlock(s[k])
  <2>1. \A k \in DOMAIN f.sections : IsBlock(f.sections[k])
    BY DEF IsFile
  <2>2. \A k \in DOMAIN s : k \in DOMAIN f.sections \/ k = Len(f.sections) + 1
    BY <1>3
  <2> QED
    BY <1>1, <1>3, <2>1, <2>2
<1>5. g = [f EXCEPT !.sections = s]
  BY DEF WithHeader, s, e
<1>6. IsFile(g) /\ g.sections = s /\ g.hier = f.hier
  BY <1>3, <1>4, <1>5, OtherSections
<1> HIDE DEF g
<1>7. /\ Len(g.sections) = Len(f.sections) + 1
      /\ \A k \in DOMAIN f.sections : g.sections[k] = f.sections[k]
      /\ g.sections[Len(f.sections) + 1] = e
  BY <1>3, <1>6
<1> QED
  BY <1>1, <1>6, <1>7 DEF g

\* fstWriterFlushContextPrivate finishes the last.
LEMMA FinishedIs ==
  ASSUME NEW f, IsFile(f), NEW c \in Contexts, f.sections # <<>>,
         f.sections[Len(f.sections)].tag = "skip",
         f.sections[Len(f.sections)].begin <= c.curtime
  PROVE  LET g == Finished(f, c)
             n == Len(f.sections)
         IN  /\ IsFile(g) /\ g.hier = f.hier
             /\ Len(g.sections) = n
             /\ \A k \in DOMAIN f.sections : k # n => g.sections[k] = f.sections[k]
             /\ g.sections[n].tag = "vcdata"
             /\ g.sections[n].begin = f.sections[n].begin
             /\ g.sections[n].end = c.curtime
             /\ g.sections[n].times = c.tchn
<1> DEFINE g == Finished(f, c)
           n == Len(f.sections)
           e == Block(f.sections[n], c)
           s == [f.sections EXCEPT ![n] = e]
<1>1. n \in DOMAIN f.sections /\ n \in Nat
  BY SectionsAre
<1>2. IsBlock(f.sections[n])
  BY <1>1 DEF IsFile
<1>3. /\ IsBlock(e) /\ e.tag = "vcdata"
      /\ e.begin = f.sections[n].begin /\ e.end = c.curtime /\ e.times = c.tchn
  <2>1. /\ e.tag = "vcdata" /\ e.begin = f.sections[n].begin /\ e.end = c.curtime
        /\ e.frame = f.sections[n].frame /\ e.times = c.tchn
        /\ {"tag", "begin", "frame", "end", "times"} \subseteq DOMAIN e
    BY DEF Block
  <2> HIDE DEF e
  <2>2. c.curtime \in Nat /\ c.tchn \in Seq(Nat)
    BY DEF Contexts
  <2> QED
    BY <1>2, <2>1, <2>2 DEF IsBlock
<1>4. g = [f EXCEPT !.sections = s]
  BY DEF Finished, IsFile, FilesOf
<1> HIDE DEF e
<1>5. f.sections \in Seq(ToSet(f.sections) \cup {e})
  BY DEF IsFile, FilesOf
<1>6. /\ s \in Seq(ToSet(f.sections) \cup {e}) /\ Len(s) = n
      /\ DOMAIN s = DOMAIN f.sections /\ s[n] = e
      /\ \A k \in DOMAIN f.sections : k # n => s[k] = f.sections[k]
  BY <1>1, <1>5
<1> HIDE DEF s
<1>7. \A k \in DOMAIN s : IsBlock(s[k])
  BY <1>3, <1>6 DEF IsFile
<1>8. IsFile(g) /\ g.sections = s /\ g.hier = f.hier
  BY <1>4, <1>6, <1>7, OtherSections
<1> HIDE DEF g
<1>9. /\ Len(g.sections) = n /\ g.sections[n] = e
      /\ \A k \in DOMAIN f.sections : k # n => g.sections[k] = f.sections[k]
  BY <1>6, <1>8
<1> QED
  BY <1>3, <1>8, <1>9 DEF g

\* A cut takes the last block away.
LEMMA CutOffIs ==
  ASSUME NEW f, IsFile(f), f.sections # <<>>
  PROVE  LET g == [f EXCEPT !.sections = Front(@)]
             n == Len(f.sections)
         IN  /\ IsFile(g) /\ g.hier = f.hier
             /\ Len(g.sections) = n - 1
             /\ \A k \in 1..(n - 1) : g.sections[k] = f.sections[k]
<1> DEFINE g == [f EXCEPT !.sections = Front(@)]
           n == Len(f.sections)
           s == Front(f.sections)
<1>1. n \in Nat \ {0} /\ DOMAIN f.sections = 1..n
  BY SectionsAre
<1>2. s = SubSeq(f.sections, 1, n - 1) /\ f.sections \in Seq(ToSet(f.sections))
  BY DEF Front, IsFile, FilesOf
<1>3. /\ s \in Seq(ToSet(f.sections)) /\ Len(s) = n - 1 /\ DOMAIN s = 1..(n - 1)
      /\ \A k \in 1..(n - 1) : s[k] = f.sections[k]
  BY <1>1, <1>2
<1>4. g = [f EXCEPT !.sections = s]
  BY DEF IsFile, FilesOf
<1> HIDE DEF s
<1>5. \A k \in DOMAIN s : IsBlock(s[k])
  BY <1>1, <1>3 DEF IsFile
<1> HIDE DEF g
<1>6. IsFile(g) /\ g.sections = s /\ g.hier = f.hier
  BY <1>3, <1>4, <1>5, OtherSections
<1>7. /\ Len(g.sections) = n - 1
      /\ \A k \in 1..(n - 1) : g.sections[k] = f.sections[k]
  BY <1>3, <1>6
<1> QED
  BY <1>6, <1>7 DEF g

\* Blackouts are written as differences.
LEMMA BlackoutsOfIs ==
  ASSUME NEW c \in Contexts
  PROVE  BlackoutsOf(c) \in Seq(Switches)
<1> DEFINE b == BlackoutsOf(c)
<1>1. c.blackouts \in Seq(Blackouts)
  BY DEF Contexts
<1>2. /\ DOMAIN c.blackouts = 1..Len(c.blackouts) /\ Len(c.blackouts) \in Nat
      /\ \A k \in DOMAIN c.blackouts : c.blackouts[k] \in Blackouts
  BY <1>1
<1>3. \A k \in DOMAIN c.blackouts :
        c.blackouts[k].time \in Nat /\ c.blackouts[k].active \in BOOLEAN
  BY <1>2 DEF Blackouts
<1>4. ASSUME NEW k \in 1..Len(c.blackouts)
      PROVE  b[k] \in Switches
  <2>1. k # 1 => k - 1 \in DOMAIN c.blackouts
    BY <1>2
  <2>2. c.blackouts[k].time - (IF k = 1 THEN 0 ELSE c.blackouts[k - 1].time) \in Int
    BY <1>2, <1>3, <2>1
  <2> QED
    BY <1>2, <1>3, <2>2 DEF BlackoutsOf, Switches
<1>5. DOMAIN b = 1..Len(c.blackouts) /\ b = [k \in DOMAIN b |-> b[k]]
  BY <1>2 DEF BlackoutsOf
<1> HIDE DEF b
<1>6. b \in Seq(Switches)
  BY <1>2, <1>4, <1>5, FunctionIsSeq
<1> QED
  BY <1>6 DEF b

\* What fstWriterClose writes last leaves the blocks alone.
LEMMA FinalizedIs ==
  ASSUME NEW f, IsFile(f), NEW c \in Contexts
  PROVE  LET g == Finalized(f, c)
         IN  IsFile(g) /\ g.sections = f.sections /\ g.hier = c.lens
<1> DEFINE g == Finalized(f, c)
<1>1. c.lens \in Seq(Lengths) /\ c.firsttime \in Nat /\ c.curtime \in Nat
  BY DEF Contexts
<1>2. g.sections = f.sections /\ g.hier = c.lens
  BY DEF Finalized, IsFile, FilesOf
<1>3. g \in FilesOf(ToSet(f.sections))
  BY <1>1, BlackoutsOfIs DEF Finalized, IsFile, FilesOf, Headers
<1> HIDE DEF g
<1>4. IsFile(g)
  BY <1>2, <1>3 DEF IsFile
<1> QED
  BY <1>2, <1>4 DEF g

\* So does fstWriterCreateMmaps.
LEMMA WithMapsSavedIs ==
  ASSUME NEW f, IsFile(f), NEW c \in Contexts
  PROVE  LET g == WithMapsSaved(f, c)
         IN  IsFile(g) /\ g.sections = f.sections /\ g.hier = c.lens
<1> DEFINE g == WithMapsSaved(f, c)
<1>1. c.lens \in Seq(Lengths) /\ c.firsttime \in Nat /\ c.curtime \in Nat
  BY DEF Contexts
<1>2. g.sections = f.sections /\ g.hier = c.lens
  BY DEF WithMapsSaved, IsFile, FilesOf
<1>3. g \in FilesOf(ToSet(f.sections))
  BY <1>1 DEF WithMapsSaved, IsFile, FilesOf, Headers
<1> HIDE DEF g
<1>4. IsFile(g)
  BY <1>2, <1>3 DEF IsFile
<1> QED
  BY <1>2, <1>4 DEF g

------------------------------------------------------------------------------
(* What becomes of the blocks. *)

\* With the first time the file has one block, open, and the hierarchy.
LEMMA StartedFile ==
  ASSUME NEW f, IsFile(f), NEW c \in Contexts, Aligned(c), NEW t \in Nat,
         c.initialTime, ~c.locked, c.lens # <<>>, Ready(f, c)
  PROVE  LET g == FirstTimeFile(f, c, t)
         IN  /\ IsFile(g) /\ g.hier = c.lens
             /\ LastIsOpen(g) /\ Len(g.sections) = 1
             /\ g.sections[1].begin <= t
             /\ g.sections[1].begin = BeginTime(c, t).firsttime
             /\ Adjoin(g) /\ Stay(f, g)
<1> DEFINE m == IF c.mapped THEN f ELSE WithMapsSaved(f, c)
           b == BeginTime(c, t)
           g == WithHeader(m, b)
<1>1. IsFile(m) /\ m.sections = <<>> /\ m.hier = c.lens /\ f.sections = <<>>
  BY WithMapsSavedIs DEF Ready, Blocked, Described
<1>2. b \in Contexts /\ b.initialTime = c.initialTime /\ b.firsttime \in {0, t}
  BY BeginTimeOK
<1>3. FirstTimeFile(f, c, t) = g
  BY DEF FirstTimeFile
<1> HIDE DEF m, b
<1>4. Len(m.sections) = 0
  BY <1>1, SectionsAre
<1>5. /\ IsFile(g) /\ g.hier = m.hier /\ Len(g.sections) = 1
      /\ g.sections[1].tag = "skip" /\ g.sections[1].begin = b.firsttime
  <2>1. c.initialTime = TRUE
    BY DEF Contexts
  <2>2. /\ IsFile(g) /\ g.hier = m.hier /\ Len(g.sections) = Len(m.sections) + 1
        /\ g.sections[Len(m.sections) + 1].tag = "skip"
        /\ g.sections[Len(m.sections) + 1].begin = b.firsttime
    BY <1>1, <1>2, <2>1, WithHeaderIs
  <2> HIDE DEF g
  <2> QED
    BY <1>4, <2>2
<1> HIDE DEF g
<1>6. DOMAIN g.sections = 1..1 /\ g.sections # <<>>
  BY <1>5, SectionsAre
<1>7. LastIsOpen(g) /\ Adjoin(g) /\ g.sections[1].begin <= t
  BY <1>2, <1>5, <1>6 DEF LastIsOpen, Adjoin
<1>8. Stay(f, g)
  BY <1>1 DEF Stay
<1> QED
  BY <1>1, <1>3, <1>5, <1>7, <1>8 DEF b

\* Finishing the open block leaves none open, and the others as they are.
LEMMA FinishedFile ==
  ASSUME NEW f, IsFile(f), NEW c \in Contexts, LastIsOpen(f), Adjoin(f),
         f.sections[Len(f.sections)].begin <= c.curtime
  PROVE  LET g == Finished(f, c)
         IN  /\ IsFile(g) /\ g.hier = f.hier /\ g.sections # <<>>
             /\ AllFinished(g) /\ HasFlushed(g)
             /\ g.sections[Len(g.sections)].end = c.curtime
             /\ Adjoin(g) /\ Stay(f, g)
<1> DEFINE g == Finished(f, c)
           n == Len(f.sections)
<1>1. /\ IsFile(g) /\ g.hier = f.hier /\ Len(g.sections) = n
      /\ \A k \in DOMAIN f.sections : k # n => g.sections[k] = f.sections[k]
      /\ g.sections[n].tag = "vcdata"
      /\ g.sections[n].begin = f.sections[n].begin
      /\ g.sections[n].end = c.curtime
  <2>1. n \in DOMAIN f.sections
    BY SectionsAre DEF LastIsOpen
  <2>2. f.sections[n].tag = "skip"
    BY <2>1 DEF LastIsOpen
  <2> QED
    BY <2>2, FinishedIs DEF LastIsOpen
<1> HIDE DEF g
<1>2. /\ n \in Nat \ {0} /\ DOMAIN f.sections = 1..n /\ DOMAIN g.sections = 1..n
      /\ g.sections # <<>>
  BY <1>1, SectionsAre DEF LastIsOpen
<1>3. AllFinished(g) /\ HasFlushed(g)
  BY <1>1, <1>2 DEF AllFinished, HasFlushed, LastIsOpen
<1>4. Stay(f, g)
  BY <1>1, <1>2 DEF Stay, LastIsOpen
<1>5. Adjoin(g)
  BY <1>1, <1>2 DEF Adjoin
<1> QED
  BY <1>1, <1>2, <1>3, <1>4, <1>5 DEF g

\* The next block begins where the last has ended.
LEMMA NextBlock ==
  ASSUME NEW f, IsFile(f), NEW c \in Contexts, AllFinished(f), Adjoin(f),
         f.sections # <<>>, ~c.initialTime,
         f.sections[Len(f.sections)].end = c.curtime
  PROVE  LET g == WithHeader(f, c)
         IN  /\ IsFile(g) /\ g.hier = f.hier
             /\ LastIsOpen(g) /\ HasFlushed(g)
             /\ g.sections[Len(g.sections)].begin = c.curtime
             /\ Adjoin(g) /\ Stay(f, g)
<1> DEFINE g == WithHeader(f, c)
           n == Len(f.sections)
<1>1. /\ IsFile(g) /\ g.hier = f.hier /\ Len(g.sections) = n + 1
      /\ \A k \in DOMAIN f.sections : g.sections[k] = f.sections[k]
      /\ g.sections[n + 1].tag = "skip"
      /\ g.sections[n + 1].begin = c.curtime
  BY WithHeaderIs
<1> HIDE DEF g
<1>2. /\ n \in Nat \ {0} /\ DOMAIN f.sections = 1..n /\ DOMAIN g.sections = 1..(n + 1)
      /\ g.sections # <<>>
  BY <1>1, SectionsAre
<1>3. LastIsOpen(g) /\ HasFlushed(g)
  BY <1>1, <1>2 DEF LastIsOpen, AllFinished, HasFlushed
<1>4. Adjoin(g)
  <2> SUFFICES ASSUME NEW k \in DOMAIN g.sections, k > 1
               PROVE  /\ g.sections[k - 1].tag = "vcdata"
                      /\ g.sections[k].begin = g.sections[k - 1].end
    BY DEF Adjoin
  <2>1. CASE k = n + 1
    BY <1>1, <1>2, <2>1 DEF AllFinished
  <2>2. CASE k # n + 1
    <3>1. k \in DOMAIN f.sections /\ k - 1 \in DOMAIN f.sections
      BY <1>2, <2>2
    <3> QED
      BY <1>1, <3>1 DEF Adjoin
  <2> QED
    BY <2>1, <2>2
<1>5. Stay(f, g)
  BY <1>1, <1>2 DEF Stay
<1> QED
  BY <1>1, <1>3, <1>4, <1>5 DEF g

\* What is cut off is no finished block.
LEMMA CutOffFile ==
  ASSUME NEW f, IsFile(f), LastIsOpen(f), Adjoin(f)
  PROVE  LET g == [f EXCEPT !.sections = Front(@)]
         IN  /\ IsFile(g) /\ g.hier = f.hier
             /\ HasFlushed(f) => HasFlushed(g)
             /\ Adjoin(g) /\ Stay(f, g)
<1> DEFINE g == [f EXCEPT !.sections = Front(@)]
           n == Len(f.sections)
<1>1. /\ IsFile(g) /\ g.hier = f.hier /\ Len(g.sections) = n - 1
      /\ \A k \in 1..(n - 1) : g.sections[k] = f.sections[k]
  BY CutOffIs DEF LastIsOpen
<1> HIDE DEF g
<1>2. /\ n \in Nat \ {0} /\ DOMAIN f.sections = 1..n /\ DOMAIN g.sections = 1..(n - 1)
  BY <1>1, SectionsAre DEF LastIsOpen
<1>3. \A k \in DOMAIN f.sections : f.sections[k].tag = "vcdata" => k # n
  BY <1>2 DEF LastIsOpen
<1>4. HasFlushed(f) => HasFlushed(g)
  BY <1>1, <1>2, <1>3 DEF HasFlushed
<1>5. Adjoin(g)
  <2> SUFFICES ASSUME NEW k \in DOMAIN g.sections, k > 1
               PROVE  /\ g.sections[k - 1].tag = "vcdata"
                      /\ g.sections[k].begin = g.sections[k - 1].end
    BY DEF Adjoin
  <2>1. {k, k - 1} \subseteq 1..(n - 1) /\ k \in DOMAIN f.sections
    BY <1>2
  <2> QED
    BY <1>1, <2>1 DEF Adjoin
<1>6. Stay(f, g)
  BY <1>1, <1>2, <1>3 DEF Stay
<1> QED
  BY <1>1, <1>4, <1>5, <1>6 DEF g

------------------------------------------------------------------------------
(* The steps of the writer: files and blocks. *)

\* At first there is no block.
LEMMA Starts == Init => FstInv
<1> SUFFICES ASSUME Init PROVE FstInv
  OBVIOUS
<1> USE DEF Init, WriterInit, ReaderInit
<1>1. PICK limit \in SizeLimits : xc = [NoContext EXCEPT !.limit = limit]
  OBVIOUS
<1>2. limit \in Nat
  BY FstAssumption
<1>3. /\ xc \in Contexts /\ Aligned(xc)
      /\ xc.initialTime /\ ~xc.locked /\ ~xc.mapped
  <2>1. xc \in Contexts /\ Aligned(xc)
        /\ \A g \in {"mapped", "locked", "initialTime"} : xc[g] = NoContext[g]
    BY ONLY <1>1, <1>2, NoContextOK, MarkedOK
  <2>2. NoContext.initialTime /\ ~NoContext.locked /\ ~NoContext.mapped
    BY DEF NoContext
  <2> QED
    BY <2>1, <2>2
<1>4. IsFile(file) /\ file.sections = <<>>
  BY DEF NoFile, IsFile, FilesOf, Headers
<1>5. emitted \in Seq(Emissions) /\ past \in Pasts /\ past.saved = 0 /\ Len(emitted) = 0
  BY DEF Pasts
<1>6. Ready(file, xc) /\ BlocksAdjoin
  BY <1>3, <1>4 DEF Ready, Blocked, Described, BegunBy, BlocksAdjoin, Adjoin
<1> QED
  BY <1>3, <1>4, <1>5, <1>6 DEF FstInv, Types, Writing, Saved, Opened

\* A writer that is killed or crashes leaves the file as it is.
LEMMA LoseStep ==
  ASSUME FstInv, Lose, UNCHANGED readerVars
  PROVE  FstInv' /\ Stay(file, file')
<1> USE DEF Lose, Ended
<1>1. past.saved \in Nat /\ past.saved <= Len(emitted) /\ emitted \in Seq(Emissions)
  BY DEF FstInv, Types, Pasts, Saved
<1>2. /\ SubSeq(emitted, 1, past.saved) \in Seq(Emissions)
      /\ Len(SubSeq(emitted, 1, past.saved)) = past.saved
  BY <1>1
<1>3. past' \in Pasts /\ past'.saved = past.saved
  BY DEF FstInv, Types, Pasts
<1>4. Types'
  BY <1>2, <1>3, NoContextOK DEF FstInv, Types
<1>5. Aligned(xc)' /\ Writing' /\ BlocksAdjoin'
  BY NoContextOK DEF FstInv, Writing, BlocksAdjoin
<1>6. Saved' /\ Opened'
  BY <1>1, <1>2, <1>3 DEF FstInv, Saved, Opened, readerVars
<1>7. Stay(file, file')
  BY DEF Stay
<1> QED
  BY <1>4, <1>5, <1>6, <1>7 DEF FstInv

\* What a writer that goes on has to keep.
LEMMA GoesOn ==
  ASSUME FstInv, UNCHANGED readerVars, phase = "writing", phase' = "writing",
         xc' \in Contexts, Aligned(xc'), Ready(file', xc'),
         IsFile(file'), Adjoin(file'), Stay(file, file'), 
         file'.sections # <<>> => file'.hier # <<>>,
         emitted' \in Seq(Emissions), past' \in Pasts,
         past'.saved <= Len(emitted'),
         past'.saved > 0 => HasFlushed(file')
  PROVE  FstInv'
BY DEF FstInv, Types, Writing, BlocksAdjoin, Saved, Opened, readerVars

\* Nothing happens to the blocks of a file that is left alone.
LEMMA StayUnchanged == \A f : Stay(f, f)
BY DEF Stay

\* fstWriterCreateVar leaves the file alone.
LEMMA CreateVarStep ==
  ASSUME FstInv, NEW len \in Lengths, CreateVar(len), UNCHANGED readerVars
  PROVE  FstInv' /\ Stay(file, file')
<1> USE DEF CreateVar
<1>1. /\ xc' \in Contexts /\ Aligned(xc') /\ xc'.mapped = FALSE
      /\ \A f \in {"initialTime", "locked", "curtime"} : xc'[f] = xc[f]
  <2>1. xc \in Contexts /\ Aligned(xc)
    BY DEF FstInv, Types
  <2>2. xc' = [xc EXCEPT !.mapped = FALSE,
                         !.lens = Append(@, len),
                         !.curval = Append(@, Undefined(len)),
                         !.vchg = Append(@, <<>>),
                         !.lastIdx = Append(@, 0)]
    OBVIOUS
  <2> QED
    BY ONLY ZenonT(30), <2>1, <2>2, len \in Lengths, CreateVarOK
<1>2. Ready(file, xc')
  BY <1>1 DEF FstInv, Writing, Ready, Blocked, Described, BegunBy
<1>3. past' \in Pasts /\ past'.saved = past.saved
  BY DEF Extra, FstInv, Types, Pasts
<1> QED
  BY <1>1, <1>2, <1>3, GoesOn, StayUnchanged DEF FstInv, Types, Saved, BlocksAdjoin

\* A change that is counted.
LEMMA ChangeCounted ==
  ASSUME NEW p \in Pasts
  PROVE  [p EXCEPT !.changes = @ + 1] \in Pasts /\ [p EXCEPT !.changes = @ + 1].saved = p.saved
BY DEF Pasts

\* fstWriterEmitValueChange may bring the hierarchy to the disk.
LEMMA EmitValueChangeStep ==
  ASSUME FstInv, NEW h \in Handles, NEW value \in Values[xc.lens[h]],
         EmitValueChange(h, value), UNCHANGED readerVars
  PROVE  FstInv' /\ Stay(file, file')
<1> USE DEF EmitValueChange
<1>1. xc \in Contexts /\ Aligned(xc) /\ IsFile(file) /\ h \in DOMAIN xc.lens
  BY DEF FstInv, Types, Handles
<1>2. value \in Vals /\ h \in Nat
  <2>1. xc.lens[h] \in Lengths /\ h \in Nat
    BY <1>1, Slots DEF Contexts
  <2> QED
    BY <2>1 DEF Vals
<1> DEFINE m == [WithMaps(xc) EXCEPT !.vcEmitted = @ \/ ~xc.mapped]
<1>3. /\ m \in Contexts /\ Aligned(m) /\ m.mapped = TRUE /\ m.lens = xc.lens
      /\ \A f \in {"initialTime", "locked", "curtime"} : m[f] = xc[f]
  <2>1. \A v \in BOOLEAN : [WithMaps(xc) EXCEPT !.vcEmitted = v] \in Contexts
    BY <1>1 DEF WithMaps, Contexts
  <2>2. m \in Contexts
    BY <1>1, <2>1 DEF WithMaps, Contexts
  <2> QED
    BY <1>1, <2>2 DEF WithMaps, Contexts, Aligned
<1>4. xc' = Changed(m, h, value)
  OBVIOUS
<1> HIDE DEF m
<1>5. /\ xc' \in Contexts /\ Aligned(xc') /\ xc'.mapped = TRUE /\ xc'.lens = xc.lens
      /\ \A f \in {"initialTime", "locked", "curtime"} : xc'[f] = xc[f]
  BY <1>1, <1>2, <1>3, <1>4, ChangedOK
<1>6. /\ IsFile(file') /\ file'.sections = file.sections /\ file'.hier = xc.lens
  BY <1>1, WithMapsSavedIs DEF FstInv, Writing, Ready, Described
<1>7. Ready(file', xc') /\ (file'.sections # <<>> => file'.hier # <<>>)
  <2>1. Blocked(file', xc') /\ BegunBy(file', xc')
    BY <1>5, <1>6 DEF FstInv, Writing, Ready, Blocked, BegunBy, LastIsOpen, AllFinished
  <2>2. xc.lens # <<>>
    BY <1>1
  <2> QED
    BY <1>5, <1>6, <2>1, <2>2 DEF Ready, Described
<1>8. past' \in Pasts /\ past'.saved = past.saved
  <2>1. past \in Pasts
    BY DEF FstInv, Types
  <2>2. past' = [past EXCEPT !.changes = @ + 1]
    OBVIOUS
  <2> QED
    BY <2>1, <2>2, ChangeCounted
<1>9. /\ emitted' \in Seq(Emissions) /\ past.saved <= Len(emitted')
  <2>1. [time |-> xc.curtime, handle |-> h, value |-> value] \in Emissions
    BY <1>1, <1>2 DEF Emissions, Contexts
  <2>2. emitted \in Seq(Emissions) /\ past.saved <= Len(emitted) /\ past.saved \in Nat
    BY DEF FstInv, Types, Saved, Pasts
  <2> QED
    BY <2>1, <2>2, AppendIs
<1>10. /\ Adjoin(file') /\ Stay(file, file') /\ (past'.saved > 0 => HasFlushed(file'))
  BY <1>6, <1>8 DEF FstInv, BlocksAdjoin, Adjoin, Stay, Saved, HasFlushed
<1> QED
  BY <1>5, <1>6, <1>7, <1>8, <1>9, <1>10, GoesOn

\* The first fstWriterEmitTimeChange begins the first block.
LEMMA EmitFirstTimeStep ==
  ASSUME FstInv, NEW t \in EmitTimes, EmitFirstTime(t), UNCHANGED readerVars
  PROVE  FstInv' /\ Stay(file, file')
<1> USE DEF EmitFirstTime
<1>1. /\ xc \in Contexts /\ Aligned(xc) /\ IsFile(file) /\ t \in Nat
      /\ Ready(file, xc) /\ past \in Pasts /\ emitted \in Seq(Emissions)
      /\ past.saved <= Len(emitted)
  BY FstAssumption DEF FstInv, Types, Writing, Saved
<1>2. /\ IsFile(file') /\ file'.hier = xc.lens
      /\ LastIsOpen(file') /\ Len(file'.sections) = 1
      /\ file'.sections[1].begin <= t
      /\ Adjoin(file') /\ Stay(file, file')
  BY <1>1, StartedFile
<1>3. /\ xc' \in Contexts /\ Aligned(xc') /\ xc'.curtime = t
      /\ xc'.mapped = TRUE /\ xc'.initialTime = FALSE
      /\ xc'.lens = xc.lens /\ xc'.locked = xc.locked
  BY <1>1, FirstTimeOK
<1>4. Ready(file', xc')
  BY <1>2, <1>3 DEF Ready, Blocked, Described, BegunBy
<1>5. past.saved > 0 => FALSE
  BY <1>1 DEF Ready, Blocked, FstInv, Saved, HasFlushed
<1> QED
  BY <1>1, <1>2, <1>3, <1>4, <1>5, GoesOn

\* A time change that goes on in the block.
LEMMA NextTimeStep ==
  ASSUME FstInv, UNCHANGED readerVars, phase = "writing", phase' = "writing",
         NEW t \in Nat, t >= xc.curtime, ~xc.initialTime,
         xc' = NextTime(xc, t) \/ xc' = NextTime(RepeatTime(xc), t),
         file' = file, emitted' = emitted, past' \in Pasts, past'.saved = past.saved
  PROVE  FstInv' /\ Stay(file, file')
<1>1. /\ xc \in Contexts /\ Aligned(xc) /\ IsFile(file) /\ Ready(file, xc)
  BY DEF FstInv, Types, Writing
<1>2. /\ xc' \in Contexts /\ Aligned(xc') /\ xc'.curtime = t
      /\ \A f \in {"lens", "mapped", "initialTime", "locked"} : xc'[f] = xc[f]
  <2>1. CASE xc' = NextTime(xc, t)
    BY <1>1, <2>1, NextTimeOK
  <2>2. CASE xc' = NextTime(RepeatTime(xc), t)
    <3> DEFINE r == RepeatTime(xc)
    <3>1. /\ r \in Contexts /\ Aligned(r) /\ r.curtime = xc.curtime
          /\ \A f \in {"lens", "mapped", "initialTime", "locked"} : r[f] = xc[f]
      BY <1>1, RepeatTimeOK
    <3> HIDE DEF r
    <3>2. /\ NextTime(r, t) \in Contexts /\ Aligned(NextTime(r, t))
          /\ NextTime(r, t).curtime = t
          /\ \A f \in {"lens", "mapped", "initialTime", "locked"} : NextTime(r, t)[f] = r[f]
      BY <3>1, NextTimeOK
    <3> QED
      BY <2>2, <3>1, <3>2 DEF r
  <2> QED
    BY <2>1, <2>2
<1>3. Ready(file, xc')
  <2>1. LastIsOpen(file)
    BY <1>1 DEF Ready, Blocked
  <2>2. file.sections[Len(file.sections)].begin \in Nat /\ xc.curtime \in Nat
    BY <1>1, <2>1, SectionsAre DEF IsFile, IsBlock, LastIsOpen, Contexts
  <2> QED
    BY <1>1, <1>2, <2>2 DEF Ready, Blocked, Described, BegunBy
<1> QED
  BY <1>1, <1>2, <1>3, GoesOn, StayUnchanged
     DEF FstInv, Types, Saved, BlocksAdjoin, Ready, Described

\* A time change that finishes the block, and begins the next if the file is
\* not full.
LEMMA FlushStep ==
  ASSUME FstInv, UNCHANGED readerVars, phase = "writing", phase' = "writing",
         NEW t \in Nat, t >= xc.curtime, ~xc.initialTime,
         xc' = WithTime([RepeatTime(AfterFlush(file, xc)) EXCEPT !.tchnIdx = @ + 1], t),
         file' = FileAfterFlush(file, xc),
         emitted' = emitted, past' \in Pasts, past'.saved = Len(emitted)
  PROVE  FstInv' /\ Stay(file, file')
<1>1. /\ xc \in Contexts /\ Aligned(xc) /\ IsFile(file) /\ Ready(file, xc)
      /\ emitted \in Seq(Emissions)
  BY DEF FstInv, Types, Writing
<1> DEFINE a == AfterFlush(file, xc)
           r == RepeatTime(a)
           n == [r EXCEPT !.tchnIdx = @ + 1]
           f == Finished(file, xc)
<1>2. /\ a \in Contexts /\ Aligned(a) /\ a.lens = xc.lens /\ a.mapped = xc.mapped
      /\ a.curtime = xc.curtime
      /\ a.locked = IF Full(file, xc) THEN TRUE ELSE xc.locked
      /\ a.initialTime = IF Full(file, xc) THEN TRUE ELSE xc.initialTime
  BY <1>1, AfterFlushOK
<1>3. xc' = WithTime(n, t)
  OBVIOUS
<1> HIDE DEF a
<1>4. /\ r \in Contexts /\ Aligned(r)
      /\ \A x \in {"lens", "mapped", "initialTime", "locked", "curtime"} : r[x] = a[x]
  BY <1>2, RepeatTimeOK
<1> HIDE DEF r
<1>5. /\ n \in Contexts /\ Aligned(n)
      /\ \A x \in {"lens", "mapped", "initialTime", "locked", "curtime"} : n[x] = r[x]
  BY <1>4, CountedOK
<1> HIDE DEF n
<1>6. /\ xc' \in Contexts /\ Aligned(xc') /\ xc'.curtime = t
      /\ \A x \in {"lens", "mapped", "initialTime", "locked"} : xc'[x] = a[x]
  BY <1>2, <1>3, <1>4, <1>5, WithTimeOK
<1>7. LastIsOpen(file) /\ file.sections[Len(file.sections)].begin <= xc.curtime
  BY <1>1 DEF Ready, Blocked, BegunBy
<1>8. /\ IsFile(f) /\ f.hier = file.hier /\ f.sections # <<>>
      /\ AllFinished(f) /\ HasFlushed(f)
      /\ f.sections[Len(f.sections)].end = xc.curtime
      /\ Adjoin(f) /\ Stay(file, f)
  BY <1>1, <1>7, FinishedFile DEF FstInv, BlocksAdjoin
<1>9. file.sections # <<>> /\ file.hier # <<>>
  BY <1>1, <1>7 DEF Ready, Described, LastIsOpen
<1>10. CASE Full(file, xc)
  <2>1. file' = f
    BY <1>10 DEF FileAfterFlush
  <2>2. Ready(file', xc')
    BY <1>1, <1>2, <1>6, <1>8, <1>9, <1>10, <2>1 DEF Ready, Blocked, Described, BegunBy
  <2> QED
    BY <1>1, <1>6, <1>8, <1>9, <2>1, <2>2, GoesOn
<1>11. CASE ~Full(file, xc)
  <2> DEFINE e == Emptied(xc)
  <2>1. file' = WithHeader(f, e)
    BY <1>11 DEF FileAfterFlush
  <2>2. e \in Contexts /\ e.initialTime = xc.initialTime /\ e.curtime = xc.curtime
    BY <1>1, EmptiedOK
  <2> HIDE DEF e, f
  <2>3. /\ IsFile(file') /\ file'.hier = f.hier
        /\ LastIsOpen(file') /\ HasFlushed(file')
        /\ file'.sections[Len(file'.sections)].begin = xc.curtime
        /\ Adjoin(file') /\ Stay(f, file')
    BY <1>8, <2>1, <2>2, NextBlock
  <2>4. Stay(file, file')
    BY <1>8, <2>3 DEF Stay
  <2>5. Ready(file', xc')
    BY <1>1, <1>2, <1>6, <1>8, <1>9, <1>11, <2>3 DEF Ready, Blocked, Described, BegunBy
  <2> QED
    BY <1>1, <1>6, <1>8, <1>9, <2>3, <2>4, <2>5, GoesOn
<1> QED
  BY <1>10, <1>11

\* A time change does one of these, or the writer crashes.
LEMMA EmitTimeChangeStep ==
  ASSUME FstInv, NEW t \in EmitTimes, EmitTimeChange(t), UNCHANGED readerVars
  PROVE  FstInv' /\ Stay(file, file')
<1>1. /\ phase = "writing" /\ ~xc.initialTime /\ t \in Nat /\ t >= xc.curtime
  BY FstAssumption DEF EmitTimeChange
<1>2. /\ past \in Pasts /\ emitted \in Seq(Emissions) /\ Len(emitted) \in Nat
      /\ Extra(t = xc.curtime) \in Pasts
      /\ Extra(t = xc.curtime).saved = past.saved
  BY DEF FstInv, Types, Pasts, Extra
<1>3. CASE MustFlush(xc) /\ Crashes(xc)
  BY <1>3, LoseStep DEF EmitTimeChange
<1>4. CASE MustFlush(xc) /\ ~Crashes(xc) /\ Pending(xc) > 0
  <2>1. /\ xc' = WithTime([RepeatTime(AfterFlush(file, xc)) EXCEPT !.tchnIdx = @ + 1], t)
        /\ file' = FileAfterFlush(file, xc)
        /\ past' = [Extra(t = xc.curtime) EXCEPT !.saved = Len(emitted)]
        /\ phase' = phase /\ emitted' = emitted
    BY <1>4 DEF EmitTimeChange
  <2>2. past' \in Pasts /\ past'.saved = Len(emitted)
    BY <1>2, <2>1 DEF Pasts
  <2> QED
    BY <1>1, <2>1, <2>2, FlushStep
<1>5. CASE MustFlush(xc) /\ ~Crashes(xc) /\ ~(Pending(xc) > 0)
  <2>1. /\ xc' = NextTime(RepeatTime(xc), t)
        /\ past' = [Extra(t = xc.curtime) EXCEPT !.idleFlush = TRUE]
        /\ phase' = phase /\ file' = file /\ emitted' = emitted
    BY <1>5 DEF EmitTimeChange
  <2>2. past' \in Pasts /\ past'.saved = past.saved
    BY <1>2, <2>1 DEF Pasts
  <2> QED
    BY <1>1, <2>1, <2>2, NextTimeStep
<1>6. CASE ~MustFlush(xc)
  <2>1. /\ xc' = NextTime(xc, t) /\ past' = Extra(t = xc.curtime)
        /\ phase' = phase /\ file' = file /\ emitted' = emitted
    BY <1>6 DEF EmitTimeChange
  <2> QED
    BY <1>1, <1>2, <2>1, NextTimeStep
<1> QED
  BY <1>3, <1>4, <1>5, <1>6

\* fstWriterFlushContext only asks for a flush.
LEMMA FlushContextStep ==
  ASSUME FstInv, FlushContext, UNCHANGED readerVars
  PROVE  FstInv' /\ Stay(file, file')
<1> USE DEF FlushContext
<1>1. xc \in Contexts /\ Aligned(xc) /\ Ready(file, xc)
  BY DEF FstInv, Types, Writing
<1>2. /\ xc' \in Contexts /\ Aligned(xc')
      /\ \A f \in {"lens", "mapped", "initialTime", "locked", "curtime"} : xc'[f] = xc[f]
  BY <1>1 DEF Contexts, Aligned
<1>3. Ready(file, xc')
  BY <1>1, <1>2 DEF Ready, Blocked, Described, BegunBy
<1>4. past' \in Pasts /\ past'.saved = past.saved
  BY DEF Extra, FstInv, Types, Pasts
<1> QED
  BY <1>2, <1>3, <1>4, GoesOn, StayUnchanged DEF FstInv, Types, Saved, BlocksAdjoin

\* A blackout is kept in memory.
LEMMA EmitDumpActiveStep ==
  ASSUME FstInv, NEW active \in BOOLEAN, EmitDumpActive(active), UNCHANGED readerVars
  PROVE  FstInv' /\ Stay(file, file')
<1> USE DEF EmitDumpActive
<1>1. xc \in Contexts /\ Aligned(xc) /\ Ready(file, xc)
  BY DEF FstInv, Types, Writing
<1> DEFINE b == [time |-> xc.curtime, active |-> active]
<1>2. b \in Blackouts
  BY <1>1 DEF Contexts, Blackouts
<1> HIDE DEF b
<1>3. /\ Append(xc.blackouts, b) \in Seq(Blackouts)
      /\ Append(past.blackouts, b) \in Seq(Blackouts)
  BY <1>1, <1>2 DEF Contexts, FstInv, Types, Pasts
<1>4. /\ xc' = [xc EXCEPT !.blackouts = Append(@, b)]
      /\ past' = [past EXCEPT !.changes = @ + 1, !.blackouts = Append(@, b)]
  BY DEF b
<1>5. /\ xc' \in Contexts /\ Aligned(xc')
      /\ \A f \in {"lens", "mapped", "initialTime", "locked", "curtime"} : xc'[f] = xc[f]
  BY <1>1, <1>3, <1>4 DEF Contexts, Aligned
<1>6. Ready(file, xc')
  BY <1>1, <1>5 DEF Ready, Blocked, Described, BegunBy
<1>7. past' \in Pasts /\ past'.saved = past.saved
  <2>1. past \in Pasts
    BY DEF FstInv, Types
  <2>2. ASSUME NEW n \in Nat, NEW s \in Seq(Blackouts)
        PROVE  /\ [past EXCEPT !.changes = n, !.blackouts = s] \in Pasts
               /\ [past EXCEPT !.changes = n, !.blackouts = s].saved = past.saved
    BY <2>1 DEF Pasts
  <2>3. past.changes + 1 \in Nat
    BY <2>1 DEF Pasts
  <2>4. past' = [past EXCEPT !.changes = past.changes + 1,
                             !.blackouts = Append(past.blackouts, b)]
    BY <1>4
  <2> QED
    BY ONLY <1>3, <2>2, <2>3, <2>4
<1> QED
  BY <1>5, <1>6, <1>7, GoesOn, StayUnchanged DEF FstInv, Types, Saved, BlocksAdjoin

\* What a closed file has to keep.
LEMMA ClosedStep ==
  ASSUME FstInv, UNCHANGED readerVars, NEW g, ClosedAs(g), IsFile(g),
         g.hier # <<>>, Adjoin(g), Stay(file, g), past.saved > 0 => HasFlushed(g)
  PROVE  FstInv' /\ Stay(file, file')
<1> USE DEF ClosedAs, Ended
<1>1. past' \in Pasts /\ past'.saved = past.saved
  BY DEF FstInv, Types, Pasts
<1>2. Types' /\ Aligned(xc)' /\ Writing' /\ BlocksAdjoin'
  BY <1>1, NoContextOK DEF FstInv, Types, Writing, BlocksAdjoin
<1>3. Saved' /\ Opened'
  BY <1>1 DEF FstInv, Saved, Opened, readerVars
<1> QED
  BY <1>2, <1>3 DEF FstInv

\* Closing a file whose last block is open, with or without changes in it.
LEMMA CloseFlushingStep ==
  ASSUME FstInv, UNCHANGED readerVars, NEW f, NEW c \in Contexts,
         CloseFlushing(f, c), IsFile(f), c.lens # <<>>,
         LastIsOpen(f), f.sections[Len(f.sections)].begin <= c.curtime,
         Adjoin(f), Stay(file, f), past.saved > 0 => HasFlushed(f)
  PROVE  FstInv' /\ Stay(file, file')
<1>1. CASE Pending(c) = 0
  <2> DEFINE g == Finalized(f, c)
  <2>1. ClosedAs(g)
    BY <1>1 DEF CloseFlushing
  <2>2. IsFile(g) /\ g.sections = f.sections /\ g.hier = c.lens
    BY FinalizedIs
  <2> HIDE DEF g
  <2>3. Adjoin(g) /\ Stay(file, g) /\ (past.saved > 0 => HasFlushed(g))
    BY <2>2 DEF Adjoin, Stay, HasFlushed
  <2> QED
    BY <2>1, <2>2, <2>3, ClosedStep
<1>2. CASE Pending(c) # 0 /\ Crashes(c)
  BY <1>2, LoseStep DEF CloseFlushing
<1>3. CASE Pending(c) # 0 /\ ~Crashes(c)
  <2> DEFINE e == Finished(f, c)
             g == Finalized(e, c)
  <2>1. ClosedAs(g)
    BY <1>3 DEF CloseFlushing
  <2>2. IsFile(e) /\ HasFlushed(e) /\ Adjoin(e) /\ Stay(f, e)
    BY FinishedFile
  <2> HIDE DEF e
  <2>3. IsFile(g) /\ g.sections = e.sections /\ g.hier = c.lens
    BY <2>2, FinalizedIs
  <2> HIDE DEF g
  <2>4. Stay(file, e)
    BY <2>2 DEF Stay
  <2>5. Adjoin(g) /\ Stay(file, g) /\ HasFlushed(g)
    BY <2>2, <2>3, <2>4 DEF Adjoin, Stay, HasFlushed
  <2> QED
    BY <2>1, <2>3, <2>5, ClosedStep
<1> QED
  BY <1>1, <1>2, <1>3

\* fstWriterClose: a header without changes is cut off, a full file is left as
\* it is, a time is made up when there was none, and the last block finished.
LEMMA CloseStep ==
  ASSUME FstInv, Close, UNCHANGED readerVars
  PROVE  FstInv' /\ Stay(file, file')
<1>1. /\ phase = "writing" /\ xc.lens # <<>>
      /\ xc \in Contexts /\ Aligned(xc) /\ IsFile(file) /\ Ready(file, xc)
      /\ Adjoin(file) /\ (past.saved > 0 => HasFlushed(file))
  BY DEF Close, FstInv, Types, Writing, BlocksAdjoin, Saved
<1>2. CASE CutOff(file, xc)
  <2> DEFINE e == [file EXCEPT !.sections = Front(@)]
             g == Finalized(e, xc)
  <2>1. ClosedAs(g)
    BY <1>2 DEF Close
  <2>2. LastIsOpen(file)
    BY <1>1, <1>2 DEF CutOff, Ready, Blocked
  <2>3. /\ IsFile(e) /\ (HasFlushed(file) => HasFlushed(e)) /\ Adjoin(e) /\ Stay(file, e)
    BY <1>1, <2>2, CutOffFile
  <2> HIDE DEF e
  <2>4. IsFile(g) /\ g.sections = e.sections /\ g.hier = xc.lens
    BY <1>1, <2>3, FinalizedIs
  <2> HIDE DEF g
  <2>5. Adjoin(g) /\ Stay(file, g) /\ (past.saved > 0 => HasFlushed(g))
    BY <1>1, <2>3, <2>4 DEF Adjoin, Stay, HasFlushed
  <2> QED
    BY <1>1, <2>1, <2>4, <2>5, ClosedStep
<1>3. CASE ~CutOff(file, xc) /\ xc.locked
  <2> DEFINE g == Finalized(file, xc)
  <2>1. ClosedAs(g)
    BY <1>3 DEF Close
  <2>2. IsFile(g) /\ g.sections = file.sections /\ g.hier = xc.lens
    BY <1>1, FinalizedIs
  <2> HIDE DEF g
  <2>3. Adjoin(g) /\ Stay(file, g) /\ (past.saved > 0 => HasFlushed(g))
    BY <1>1, <2>2 DEF Adjoin, Stay, HasFlushed
  <2> QED
    BY <1>1, <2>1, <2>2, <2>3, ClosedStep
<1>4. CASE ~CutOff(file, xc) /\ ~xc.locked /\ xc.initialTime
  <2> DEFINE f == MockedFile(file, xc)
             c == Mocked(xc)
  <2>1. CloseFlushing(f, c)
    BY <1>4 DEF Close
  <2>2. /\ IsFile(f) /\ LastIsOpen(f) /\ Len(f.sections) = 1
        /\ f.sections[1].begin <= 0 /\ Adjoin(f) /\ Stay(file, f)
    BY <1>1, <1>4, StartedFile DEF MockedFile
  <2>3. c \in Contexts /\ c.lens = xc.lens /\ c.curtime = 0
    BY <1>1, MockedOK
  <2>4. past.saved > 0 => FALSE
    BY <1>1, <1>4 DEF Ready, Blocked, HasFlushed
  <2> HIDE DEF f, c
  <2> QED
    BY <1>1, <2>1, <2>2, <2>3, <2>4, CloseFlushingStep
<1>5. CASE ~CutOff(file, xc) /\ ~xc.locked /\ ~xc.initialTime
  <2>1. CloseFlushing(file, xc)
    BY <1>5 DEF Close
  <2>2. LastIsOpen(file) /\ file.sections[Len(file.sections)].begin <= xc.curtime
    BY <1>1, <1>5 DEF Ready, Blocked, BegunBy
  <2> QED
    BY <1>1, <2>1, <2>2, StayUnchanged, CloseFlushingStep
<1> QED
  BY <1>2, <1>3, <1>4, <1>5

\* Every step of the writer keeps the invariant and the finished blocks.
LEMMA WriteStep ==
  ASSUME FstInv, Write
  PROVE  FstInv' /\ Stay(file, file')
<1> USE DEF Write, WriterNext
<1>1. CASE \E len \in Lengths : CreateVar(len)
  BY <1>1, CreateVarStep
<1>2. CASE \E h \in Handles : \E v \in Values[xc.lens[h]] : EmitValueChange(h, v)
  BY <1>2, EmitValueChangeStep
<1>3. CASE \E t \in EmitTimes : EmitFirstTime(t) \/ EmitTimeChange(t)
  BY <1>3, EmitFirstTimeStep, EmitTimeChangeStep
<1>4. CASE FlushContext
  BY <1>4, FlushContextStep
<1>5. CASE \E active \in BOOLEAN : EmitDumpActive(active)
  BY <1>5, EmitDumpActiveStep
<1>6. CASE Close
  BY <1>6, CloseStep
<1>7. CASE Die
  BY <1>7, LoseStep DEF Die
<1> QED
  BY <1>1, <1>2, <1>3, <1>4, <1>5, <1>6, <1>7 DEF Lengths

------------------------------------------------------------------------------
(* The steps of the reader: the file stays. *)

\* A file with saved changes has what fstReaderOpen needs.
LEMMA OpenFileStep ==
  ASSUME FstInv, NEW request \in Requests, OpenFile(request), UNCHANGED writerVars
  PROVE  Opened'
<1> SUFFICES ASSUME rd'.pc = "failed"
             PROVE  phase # "writing" /\ past.saved = 0
  BY DEF Opened, writerVars
<1>1. phase # "writing" /\ ~Readable(file)
  BY DEF OpenFile, OpenedAs
<1>2. past.saved > 0 => Readable(file)
  <2> SUFFICES ASSUME past.saved > 0
               PROVE  Readable(file)
    OBVIOUS
  <2>1. HasFlushed(file)
    BY DEF FstInv, Saved
  <2>2. file.sections # <<>>
    BY <2>1 DEF HasFlushed
  <2>3. file.hier # <<>>
    BY <2>2 DEF FstInv, Saved
  <2> QED
    BY <2>1, <2>3 DEF Readable, SignalLens
<1>3. past.saved \in Nat
  BY DEF FstInv, Types, Pasts
<1> QED
  BY <1>1, <1>2, <1>3

\* The reader leaves the file alone.
LEMMA ReadStep ==
  ASSUME FstInv, Read
  PROVE  FstInv' /\ Stay(file, file')
<1>1. UNCHANGED writerVars
  BY DEF Read
<1>2. Opened'
  <2>1. CASE \E request \in Requests : OpenFile(request)
    BY <1>1, <2>1, OpenFileStep
  <2>2. CASE \E t \in EmitTimes : rd.pc = "open" /\ \E h \in DOMAIN rd.lens : Lookup(h, t)
    <3>1. rd'.pc # "failed"
      BY <2>2 DEF Lookup
    <3> QED
      BY <3>1 DEF Opened
  <2>3. CASE rd' = rd
    BY <1>1, <2>3 DEF FstInv, Opened, writerVars
  <2> QED
    BY <2>1, <2>2, <2>3 DEF Read, ReaderNext, EndOfFile, SkipBlock, EndOfRange, LoadBlock,
                            DeliverChange, NextTimeIndex, EndOfBlock
<1>3. Types' /\ Aligned(xc)' /\ Writing' /\ BlocksAdjoin' /\ Saved'
  BY <1>1 DEF writerVars, FstInv, Types, Writing, BlocksAdjoin, Saved
<1> QED
  BY <1>1, <1>2, <1>3, StayUnchanged DEF FstInv, writerVars

\* The invariant holds in every state of every dump and every reader of it.
LEMMA Invariance == Spec => []FstInv
<1>1. FstInv /\ [Next]_vars => FstInv'
  <2>1. ASSUME FstInv, UNCHANGED vars
        PROVE  FstInv'
    BY <2>1 DEF vars, writerVars, readerVars, FstInv, Types, Writing, BlocksAdjoin,
                Saved, Opened
  <2> QED
    BY <2>1, WriteStep, ReadStep DEF Next
<1> QED
  BY Starts, <1>1, PTL DEF Spec

\* A context with its slots has the types of WriterTypeOK.
LEMMA WriterTypesHold ==
  ASSUME FstInv
  PROVE  WriterTypeOK
<1>1. xc \in Contexts /\ Aligned(xc) /\ phase \in {"writing", "closed", "dead"}
  BY DEF FstInv, Types
<1>2. ASSUME NEW h \in Handles, NEW k \in DOMAIN xc.vchg[h]
      PROVE  xc.vchg[h][k].delta \in 0..xc.tchnIdx
  <2>1. xc.vchg[h] \in Seq(Changes) /\ xc.tchnIdx \in Nat
    BY <1>1, Slots DEF Contexts, Handles
  <2>2. xc.vchg[h][k] \in Changes
    BY <2>1
  <2>3. xc.vchg[h][k].delta \in Nat
    BY <2>2 DEF Changes
  <2> QED
    BY <1>1, <2>1, <2>3 DEF Aligned, Handles
<1>3. \A f \in {"curval", "vchg", "lastIdx"} : DOMAIN xc[f] = Handles
  BY <1>1, Slots DEF Handles
<1> QED
  BY <1>1, <1>2, <1>3 DEF WriterTypeOK

------------------------------------------------------------------------------
(* Times and blackouts. *)

\* The times of a table lie between begin and end.
Within(deltas, begin, end) ==
    \A k \in DOMAIN deltas : Times(deltas)[k] \in begin..end

\* The times of every finished block lie between its begin and its end.
TablesWithin(f) ==
    \A k \in Blocks(f) : Within(f.sections[k].times, f.sections[k].begin, f.sections[k].end)

\* The last time of a table, or 0 when there is none.
EndsAt(deltas, t) == IF deltas = <<>> THEN t = 0 ELSE Times(deltas)[Len(deltas)] = t

\* The table of the open block starts at its begin or later and ends now; no
\* time is in it before the first.
TableEndsNow(f, c) ==
    /\ ~c.initialTime => /\ EndsAt(c.tchn, c.curtime)
                         /\ Within(c.tchn, f.sections[Len(f.sections)].begin, c.curtime)
    /\ c.initialTime /\ ~c.locked => c.tchn = <<>>

\* The finished blocks lie between two times.
Spanned(f, start, end) ==
    \A k \in Blocks(f) : start <= f.sections[k].begin /\ f.sections[k].end <= end

\* The open block too has begun after the first time.
SpannedBy(f, c) ==
    /\ Spanned(f, c.firsttime, c.curtime)
    /\ ~c.initialTime => c.firsttime <= f.sections[Len(f.sections)].begin

\* What the writer keeps of the times.
TimesInv ==
    /\ ~past.idleFlush => TablesWithin(file)
    /\ phase = "writing" => /\ ~past.idleFlush => TableEndsNow(file, xc)
                            /\ xc.initialTime /\ ~xc.locked => xc.curtime = 0
                            /\ SpannedBy(file, xc)
    /\ phase = "closed" => Spanned(file, file.header.start, file.header.end)

\* Blackouts come in the order of their times.
InOrder(blackouts) ==
    \A j, k \in DOMAIN blackouts : j < k => blackouts[j].time <= blackouts[k].time

\* What the writer keeps of the blackouts.
BlackoutsInv ==
    /\ InOrder(past.blackouts)
    /\ phase = "writing" =>
          /\ xc.blackouts = past.blackouts
          /\ \A k \in DOMAIN xc.blackouts : xc.blackouts[k].time <= xc.curtime
    /\ phase = "closed" => BlackoutTimes(file) = past.blackouts
    /\ phase # "closed" => file.blackouts = <<>>

------------------------------------------------------------------------------
(* Running sums. *)

\* The running sums of the first n differences.
IsSum(g, deltas, n) ==
    g = [k \in 0..n |-> IF k = 0 THEN 0 ELSE g[k - 1] + deltas[k]]

\* There are running sums of any sequence.
LEMMA SumsExist ==
  ASSUME NEW deltas \in Seq(Int)
  PROVE  \A n \in 0..Len(deltas) : \E g : IsSum(g, deltas, n) /\ \A k \in 0..n : g[k] \in Int
<1> DEFINE m == Len(deltas)
           S == {n \in 0..m : \E g : IsSum(g, deltas, n) /\ \A k \in 0..n : g[k] \in Int}
<1>1. m \in Nat /\ DOMAIN deltas = 1..m /\ \A k \in 1..m : deltas[k] \in Int
  OBVIOUS
<1>2. 0 \in S
  <2> DEFINE g == [k \in 0..0 |-> 0]
  <2>1. IsSum(g, deltas, 0) /\ \A k \in 0..0 : g[k] \in Int
    BY DEF IsSum
  <2> HIDE DEF g
  <2> QED
    BY <1>1, <2>1
<1>3. ASSUME NEW n \in 0..(m - 1), n \in S
      PROVE  n + 1 \in S
  <2>1. PICK g : IsSum(g, deltas, n) /\ \A k \in 0..n : g[k] \in Int
    BY <1>3
  <2> DEFINE h == [k \in 0..(n + 1) |-> IF k = n + 1 THEN g[n] + deltas[n + 1] ELSE g[k]]
  <2>2. /\ h = [k \in DOMAIN h |-> h[k]] /\ DOMAIN h = 0..(n + 1)
        /\ h[n + 1] = g[n] + deltas[n + 1] /\ \A k \in 0..n : h[k] = g[k]
    BY <1>1
  <2> HIDE DEF h
  <2>3. \A k \in 0..n : g[k] = IF k = 0 THEN 0 ELSE g[k - 1] + deltas[k]
    BY <2>1 DEF IsSum
  <2>4. ASSUME NEW k \in 0..(n + 1)
        PROVE  /\ h[k] = IF k = 0 THEN 0 ELSE h[k - 1] + deltas[k]
               /\ h[k] \in Int
    <3>1. CASE k = n + 1
      <4>1. k # 0 /\ k - 1 = n /\ n \in 0..n /\ k \in 1..m
        BY <1>1, <3>1
      <4> QED
        BY <1>1, <2>1, <2>2, <3>1, <4>1
    <3>2. CASE k \in 0..n
      <4>1. k # 0 => k - 1 \in 0..n
        BY <3>2
      <4> QED
        BY <2>1, <2>2, <2>3, <3>2, <4>1
    <3> QED
      BY <1>1, <3>1, <3>2
  <2>5. IsSum(h, deltas, n + 1)
    BY <2>2, <2>4 DEF IsSum
  <2>6. n + 1 \in 0..m
    BY <1>1, <1>3
  <2> QED
    BY <2>4, <2>5, <2>6
<1> HIDE DEF S
<1>4. 0..m \subseteq S
  BY <1>1, <1>2, <1>3, Facts!SetInductionUpTo
<1> QED
  BY <1>4 DEF S

\* A time is the sum of the differences up to it.
LEMMA TimesAre ==
  ASSUME NEW deltas \in Seq(Int)
  PROVE  /\ Times(deltas) \in Seq(Int) /\ DOMAIN Times(deltas) = DOMAIN deltas
         /\ Len(Times(deltas)) = Len(deltas)
         /\ \A k \in DOMAIN deltas :
               Times(deltas)[k] = (IF k = 1 THEN 0 ELSE Times(deltas)[k - 1]) + deltas[k]
<1> DEFINE m == Len(deltas)
           sum == CHOOSE g : IsSum(g, deltas, m)
           t == [k \in DOMAIN deltas |-> sum[k]]
<1>1. m \in Nat /\ DOMAIN deltas = 1..m /\ \A k \in 1..m : deltas[k] \in Int
  OBVIOUS
<1>2. Times(deltas) = t
  BY DEF Times, IsSum
<1>3. IsSum(sum, deltas, m)
  BY <1>1, SumsExist
<1>4. \A k \in 0..m : sum[k] \in Int
  <2> DEFINE S == {k \in 0..m : sum[k] \in Int}
  <2>1. 0 \in S
    <3>1. 0 \in 0..m
      BY <1>1
    <3>2. sum[0] = 0
      BY ONLY <1>3, <3>1 DEF IsSum
    <3> QED
      BY <3>1, <3>2
  <2>2. ASSUME NEW k \in 0..(m - 1), k \in S
        PROVE  k + 1 \in S
    <3>1. k + 1 \in 0..m /\ k + 1 # 0 /\ (k + 1) - 1 = k /\ deltas[k + 1] \in Int
      BY <1>1
    <3>2. sum[k + 1] = sum[k] + deltas[k + 1]
      BY ONLY <1>3, <3>1 DEF IsSum
    <3> QED
      BY <2>2, <3>1, <3>2
  <2> HIDE DEF S
  <2>3. 0..m \subseteq S
    BY <1>1, <2>1, <2>2, Facts!SetInductionUpTo
  <2> QED
    BY <2>3 DEF S
<1>5. ASSUME NEW k \in 1..m
      PROVE  sum[k] = (IF k = 1 THEN 0 ELSE sum[k - 1]) + deltas[k]
  <2>1. k \in 0..m /\ k # 0 /\ 0 \in 0..m
    BY <1>1
  <2>2. sum[k] = sum[k - 1] + deltas[k] /\ sum[0] = 0
    BY ONLY <1>3, <2>1 DEF IsSum
  <2> QED
    BY <2>2
<1> HIDE DEF sum
<1>6. t \in Seq(Int) /\ Len(t) = m /\ DOMAIN t = DOMAIN deltas
  BY <1>1, <1>4
<1>7. ASSUME NEW k \in 1..m
      PROVE  t[k] = (IF k = 1 THEN 0 ELSE t[k - 1]) + deltas[k]
  <2>1. k # 1 => k - 1 \in 1..m
    BY <1>1
  <2> QED
    BY <1>1, <1>5, <2>1
<1> HIDE DEF t
<1> QED
  BY <1>1, <1>2, <1>6, <1>7

\* Nothing else is.
LEMMA TimesUnique ==
  ASSUME NEW deltas \in Seq(Int), NEW t,
         \A k \in DOMAIN deltas : t[k] = (IF k = 1 THEN 0 ELSE t[k - 1]) + deltas[k]
  PROVE  \A k \in DOMAIN deltas : t[k] = Times(deltas)[k]
<1> DEFINE m == Len(deltas)
           u == Times(deltas)
           S == {k \in 0..m : k = 0 \/ t[k] = u[k]}
<1>1. m \in Nat /\ DOMAIN deltas = 1..m
  OBVIOUS
<1>2. \A k \in 1..m : u[k] = (IF k = 1 THEN 0 ELSE u[k - 1]) + deltas[k]
  BY <1>1, TimesAre
<1> HIDE DEF u
<1>3. 0 \in S
  BY <1>1
<1>4. ASSUME NEW k \in 0..(m - 1), k \in S
      PROVE  k + 1 \in S
  <2>1. k + 1 \in 1..m /\ (k + 1) - 1 = k /\ (k + 1 = 1 <=> k = 0)
    BY <1>1
  <2>2. /\ u[k + 1] = (IF k = 0 THEN 0 ELSE u[k]) + deltas[k + 1]
        /\ t[k + 1] = (IF k = 0 THEN 0 ELSE t[k]) + deltas[k + 1]
    BY <1>1, <1>2, <2>1
  <2> QED
    BY <1>4, <2>1, <2>2
<1> HIDE DEF S
<1>5. 0..m \subseteq S
  BY <1>1, <1>3, <1>4, Facts!SetInductionUpTo
<1> QED
  BY <1>1, <1>5 DEF S, u

\* One more difference adds one more time.
LEMMA TimesAppend ==
  ASSUME NEW deltas \in Seq(Int), NEW e \in Int
  PROVE  LET t == Times(deltas)
             u == Times(Append(deltas, e))
             n == Len(deltas)
         IN  /\ DOMAIN u = 1..(n + 1)
             /\ \A k \in 1..n : u[k] = t[k]
             /\ u[n + 1] = (IF n = 0 THEN 0 ELSE t[n]) + e
<1> DEFINE n == Len(deltas)
           d == Append(deltas, e)
           u == Times(d)
<1>1. /\ n \in Nat /\ DOMAIN deltas = 1..n
      /\ d \in Seq(Int) /\ DOMAIN d = 1..(n + 1) /\ d[n + 1] = e
      /\ \A k \in 1..n : d[k] = deltas[k]
  OBVIOUS
<1> HIDE DEF d
<1>2. \A k \in 1..(n + 1) : u[k] = (IF k = 1 THEN 0 ELSE u[k - 1]) + d[k]
  BY <1>1, TimesAre
<1>3. DOMAIN u = 1..(n + 1)
  BY <1>1, TimesAre
<1> HIDE DEF u
<1>4. \A k \in 1..n : u[k] = (IF k = 1 THEN 0 ELSE u[k - 1]) + deltas[k]
  BY <1>1, <1>2
<1>5. \A k \in 1..n : u[k] = Times(deltas)[k]
  <2>1. \A k \in DOMAIN deltas : u[k] = (IF k = 1 THEN 0 ELSE u[k - 1]) + deltas[k]
    BY <1>1, <1>4
  <2>2. \A k \in DOMAIN deltas : u[k] = Times(deltas)[k]
    BY ONLY <2>1, TimesUnique, deltas \in Seq(Int)
  <2> QED
    BY <1>1, <2>2
<1>6. u[n + 1] = (IF n = 0 THEN 0 ELSE u[n]) + e
  <2>1. n + 1 \in 1..(n + 1) /\ (n + 1) - 1 = n /\ (n + 1 = 1 <=> n = 0)
    BY <1>1
  <2> QED
    BY <1>1, <1>2, <2>1
<1>7. n # 0 => n \in 1..n
  BY <1>1
<1> QED
  BY <1>3, <1>5, <1>6, <1>7 DEF u, d

\* Time does not go back in a table.
LEMMA TimesGrow ==
  ASSUME NEW deltas \in Seq(Nat)
  PROVE  /\ Times(deltas) \in Seq(Nat) /\ DOMAIN Times(deltas) = DOMAIN deltas
         /\ \A k \in DOMAIN deltas :
               k + 1 \in DOMAIN deltas => Times(deltas)[k] <= Times(deltas)[k + 1]
<1> DEFINE m == Len(deltas)
           t == Times(deltas)
           S == {k \in 0..m : k = 0 \/ t[k] \in Nat}
<1>1. m \in Nat /\ DOMAIN deltas = 1..m /\ \A k \in 1..m : deltas[k] \in Nat
  OBVIOUS
<1>2. /\ t \in Seq(Int) /\ DOMAIN t = 1..m /\ Len(t) = m
      /\ \A k \in 1..m : t[k] = (IF k = 1 THEN 0 ELSE t[k - 1]) + deltas[k]
  BY <1>1, TimesAre
<1> HIDE DEF t
<1>3. 0 \in S
  BY <1>1
<1>4. ASSUME NEW k \in 0..(m - 1)
      PROVE  /\ t[k + 1] = (IF k = 0 THEN 0 ELSE t[k]) + deltas[k + 1]
             /\ deltas[k + 1] \in Nat /\ k + 1 \in 1..m
  <2>1. k + 1 \in 1..m /\ (k + 1) - 1 = k /\ (k + 1 = 1 <=> k = 0)
    BY <1>1
  <2> QED
    BY <1>1, <1>2, <2>1
<1>5. ASSUME NEW k \in 0..(m - 1), k \in S
      PROVE  k + 1 \in S
  BY <1>4, <1>5
<1> HIDE DEF S
<1>6. 0..m \subseteq S
  BY <1>1, <1>3, <1>5, Facts!SetInductionUpTo
<1>7. \A k \in 1..m : t[k] \in Nat
  BY <1>1, <1>6 DEF S
<1>8. t \in Seq(Nat)
  BY <1>1, <1>2, <1>7
<1>9. ASSUME NEW k \in 1..m, k + 1 \in 1..m
      PROVE  t[k] <= t[k + 1]
  BY <1>1, <1>4, <1>7, <1>9
<1> QED
  BY <1>1, <1>2, <1>8, <1>9 DEF t

------------------------------------------------------------------------------
(* The table of the open block. *)

\* A time that is not earlier goes behind the others.
LEMMA TableAppend ==
  ASSUME NEW deltas \in Seq(Nat), NEW begin \in Nat, NEW end \in Nat,
         EndsAt(deltas, end), Within(deltas, begin, end),
         NEW t \in Nat, end <= t, begin <= t
  PROVE  LET d == Append(deltas, t - end)
         IN  d \in Seq(Nat) /\ EndsAt(d, t) /\ Within(d, begin, t)
<1> DEFINE d == Append(deltas, t - end)
           n == Len(deltas)
<1>1. /\ n \in Nat /\ DOMAIN deltas = 1..n /\ deltas \in Seq(Int) /\ t - end \in Int
      /\ d \in Seq(Nat) /\ Len(d) = n + 1 /\ DOMAIN d = 1..(n + 1) /\ d # <<>>
      /\ (n = 0 <=> deltas = <<>>)
  OBVIOUS
<1>2. /\ \A k \in 1..n : Times(d)[k] = Times(deltas)[k]
      /\ Times(d)[n + 1] = (IF n = 0 THEN 0 ELSE Times(deltas)[n]) + (t - end)
  BY <1>1, TimesAppend
<1> HIDE DEF d
<1>3. (IF n = 0 THEN 0 ELSE Times(deltas)[n]) = end
  BY <1>1 DEF EndsAt
<1>4. Times(d)[n + 1] = t
  <2>1. Times(d)[n + 1] = end + (t - end)
    BY <1>2, <1>3
  <2> QED
    BY <2>1
<1>5. EndsAt(d, t)
  BY <1>1, <1>4 DEF EndsAt
<1>6. ASSUME NEW k \in 1..(n + 1)
      PROVE  Times(d)[k] \in begin..t
  <2>1. CASE k = n + 1
    BY <1>4, <2>1
  <2>2. CASE k \in 1..n
    <3>1. Times(deltas)[k] \in begin..end
      BY <1>1, <2>2 DEF Within
    <3> QED
      BY <1>2, <2>2, <3>1
  <2> QED
    BY <1>1, <2>1, <2>2
<1> QED
  BY <1>1, <1>5, <1>6 DEF Within, d

\* An empty table.
LEMMA TableEmpty ==
  ASSUME NEW begin, NEW end
  PROVE  <<>> \in Seq(Nat) /\ EndsAt(<<>>, 0) /\ Within(<<>>, begin, end)
BY DEF EndsAt, Within

\* The time fields of a context.
SameTimes(d, c) ==
    \A f \in {"tchn", "curtime", "firsttime", "initialTime", "locked", "blackouts"} : d[f] = c[f]

\* A first time begins the table.
LEMMA FirstTimeTable ==
  ASSUME NEW c \in Contexts, NEW t \in Nat
  PROVE  LET d == FirstTime(c, t)
         IN  /\ d.tchn = Append(c.tchn, t) /\ d.curtime = t
             /\ d.firsttime = BeginTime(c, t).firsttime /\ d.firsttime \in {0, t}
             /\ d.initialTime = FALSE /\ d.locked = c.locked
             /\ d.blackouts = c.blackouts /\ d.flushPending = c.flushPending
<1> DEFINE m == WithMaps(c)
           b == BeginTime(m, t)
           w == WithTime(b, t)
<1>1. /\ m = [c EXCEPT !.mapped = TRUE] /\ DOMAIN m = DOMAIN c /\ m.tchn = c.tchn
      /\ m.vcEmitted = c.vcEmitted /\ m.locked = c.locked
      /\ m.blackouts = c.blackouts /\ m.flushPending = c.flushPending
      /\ {"tchn", "curtime", "firsttime", "initialTime"} \subseteq DOMAIN m
  BY DEF WithMaps, Contexts
<1> HIDE DEF m
<1>2. /\ b.tchn = c.tchn /\ b.curtime = 0
      /\ b.firsttime = IF c.vcEmitted THEN 0 ELSE t
      /\ b.blackouts = c.blackouts /\ b.flushPending = c.flushPending /\ b.locked = c.locked
      /\ {"tchn", "curtime", "initialTime"} \subseteq DOMAIN b
  BY <1>1 DEF BeginTime
<1>3. BeginTime(c, t).firsttime = IF c.vcEmitted THEN 0 ELSE t
  BY DEF BeginTime, Contexts
<1> HIDE DEF b
<1>4. /\ w.tchn = Append(c.tchn, t - 0) /\ w.curtime = t
      /\ w.firsttime = b.firsttime
      /\ w.blackouts = c.blackouts /\ w.flushPending = c.flushPending /\ w.locked = c.locked
      /\ "initialTime" \in DOMAIN w
  BY <1>2 DEF WithTime
<1>5. FirstTime(c, t) = [w EXCEPT !.initialTime = FALSE]
  BY DEF FirstTime, w, b, m
<1> HIDE DEF w
<1>6. t - 0 = t
  OBVIOUS
<1> QED
  BY <1>2, <1>3, <1>4, <1>5, <1>6

\* So does the one that a close makes up.
LEMMA MockedTable ==
  ASSUME NEW c \in Contexts
  PROVE  LET d == Mocked(c)
         IN  /\ d.tchn = Append(c.tchn, 0) /\ d.curtime = 0 /\ d.firsttime = 0
             /\ d.initialTime = FALSE /\ d.blackouts = c.blackouts
             /\ BeginTime(c, 0).firsttime = 0
<1> DEFINE b == FirstTime(c, 0)
<1>1. /\ b.tchn = Append(c.tchn, 0) /\ b.curtime = 0 /\ b.firsttime = 0
      /\ b.initialTime = FALSE /\ b.blackouts = c.blackouts
      /\ BeginTime(c, 0).firsttime = 0
  <2>1. /\ b.tchn = Append(c.tchn, 0) /\ b.curtime = 0
        /\ b.firsttime = BeginTime(c, 0).firsttime /\ b.firsttime \in {0, 0}
        /\ b.initialTime = FALSE /\ b.blackouts = c.blackouts
    BY Zenon, FirstTimeTable, 0 \in Nat
  <2> HIDE DEF b
  <2> QED
    BY <2>1
<1> HIDE DEF b
<1>2. \E chains : Mocked(c) = [b EXCEPT !.vchg = chains]
  BY DEF Mocked, b
<1> QED
  BY <1>1, <1>2

\* A next time goes into the table.
LEMMA NextTimeTable ==
  ASSUME NEW c \in Contexts, NEW t \in Nat
  PROVE  LET d == NextTime(c, t)
         IN  /\ d.tchn = Append(c.tchn, t - c.curtime) /\ d.curtime = t
             /\ d.firsttime = c.firsttime
             /\ d.initialTime = c.initialTime /\ d.locked = c.locked
             /\ d.blackouts = c.blackouts /\ d.flushPending = c.flushPending
BY DEF NextTime, WithTime, Contexts

\* What d has of c after the block was finished and the time t has come.
GoneOn(f, c, t, d) ==
    /\ d.tchn = Append(Append(<<>>, c.curtime), t - c.curtime) /\ d.curtime = t
    /\ d.firsttime = c.firsttime
    /\ d.initialTime = IF Full(f, c) THEN TRUE ELSE c.initialTime
    /\ d.locked = IF Full(f, c) THEN TRUE ELSE c.locked
    /\ d.blackouts = c.blackouts /\ d.flushPending = FALSE

\* After a flush the table is empty.
LEMMA AfterFlushTable ==
  ASSUME NEW c \in Contexts, NEW f, NEW t \in Nat, NEW d,
         d = WithTime([RepeatTime(AfterFlush(f, c)) EXCEPT !.tchnIdx = @ + 1], t)
  PROVE  GoneOn(f, c, t, d)
<1> DEFINE e == Emptied(c)
           a == AfterFlush(f, c)
           r == RepeatTime(a)
           n == [r EXCEPT !.tchnIdx = @ + 1]
<1>1. /\ e.tchn = <<>> /\ e.curtime = c.curtime /\ e.firsttime = c.firsttime
      /\ e.initialTime = c.initialTime /\ e.locked = c.locked /\ e.blackouts = c.blackouts
      /\ DOMAIN e = DOMAIN c
  BY DEF Emptied, Contexts
<1>2. DOMAIN c = {"lens", "mapped", "curval", "vchg", "lastIdx", "tchn", "tchnIdx", "curtime",
                  "firsttime", "initialTime", "vcEmitted", "flushPending", "headerOnly",
                  "limit", "locked", "blackouts"}
  BY DEF Contexts
<1> HIDE DEF e
<1>3. /\ a.tchn = <<>> /\ a.curtime = c.curtime /\ a.firsttime = c.firsttime
      /\ a.initialTime = (IF Full(f, c) THEN TRUE ELSE c.initialTime)
      /\ a.locked = (IF Full(f, c) THEN TRUE ELSE c.locked) /\ a.blackouts = c.blackouts
      /\ DOMAIN a = DOMAIN c
  <2>1. CASE Full(f, c)
    <3>1. a = [e EXCEPT !.locked = TRUE, !.initialTime = TRUE]
      BY <2>1 DEF AfterFlush, e
    <3> HIDE DEF a
    <3> QED
      BY <1>1, <1>2, <2>1, <3>1
  <2>2. CASE ~Full(f, c)
    <3>1. a = [e EXCEPT !.headerOnly = TRUE]
      BY <2>2 DEF AfterFlush, e
    <3> HIDE DEF a
    <3> QED
      BY <1>1, <1>2, <2>2, <3>1
  <2> QED
    BY <2>1, <2>2
<1> HIDE DEF a
<1>4. /\ r.tchn = Append(<<>>, c.curtime) /\ r.curtime = c.curtime /\ r.firsttime = c.firsttime
      /\ r.initialTime = a.initialTime /\ r.locked = a.locked /\ r.blackouts = c.blackouts
      /\ r.flushPending = FALSE /\ DOMAIN r = DOMAIN c
  BY <1>2, <1>3 DEF RepeatTime
<1> HIDE DEF r
<1>5. /\ n.tchn = r.tchn /\ n.curtime = r.curtime /\ n.firsttime = r.firsttime
      /\ n.initialTime = r.initialTime /\ n.locked = r.locked /\ n.blackouts = r.blackouts
      /\ n.flushPending = r.flushPending /\ DOMAIN n = DOMAIN c
  BY <1>2, <1>4
<1>6. d = WithTime(n, t)
  BY DEF n, r, a
<1> HIDE DEF n
<1>7. /\ d.tchn = Append(n.tchn, t - n.curtime) /\ d.curtime = t
      /\ d.firsttime = n.firsttime /\ d.initialTime = n.initialTime
      /\ d.locked = n.locked /\ d.blackouts = n.blackouts /\ d.flushPending = n.flushPending
  <2>1. d = [n EXCEPT !.tchn = Append(n.tchn, t - n.curtime), !.curtime = t]
    BY <1>6 DEF WithTime
  <2>2. {"tchn", "curtime", "firsttime", "initialTime", "locked", "blackouts", "flushPending"}
          \subseteq DOMAIN n
    BY <1>2, <1>5
  <2> QED
    BY ONLY <2>1, <2>2
<1> QED
  BY ONLY <1>3, <1>4, <1>5, <1>6, <1>7 DEF GoneOn

------------------------------------------------------------------------------
(* The times of the blocks. *)

\* What the finished blocks of a file are.
LEMMA BlocksAre ==
  ASSUME NEW f, IsFile(f)
  PROVE  /\ Len(f.sections) \in Nat /\ Blocks(f) \subseteq 1..Len(f.sections)
         /\ \A k \in Blocks(f) :
               /\ f.sections[k].begin \in Nat /\ f.sections[k].end \in Nat
               /\ f.sections[k].begin <= f.sections[k].end
               /\ f.sections[k].times \in Seq(Nat) /\ f.sections[k].frame \in Seq(Vals)
BY SectionsAre DEF Blocks, IsFile, IsBlock

\* What holds of all blocks holds of some of them.
LEMMA FewerBlocks ==
  ASSUME NEW f, NEW g, Blocks(g) \subseteq Blocks(f),
         \A k \in Blocks(g) : g.sections[k] = f.sections[k]
  PROVE  /\ TablesWithin(f) => TablesWithin(g)
         /\ \A start, end : Spanned(f, start, end) => Spanned(g, start, end)
BY DEF TablesWithin, Spanned

\* What holds for a shorter time holds for a longer.
LEMMA SpannedLonger ==
  ASSUME NEW f, IsFile(f), NEW start \in Nat, NEW end \in Nat, Spanned(f, start, end),
         NEW later \in Nat, end <= later
  PROVE  Spanned(f, start, later)
BY BlocksAre DEF Spanned

\* The first header is no block.
LEMMA StartedTimes ==
  ASSUME NEW f, LastIsOpen(f), Len(f.sections) = 1
  PROVE  /\ Blocks(f) = {}
         /\ TablesWithin(f) /\ \A start, end : Spanned(f, start, end)
<1>1. Blocks(f) = {}
  <2> SUFFICES ASSUME NEW k \in Blocks(f) PROVE FALSE
    OBVIOUS
  <2>1. k \in DOMAIN f.sections /\ f.sections[k].tag = "vcdata" /\ k # 1
    BY DEF Blocks, LastIsOpen
  <2>2. f.sections[k].tag = "vcdata" /\ Len(f.sections) = 1 /\ k \in DOMAIN f.sections
    BY <2>1
  <2> QED
    BY <2>1, <2>2 DEF LastIsOpen
<1> QED
  BY <1>1 DEF TablesWithin, Spanned

\* The open block becomes one with the times of the table.
LEMMA FinishedTimes ==
  ASSUME NEW f, IsFile(f), NEW c \in Contexts, LastIsOpen(f), Adjoin(f),
         f.sections[Len(f.sections)].begin <= c.curtime
  PROVE  LET g == Finished(f, c)
             begin == f.sections[Len(f.sections)].begin
         IN  /\ TablesWithin(f) /\ Within(c.tchn, begin, c.curtime) => TablesWithin(g)
             /\ Spanned(f, c.firsttime, c.curtime) /\ c.firsttime <= begin
                => Spanned(g, c.firsttime, c.curtime)
<1> DEFINE g == Finished(f, c)
           n == Len(f.sections)
<1>1. /\ n \in Nat /\ DOMAIN f.sections = 1..n /\ f.sections # <<>>
      /\ \A k \in 1..n : f.sections[k].tag = IF k = n THEN "skip" ELSE "vcdata"
      /\ n \in 1..n /\ f.sections[n].tag = "skip"
  BY SectionsAre DEF LastIsOpen
<1>2. /\ IsFile(g) /\ Len(g.sections) = n
      /\ \A k \in 1..n : k # n => g.sections[k] = f.sections[k]
      /\ g.sections[n].begin = f.sections[n].begin
      /\ g.sections[n].end = c.curtime /\ g.sections[n].times = c.tchn
  BY <1>1, FinishedIs
<1> HIDE DEF g
<1>3. Blocks(g) \subseteq 1..n /\ \A k \in 1..n : k # n => k \in Blocks(f)
  BY <1>1, <1>2, SectionsAre DEF Blocks
<1>4. ASSUME TablesWithin(f), Within(c.tchn, f.sections[n].begin, c.curtime)
      PROVE  TablesWithin(g)
  BY <1>2, <1>3, <1>4 DEF TablesWithin
<1>5. ASSUME Spanned(f, c.firsttime, c.curtime), c.firsttime <= f.sections[n].begin
      PROVE  Spanned(g, c.firsttime, c.curtime)
  <2>1. c.curtime \in Nat
    BY DEF Contexts
  <2> QED
    BY <1>2, <1>3, <1>5, <2>1 DEF Spanned
<1> QED
  BY <1>4, <1>5 DEF g

\* The next header is no block either.
LEMMA HeaderTimes ==
  ASSUME NEW f, IsFile(f), NEW c \in Contexts
  PROVE  LET g == WithHeader(f, c)
         IN  /\ TablesWithin(f) => TablesWithin(g)
             /\ \A start, end : Spanned(f, start, end) => Spanned(g, start, end)
<1> DEFINE g == WithHeader(f, c)
           n == Len(f.sections)
<1>1. n \in Nat /\ DOMAIN f.sections = 1..n
  BY SectionsAre
<1>2. /\ IsFile(g) /\ Len(g.sections) = n + 1
      /\ \A k \in 1..n : g.sections[k] = f.sections[k]
      /\ g.sections[n + 1].tag = "skip"
  BY <1>1, WithHeaderIs
<1> HIDE DEF g
<1>3. DOMAIN g.sections = 1..(n + 1)
  BY <1>2, SectionsAre
<1>4. /\ Blocks(g) \subseteq Blocks(f)
      /\ \A k \in Blocks(g) : g.sections[k] = f.sections[k]
  <2> SUFFICES ASSUME NEW k \in Blocks(g)
               PROVE  k \in Blocks(f) /\ g.sections[k] = f.sections[k]
    OBVIOUS
  <2>1. k \in 1..(n + 1) /\ g.sections[k].tag = "vcdata"
    BY <1>3 DEF Blocks
  <2>2. k # n + 1
    BY <1>2, <2>1
  <2>3. k \in 1..n
    BY <1>1, <2>1, <2>2
  <2> QED
    BY <1>1, <1>2, <2>1, <2>3 DEF Blocks
<1> QED
  BY <1>4, FewerBlocks DEF g

\* Neither of them touches the blackouts.
LEMMA SameBlackouts ==
  ASSUME NEW f, IsFile(f), NEW c
  PROVE  /\ WithHeader(f, c).blackouts = f.blackouts
         /\ Finished(f, c).blackouts = f.blackouts
         /\ WithMapsSaved(f, c).blackouts = f.blackouts
BY DEF WithHeader, Finished, WithMapsSaved, IsFile, FilesOf

\* A sequence of blackouts has numbers for times.
LEMMA BlackoutsAre ==
  ASSUME NEW b \in Seq(Blackouts)
  PROVE  /\ Len(b) \in Nat /\ DOMAIN b = 1..Len(b)
         /\ \A k \in DOMAIN b : b[k] \in Blackouts /\ b[k].time \in Nat
<1>1. \A k \in DOMAIN b : b[k] \in Blackouts
  OBVIOUS
<1>2. \A e \in Blackouts : e.time \in Nat
  BY DEF Blackouts
<1> QED
  BY <1>1, <1>2

\* The reader adds up again what the writer made differences.
LEMMA BlackoutsTelescope ==
  ASSUME NEW f, IsFile(f), NEW c \in Contexts
  PROVE  BlackoutTimes(Finalized(f, c)) = c.blackouts
<1> DEFINE b == c.blackouts
           s == BlackoutsOf(c)
           deltas == [k \in DOMAIN s |-> s[k].delta]
           t == [k \in DOMAIN b |-> b[k].time]
<1>1. /\ b \in Seq(Blackouts) /\ DOMAIN b = 1..Len(b) /\ Len(b) \in Nat
      /\ \A k \in 1..Len(b) : b[k] \in Blackouts
  BY DEF Contexts
<1>2. \A k \in 1..Len(b) : b[k].time \in Nat /\ b[k] = [active |-> b[k].active, time |-> b[k].time]
  BY <1>1 DEF Blackouts
<1>3. /\ DOMAIN s = 1..Len(b)
      /\ \A k \in 1..Len(b) :
            /\ s[k].active = b[k].active
            /\ s[k].delta = b[k].time - (IF k = 1 THEN 0 ELSE b[k - 1].time)
  BY <1>1 DEF BlackoutsOf
<1>4. Finalized(f, c).blackouts = s
  BY DEF Finalized, IsFile, FilesOf
<1> HIDE DEF b, s
<1>5. /\ DOMAIN t = 1..Len(b) /\ \A k \in 1..Len(b) : t[k] = b[k].time
      /\ DOMAIN deltas = 1..Len(b)
      /\ \A k \in 1..Len(b) : deltas[k] = b[k].time - (IF k = 1 THEN 0 ELSE b[k - 1].time)
  BY <1>1, <1>3
<1>6. ASSUME NEW k \in 1..Len(b)
      PROVE  /\ deltas[k] \in Int
             /\ t[k] = (IF k = 1 THEN 0 ELSE t[k - 1]) + deltas[k]
  <2> HIDE DEF t, deltas
  <2>1. k # 1 => k - 1 \in 1..Len(b)
    BY <1>1
  <2>2. b[k].time \in Nat /\ (IF k = 1 THEN 0 ELSE b[k - 1].time) \in Nat
    BY <1>2, <2>1
  <2>3. (IF k = 1 THEN 0 ELSE t[k - 1]) = (IF k = 1 THEN 0 ELSE b[k - 1].time)
    BY <1>5, <2>1
  <2> QED
    BY <1>5, <2>2, <2>3
<1>7. deltas \in Seq(Int)
  <2>1. deltas = [k \in DOMAIN deltas |-> deltas[k]]
    OBVIOUS
  <2> HIDE DEF deltas
  <2> QED
    BY <1>1, <1>5, <1>6, <2>1, FunctionIsSeq
<1>8. \A k \in 1..Len(b) : Times(deltas)[k] = b[k].time
  <2> HIDE DEF t, deltas
  <2>1. \A k \in DOMAIN deltas : t[k] = (IF k = 1 THEN 0 ELSE t[k - 1]) + deltas[k]
    BY <1>5, <1>6
  <2>2. \A k \in DOMAIN deltas : t[k] = Times(deltas)[k]
    BY ONLY <2>1, <1>7, TimesUnique
  <2> QED
    BY <1>5, <2>2
<1>9. BlackoutTimes(Finalized(f, c)) =
         [k \in 1..Len(b) |-> [active |-> s[k].active, time |-> Times(deltas)[k]]]
  BY <1>3, <1>4 DEF BlackoutTimes
<1>10. ASSUME NEW k \in 1..Len(b)
       PROVE  [active |-> s[k].active, time |-> Times(deltas)[k]] = b[k]
  BY <1>2, <1>3, <1>8
<1>11. b = [k \in 1..Len(b) |-> b[k]]
  BY <1>1
<1> HIDE DEF deltas
<1> QED
  BY <1>9, <1>10, <1>11 DEF b

------------------------------------------------------------------------------
(* The steps of the writer: times and blackouts. *)

\* The open block of a file in which time goes on.
LEMMA OpenBlock ==
  ASSUME FstInv, phase = "writing", ~xc.initialTime
  PROVE  /\ xc \in Contexts /\ Aligned(xc) /\ IsFile(file) /\ Adjoin(file)
         /\ LastIsOpen(file) /\ ~xc.locked
         /\ file.sections[Len(file.sections)].begin \in Nat
         /\ file.sections[Len(file.sections)].begin <= xc.curtime
<1>1. /\ xc \in Contexts /\ Aligned(xc) /\ IsFile(file) /\ Ready(file, xc) /\ Adjoin(file)
  BY DEF FstInv, Types, Writing, BlocksAdjoin
<1>2. LastIsOpen(file) /\ ~xc.locked
  BY <1>1 DEF Ready, Blocked
<1>3. Len(file.sections) \in DOMAIN file.sections
  BY <1>1, <1>2, SectionsAre DEF LastIsOpen
<1> QED
  BY <1>1, <1>2, <1>3 DEF IsFile, IsBlock, Ready, BegunBy

\* A writer that goes on in the same block keeps the times.
LEMMA TimesKept ==
  ASSUME TimesInv, phase = "writing", phase' = "writing", SameTimes(xc', xc),
         file'.sections = file.sections, past'.idleFlush = past.idleFlush
  PROVE  TimesInv'
<1>1. /\ xc'.tchn = xc.tchn /\ xc'.curtime = xc.curtime /\ xc'.firsttime = xc.firsttime
      /\ xc'.initialTime = xc.initialTime /\ xc'.locked = xc.locked
  BY DEF SameTimes
<1> QED
  BY <1>1 DEF TimesInv, TablesWithin, TableEndsNow, SpannedBy, Spanned, Blocks

\* What is to be kept of the blackouts when none is added.
LEMMA BlackoutsKept ==
  ASSUME FstInv, FstInv', BlackoutsInv, phase = "writing", phase' = "writing",
         xc'.blackouts = xc.blackouts, xc.curtime <= xc'.curtime,
         file'.blackouts = file.blackouts, past'.blackouts = past.blackouts
  PROVE  BlackoutsInv'
<1>1. xc \in Contexts /\ xc' \in Contexts
  BY DEF FstInv, Types
<1>2. \A k \in DOMAIN xc'.blackouts : xc'.blackouts[k].time <= xc'.curtime
  <2>1. /\ xc.curtime \in Nat /\ xc'.curtime \in Nat /\ xc.blackouts \in Seq(Blackouts)
        /\ \A k \in DOMAIN xc.blackouts : xc.blackouts[k].time <= xc.curtime
    BY <1>1 DEF Contexts, BlackoutsInv
  <2>2. \A k \in DOMAIN xc.blackouts : xc.blackouts[k].time \in Nat
    BY <2>1, BlackoutsAre
  <2> QED
    BY <2>1, <2>2
<1> QED
  BY <1>2 DEF BlackoutsInv, InOrder

\* fstWriterCreateVar
LEMMA CreateVarTimes ==
  ASSUME FstInv, FstInv', TimesInv, BlackoutsInv, NEW len \in Lengths, CreateVar(len)
  PROVE  TimesInv' /\ BlackoutsInv'
<1> USE DEF CreateVar
<1>1. SameTimes(xc', xc) /\ xc'.flushPending = xc.flushPending /\ xc.curtime \in Nat
  <2>1. xc \in Contexts
    BY DEF FstInv, Types
  <2> QED
    BY <2>1 DEF SameTimes, Contexts
<1>2. past \in Pasts
  BY DEF FstInv, Types
<1>3. /\ past'.idleFlush = past.idleFlush /\ past'.blackouts = past.blackouts
  BY <1>2 DEF Extra, MayBe, Pasts
<1>4. TimesInv'
  BY <1>1, <1>3, TimesKept
<1>5. xc'.blackouts = xc.blackouts /\ xc.curtime <= xc'.curtime
  BY <1>1 DEF SameTimes
<1> QED
  BY <1>1, <1>3, <1>4, <1>5, BlackoutsKept

\* fstWriterEmitValueChange
LEMMA EmitValueChangeTimes ==
  ASSUME FstInv, FstInv', TimesInv, BlackoutsInv, NEW h \in Handles,
         NEW value \in Values[xc.lens[h]], EmitValueChange(h, value)
  PROVE  TimesInv' /\ BlackoutsInv'
<1> USE DEF EmitValueChange
<1> DEFINE m == [WithMaps(xc) EXCEPT !.vcEmitted = @ \/ ~xc.mapped]
<1>1. xc \in Contexts /\ IsFile(file) /\ past \in Pasts
  BY DEF FstInv, Types
<1>2. SameTimes(m, xc) /\ m.flushPending = xc.flushPending /\ DOMAIN m = DOMAIN xc
  BY <1>1 DEF WithMaps, SameTimes, Contexts
<1>3. DOMAIN xc = {"lens", "mapped", "curval", "vchg", "lastIdx", "tchn", "tchnIdx", "curtime",
                   "firsttime", "initialTime", "vcEmitted", "flushPending", "headerOnly",
                   "limit", "locked", "blackouts"}
  BY <1>1 DEF Contexts
<1>4. xc' = Changed(m, h, value)
  OBVIOUS
<1> HIDE DEF m
<1>5. SameTimes(xc', m) /\ xc'.flushPending = m.flushPending
  <2>1. CASE m.initialTime /\ m.lens[h] # 0
    <3>1. xc' = [m EXCEPT !.curval[h] = value]
      BY <1>4, <2>1 DEF Changed
    <3> QED
      BY <1>2, <1>3, <3>1 DEF SameTimes
  <2>2. CASE ~(m.initialTime /\ m.lens[h] # 0)
    <3>1. \E change : xc' = [m EXCEPT !.vchg[h] = Append(@, change), !.lastIdx[h] = m.tchnIdx]
      BY <1>4, <2>2 DEF Changed, Recorded
    <3> QED
      BY <1>2, <1>3, <3>1 DEF SameTimes
  <2> QED
    BY <2>1, <2>2
<1>6. SameTimes(xc', xc) /\ xc'.flushPending = xc.flushPending
  BY <1>2, <1>5 DEF SameTimes
<1>7. file'.sections = file.sections /\ file'.blackouts = file.blackouts
  <2>1. CASE xc.mapped
    BY <2>1
  <2>2. CASE ~xc.mapped
    BY <1>1, <2>2, WithMapsSavedIs, SameBlackouts
  <2> QED
    BY <2>1, <2>2
<1>8. /\ past'.idleFlush = past.idleFlush /\ past'.blackouts = past.blackouts
  BY <1>1 DEF Pasts
<1>9. xc'.blackouts = xc.blackouts /\ xc.curtime <= xc'.curtime
  BY <1>1, <1>6 DEF SameTimes, Contexts
<1> QED
  BY <1>6, <1>7, <1>8, <1>9, TimesKept, BlackoutsKept

\* fstWriterFlushContext
LEMMA FlushContextTimes ==
  ASSUME FstInv, FstInv', TimesInv, BlackoutsInv, FlushContext
  PROVE  TimesInv' /\ BlackoutsInv'
<1> USE DEF FlushContext
<1>1. xc \in Contexts /\ past \in Pasts
  BY DEF FstInv, Types
<1>2. SameTimes(xc', xc)
  BY <1>1 DEF SameTimes, Contexts
<1>3. /\ past'.idleFlush = past.idleFlush /\ past'.blackouts = past.blackouts
  BY <1>1 DEF Extra, MayBe, Pasts
<1>4. xc'.blackouts = xc.blackouts /\ xc.curtime <= xc'.curtime
  BY <1>1, <1>2 DEF SameTimes, Contexts
<1> QED
  BY <1>2, <1>3, <1>4, TimesKept, BlackoutsKept

\* fstWriterEmitDumpActive adds a blackout that is not earlier than the others.
LEMMA EmitDumpActiveTimes ==
  ASSUME FstInv, FstInv', TimesInv, BlackoutsInv, NEW active \in BOOLEAN, EmitDumpActive(active)
  PROVE  TimesInv' /\ BlackoutsInv'
<1> USE DEF EmitDumpActive
<1> DEFINE b == [time |-> xc.curtime, active |-> active]
           n == Len(xc.blackouts)
<1>1. xc \in Contexts /\ past \in Pasts
  BY DEF FstInv, Types
<1>2. /\ past'.idleFlush = past.idleFlush /\ past'.blackouts = Append(past.blackouts, b)
  BY <1>1 DEF Pasts
<1>3. /\ xc'.blackouts = Append(xc.blackouts, b) /\ xc'.curtime = xc.curtime
      /\ xc'.flushPending = xc.flushPending /\ xc'.tchn = xc.tchn
      /\ xc'.firsttime = xc.firsttime /\ xc'.initialTime = xc.initialTime
      /\ xc'.locked = xc.locked
  BY <1>1 DEF Contexts
<1>4. TimesInv'
  BY <1>2, <1>3 DEF TimesInv, TablesWithin, TableEndsNow, SpannedBy, Spanned, Blocks
<1>5. /\ xc.blackouts = past.blackouts
      /\ InOrder(past.blackouts)
      /\ \A k \in DOMAIN xc.blackouts : xc.blackouts[k].time <= xc.curtime
  BY <1>2 DEF BlackoutsInv
<1>6. /\ xc.curtime \in Nat /\ xc.blackouts \in Seq(Blackouts) /\ n \in Nat
      /\ DOMAIN xc.blackouts = 1..n
      /\ \A k \in 1..n : xc.blackouts[k].time \in Nat
  <2>1. xc.curtime \in Nat /\ xc.blackouts \in Seq(Blackouts)
    BY <1>1 DEF Contexts
  <2> QED
    BY <2>1, BlackoutsAre
<1>7. /\ DOMAIN xc'.blackouts = 1..(n + 1) /\ xc'.blackouts[n + 1] = b
      /\ \A k \in 1..n : xc'.blackouts[k] = xc.blackouts[k]
  <2>1. b \in Blackouts
    BY <1>6 DEF Blackouts
  <2> HIDE DEF b
  <2> QED
    BY <1>3, <1>6, <2>1
<1>8. b.time = xc.curtime
  OBVIOUS
<1> HIDE DEF b
<1>9. \A k \in 1..(n + 1) : xc'.blackouts[k].time <= xc.curtime
  BY <1>5, <1>6, <1>7, <1>8
<1>10. ASSUME NEW j \in 1..(n + 1), NEW k \in 1..(n + 1), j < k
       PROVE  xc'.blackouts[j].time <= xc'.blackouts[k].time
  <2>1. CASE k = n + 1
    BY <1>7, <1>8, <1>9, <2>1
  <2>2. CASE k # n + 1
    <3>1. j \in 1..n /\ k \in 1..n
      <4>1. n \in Nat
        BY <1>6
      <4> HIDE DEF n
      <4> QED
        BY ONLY <4>1, j \in 1..(n + 1), k \in 1..(n + 1), j < k, <2>2
    <3> QED
      BY <1>5, <1>6, <1>7, <1>10, <3>1 DEF InOrder
  <2> QED
    BY <2>1, <2>2
<1>11. InOrder(xc'.blackouts)
  BY <1>7, <1>10 DEF InOrder
<1>12. xc'.blackouts = past'.blackouts
  BY <1>2, <1>3, <1>5
<1> QED
  BY <1>2, <1>3, <1>4, <1>5, <1>7, <1>9, <1>11, <1>12 DEF BlackoutsInv

\* The first fstWriterEmitTimeChange begins a table and a block.
LEMMA EmitFirstTimeTimes ==
  ASSUME FstInv, FstInv', TimesInv, BlackoutsInv, NEW t \in EmitTimes, EmitFirstTime(t)
  PROVE  TimesInv' /\ BlackoutsInv'
<1> USE DEF EmitFirstTime
<1>1. /\ xc \in Contexts /\ Aligned(xc) /\ IsFile(file) /\ t \in Nat
      /\ Ready(file, xc) /\ past \in Pasts /\ past' = past
  BY FstAssumption DEF FstInv, Types, Writing
<1>2. /\ IsFile(file') /\ LastIsOpen(file') /\ Len(file'.sections) = 1
      /\ file'.sections[1].begin <= t
      /\ file'.sections[1].begin = BeginTime(xc, t).firsttime
  BY <1>1, StartedFile
<1>3. /\ xc'.tchn = Append(xc.tchn, t) /\ xc'.curtime = t
      /\ xc'.firsttime = BeginTime(xc, t).firsttime /\ xc'.firsttime \in {0, t}
      /\ xc'.initialTime = FALSE /\ xc'.locked = xc.locked
      /\ xc'.blackouts = xc.blackouts /\ xc'.flushPending = xc.flushPending
  BY <1>1, FirstTimeTable
<1>4. xc.curtime = 0
  BY DEF TimesInv
<1>5. TablesWithin(file') /\ SpannedBy(file', xc')
  BY <1>1, <1>2, <1>3, StartedTimes DEF SpannedBy
<1>6. ~past.idleFlush => TableEndsNow(file', xc')
  <2> SUFFICES ASSUME ~past.idleFlush PROVE TableEndsNow(file', xc')
    OBVIOUS
  <2>1. xc.tchn = <<>>
    BY DEF TimesInv, TableEndsNow
  <2>2. xc'.firsttime \in Nat /\ xc'.firsttime <= t
    BY <1>1, <1>3
  <2>3. EndsAt(Append(<<>>, t - 0), t) /\ Within(Append(<<>>, t - 0), xc'.firsttime, t)
    <3>1. <<>> \in Seq(Nat) /\ EndsAt(<<>>, 0) /\ Within(<<>>, xc'.firsttime, 0)
      BY TableEmpty
    <3> QED
      BY ONLY <1>1, <2>2, <3>1, TableAppend, 0 \in Nat, 0 <= t
  <2>4. t - 0 = t
    BY <1>1
  <2> QED
    BY <1>2, <1>3, <2>1, <2>3, <2>4 DEF TableEndsNow
<1>7. TimesInv'
  BY <1>1, <1>3, <1>5, <1>6 DEF TimesInv
<1>8. file'.blackouts = file.blackouts
  <2> DEFINE m == IF xc.mapped THEN file ELSE WithMapsSaved(file, xc)
  <2>1. IsFile(m) /\ m.blackouts = file.blackouts
    BY <1>1, WithMapsSavedIs, SameBlackouts
  <2>2. file' = WithHeader(m, BeginTime(xc, t))
    BY DEF FirstTimeFile
  <2> HIDE DEF m
  <2> QED
    BY <2>1, <2>2, SameBlackouts
<1> QED
  BY <1>1, <1>3, <1>4, <1>7, <1>8, BlackoutsKept

\* A writer that is gone leaves the blocks as they are.
LEMMA LoseTimes ==
  ASSUME FstInv, TimesInv, BlackoutsInv, phase = "writing", Lose
  PROVE  TimesInv' /\ BlackoutsInv'
<1>1. /\ phase' = "dead" /\ file' = file
      /\ past'.idleFlush = past.idleFlush /\ past'.blackouts = past.blackouts
  BY DEF Lose, Ended, FstInv, Types, Pasts
<1> QED
  BY <1>1 DEF TimesInv, BlackoutsInv

\* What a time change does to the counters.
LEMMA ExtraCounted ==
  ASSUME past \in Pasts, NEW extra \in BOOLEAN, MayBe(extra)
  PROVE  LET p == Extra(extra)
         IN  /\ p \in Pasts /\ p.idleFlush = past.idleFlush /\ p.blackouts = past.blackouts
BY DEF Extra, MayBe, Pasts

\* A time change that goes on in the block.
LEMMA NextTimeTimes ==
  ASSUME FstInv, FstInv', TimesInv, BlackoutsInv, phase = "writing", phase' = "writing",
         NEW t \in Nat, t >= xc.curtime, ~xc.initialTime, MayBe(t = xc.curtime),
         xc' = NextTime(xc, t), file' = file, past' = Extra(t = xc.curtime)
  PROVE  TimesInv' /\ BlackoutsInv'
<1> DEFINE begin == file.sections[Len(file.sections)].begin
<1>1. /\ xc \in Contexts /\ IsFile(file) /\ begin \in Nat /\ begin <= xc.curtime
      /\ xc.curtime \in Nat /\ xc.firsttime \in Nat /\ xc.tchn \in Seq(Nat)
  BY OpenBlock DEF Contexts
<1>2. /\ xc'.tchn = Append(xc.tchn, t - xc.curtime) /\ xc'.curtime = t
      /\ xc'.firsttime = xc.firsttime /\ xc'.initialTime = xc.initialTime
      /\ xc'.locked = xc.locked /\ xc'.blackouts = xc.blackouts
      /\ xc'.flushPending = xc.flushPending
  BY <1>1, NextTimeTable
<1>3. /\ past'.idleFlush = past.idleFlush /\ past'.blackouts = past.blackouts
  BY ExtraCounted DEF FstInv, Types
<1> HIDE DEF begin
<1>4. ~past.idleFlush => EndsAt(xc'.tchn, t) /\ Within(xc'.tchn, begin, t)
  <2> SUFFICES ASSUME ~past.idleFlush
               PROVE  EndsAt(xc'.tchn, t) /\ Within(xc'.tchn, begin, t)
    OBVIOUS
  <2>1. EndsAt(xc.tchn, xc.curtime) /\ Within(xc.tchn, begin, xc.curtime)
    BY DEF TimesInv, TableEndsNow, begin
  <2>2. begin <= t
    BY <1>1
  <2> QED
    BY ONLY <1>1, <1>2, <2>1, <2>2, TableAppend, t \in Nat, t >= xc.curtime
<1>5. SpannedBy(file, xc')
  <2>1. SpannedBy(file, xc)
    BY DEF TimesInv
  <2>2. Spanned(file, xc.firsttime, t)
    BY <1>1, <2>1, SpannedLonger DEF SpannedBy
  <2> QED
    BY <1>2, <2>1, <2>2 DEF SpannedBy
<1>6. TimesInv'
  BY <1>2, <1>3, <1>4, <1>5 DEF TimesInv, TableEndsNow, begin
<1> QED
  BY <1>1, <1>2, <1>3, <1>6, BlackoutsKept

\* A block that was asked for and has no changes only repeats a time.
LEMMA IdleFlushTimes ==
  ASSUME FstInv, FstInv', TimesInv, BlackoutsInv, phase = "writing", phase' = "writing",
         NEW t \in Nat, t >= xc.curtime, ~xc.initialTime, MayBe(t = xc.curtime),
         xc.flushPending, xc' = NextTime(RepeatTime(xc), t), file' = file,
         past' = [Extra(t = xc.curtime) EXCEPT !.idleFlush = TRUE]
  PROVE  TimesInv' /\ BlackoutsInv'
<1> DEFINE r == RepeatTime(xc)
<1>1. /\ xc \in Contexts /\ Aligned(xc) /\ IsFile(file)
      /\ xc.curtime \in Nat /\ xc.firsttime \in Nat
  BY OpenBlock DEF Contexts
<1>2. /\ r \in Contexts /\ r.curtime = xc.curtime /\ r.initialTime = xc.initialTime
      /\ r.firsttime = xc.firsttime /\ r.blackouts = xc.blackouts /\ r.flushPending = FALSE
  <2>1. r \in Contexts /\ r.curtime = xc.curtime /\ r.initialTime = xc.initialTime
    BY <1>1, RepeatTimeOK
  <2> QED
    BY <1>1, <2>1 DEF RepeatTime, Contexts
<1> HIDE DEF r
<1>3. /\ xc'.curtime = t /\ xc'.firsttime = xc.firsttime /\ xc'.initialTime = FALSE
      /\ xc'.blackouts = xc.blackouts /\ xc'.flushPending = FALSE
  <2>1. /\ NextTime(r, t).curtime = t /\ NextTime(r, t).firsttime = r.firsttime
        /\ NextTime(r, t).initialTime = r.initialTime
        /\ NextTime(r, t).blackouts = r.blackouts
        /\ NextTime(r, t).flushPending = r.flushPending
    BY <1>2, NextTimeTable
  <2>2. xc' = NextTime(r, t)
    BY DEF r
  <2>3. xc.initialTime = FALSE
    BY <1>1 DEF Contexts
  <2> QED
    BY <1>2, <2>1, <2>2, <2>3
<1>4. /\ past'.idleFlush = TRUE /\ past'.blackouts = past.blackouts
  <2> DEFINE p == Extra(t = xc.curtime)
  <2>1. /\ p \in Pasts /\ p.blackouts = past.blackouts
    BY ExtraCounted DEF FstInv, Types
  <2>2. past' = [p EXCEPT !.idleFlush = TRUE]
    OBVIOUS
  <2> HIDE DEF p
  <2> QED
    BY <2>1, <2>2 DEF Pasts
<1>5. SpannedBy(file, xc')
  <2>1. SpannedBy(file, xc)
    BY DEF TimesInv
  <2>2. Spanned(file, xc.firsttime, t)
    BY <1>1, <2>1, SpannedLonger DEF SpannedBy
  <2> QED
    BY <1>3, <2>1, <2>2 DEF SpannedBy
<1>6. TimesInv'
  BY <1>3, <1>4, <1>5 DEF TimesInv
<1> QED
  BY <1>1, <1>3, <1>4, <1>6, BlackoutsKept

\* A time change that finishes the block.
LEMMA FlushTimes ==
  ASSUME FstInv, FstInv', TimesInv, BlackoutsInv, phase = "writing", phase' = "writing",
         NEW t \in Nat, t >= xc.curtime, ~xc.initialTime, MayBe(t = xc.curtime),
         xc' = WithTime([RepeatTime(AfterFlush(file, xc)) EXCEPT !.tchnIdx = @ + 1], t),
         file' = FileAfterFlush(file, xc),
         past' = [Extra(t = xc.curtime) EXCEPT !.saved = Len(emitted)]
  PROVE  TimesInv' /\ BlackoutsInv'
<1> DEFINE begin == file.sections[Len(file.sections)].begin
           e == Emptied(xc)
           f == Finished(file, xc)
<1>1. /\ xc \in Contexts /\ Aligned(xc) /\ IsFile(file) /\ Adjoin(file) /\ LastIsOpen(file)
      /\ begin \in Nat /\ begin <= xc.curtime /\ xc.locked = FALSE /\ xc.initialTime = FALSE
      /\ xc.curtime \in Nat /\ xc.firsttime \in Nat /\ xc.tchn \in Seq(Nat)
  BY OpenBlock DEF Contexts
<1>2. /\ xc'.tchn = Append(Append(<<>>, xc.curtime), t - xc.curtime) /\ xc'.curtime = t
      /\ xc'.firsttime = xc.firsttime
      /\ xc'.initialTime = IF Full(file, xc) THEN TRUE ELSE xc.initialTime
      /\ xc'.locked = IF Full(file, xc) THEN TRUE ELSE xc.locked
      /\ xc'.blackouts = xc.blackouts /\ xc'.flushPending = FALSE
  <2>1. xc \in Contexts /\ t \in Nat
    BY <1>1
  <2>2. xc' = WithTime([RepeatTime(AfterFlush(file, xc)) EXCEPT !.tchnIdx = @ + 1], t)
    OBVIOUS
  <2>3. GoneOn(file, xc, t, xc')
    BY ONLY <2>1, <2>2, AfterFlushTable, Zenon
  <2> QED
    BY <2>3 DEF GoneOn
<1>3. /\ past'.idleFlush = past.idleFlush /\ past'.blackouts = past.blackouts
  <2> DEFINE p == Extra(t = xc.curtime)
  <2>1. /\ p \in Pasts /\ p.blackouts = past.blackouts /\ p.idleFlush = past.idleFlush
    BY ExtraCounted DEF FstInv, Types
  <2>2. past' = [p EXCEPT !.saved = Len(emitted)]
    OBVIOUS
  <2> HIDE DEF p
  <2> QED
    BY <2>1, <2>2 DEF Pasts
<1>4. e \in Contexts /\ e.curtime = xc.curtime /\ e.initialTime = FALSE
  BY <1>1, EmptiedOK
<1>5. /\ IsFile(f) /\ f.blackouts = file.blackouts /\ Len(f.sections) = Len(file.sections)
  <2>1. Len(file.sections) \in DOMAIN file.sections /\ file.sections # <<>>
    BY <1>1, SectionsAre DEF LastIsOpen
  <2> QED
    BY <1>1, <2>1, FinishedIs, SameBlackouts DEF LastIsOpen
<1>6. xc.firsttime <= begin /\ Spanned(file, xc.firsttime, xc.curtime)
  BY <1>1 DEF TimesInv, SpannedBy
<1>7. ~past.idleFlush => TablesWithin(file) /\ Within(xc.tchn, begin, xc.curtime)
  BY <1>1 DEF TimesInv, TableEndsNow
<1>8. /\ Spanned(f, xc.firsttime, xc.curtime)
      /\ ~past.idleFlush => TablesWithin(f)
  BY <1>1, <1>6, <1>7, FinishedTimes
<1> HIDE DEF e, f
<1>9. Spanned(f, xc.firsttime, t)
  BY <1>1, <1>5, <1>8, SpannedLonger
<1>10. CASE Full(file, xc)
  <2>1. file' = f
    BY <1>10 DEF FileAfterFlush, f
  <2>2. SpannedBy(file', xc') /\ TableEndsNow(file', xc')
    BY <1>2, <1>9, <1>10, <2>1 DEF SpannedBy, TableEndsNow
  <2>3. TimesInv'
    BY <1>2, <1>3, <1>8, <1>10, <2>1, <2>2 DEF TimesInv
  <2> QED
    BY <1>1, <1>2, <1>3, <1>5, <2>1, <2>3, BlackoutsKept
<1>11. CASE ~Full(file, xc)
  <2> DEFINE g == WithHeader(f, e)
  <2>1. file' = g
    BY <1>11 DEF FileAfterFlush, f, e
  <2>2. /\ Len(g.sections) = Len(f.sections) + 1
        /\ g.sections[Len(f.sections) + 1].begin = e.curtime
    BY <1>4, <1>5, WithHeaderIs
  <2>3. /\ ~past.idleFlush => TablesWithin(g)
        /\ Spanned(g, xc.firsttime, t)
    BY <1>4, <1>5, <1>8, <1>9, HeaderTimes
  <2>4. g.blackouts = file.blackouts
    BY <1>5, SameBlackouts
  <2> HIDE DEF g
  <2>5. g.sections[Len(g.sections)].begin = xc.curtime
    BY <1>4, <2>2
  <2>6. EndsAt(xc'.tchn, t) /\ Within(xc'.tchn, xc.curtime, t)
    <3> DEFINE c == xc.curtime
    <3>1. <<>> \in Seq(Nat) /\ EndsAt(<<>>, 0) /\ Within(<<>>, c, 0)
      BY TableEmpty
    <3>2. c \in Nat /\ c - 0 = c /\ 0 <= c /\ c <= c /\ c <= t
      BY <1>1
    <3>3. /\ Append(<<>>, c - 0) \in Seq(Nat) /\ EndsAt(Append(<<>>, c - 0), c)
          /\ Within(Append(<<>>, c - 0), c, c)
      BY ONLY <3>1, <3>2, TableAppend, 0 \in Nat
    <3> DEFINE d == Append(<<>>, c)
    <3>4. d \in Seq(Nat) /\ EndsAt(d, c) /\ Within(d, c, c)
      BY <3>2, <3>3
    <3> HIDE DEF d, c
    <3>5. LET q == Append(d, t - c) IN EndsAt(q, t) /\ Within(q, c, t)
      BY ONLY <3>2, <3>4, TableAppend, t \in Nat
    <3> QED
      BY <1>2, <3>5 DEF d, c
  <2>7. SpannedBy(file', xc')
    <3>1. xc.firsttime <= xc.curtime
      BY <1>1, <1>6
    <3> QED
      BY <1>2, <2>1, <2>3, <2>5, <3>1 DEF SpannedBy
  <2>8. TableEndsNow(file', xc')
    BY <1>1, <1>2, <1>11, <2>1, <2>5, <2>6 DEF TableEndsNow
  <2>9. TimesInv'
    BY <1>1, <1>2, <1>3, <1>11, <2>1, <2>3, <2>7, <2>8 DEF TimesInv
  <2> QED
    BY <1>1, <1>2, <1>3, <2>1, <2>4, <2>9, BlackoutsKept
<1> QED
  BY <1>10, <1>11

\* The concatenation of the first n sequences.
IsConcat(g, seqs, n) ==
    g = [k \in 1..n |-> IF k = 1 THEN seqs[k] ELSE g[k - 1] \o seqs[k]]

\* The number of changes in memory is a number.
LEMMA PendingIs ==
  ASSUME NEW c \in Contexts
  PROVE  Pending(c) \in Nat
<1> DEFINE s == c.vchg
           m == Len(s)
           S == {n \in 0..m : \E g : IsConcat(g, s, n) /\ \A k \in 1..n : g[k] \in Seq(Changes)}
<1>1. /\ s \in Seq(Seq(Changes)) /\ m \in Nat /\ DOMAIN s = 1..m
      /\ \A k \in 1..m : s[k] \in Seq(Changes)
  BY DEF Contexts
<1> HIDE DEF s
<1>2. 0 \in S
  <2> DEFINE g == [k \in 1..0 |-> 0]
  <2>1. IsConcat(g, s, 0) /\ \A k \in 1..0 : g[k] \in Seq(Changes)
    BY DEF IsConcat
  <2> HIDE DEF g
  <2> QED
    BY <1>1, <2>1
<1>3. ASSUME NEW n \in 0..(m - 1), n \in S
      PROVE  n + 1 \in S
  <2>1. PICK g : IsConcat(g, s, n) /\ \A k \in 1..n : g[k] \in Seq(Changes)
    BY <1>3
  <2> DEFINE e == IF n = 0 THEN s[1] ELSE g[n] \o s[n + 1]
             h == [k \in 1..(n + 1) |-> IF k = n + 1 THEN e ELSE g[k]]
  <2>2. e \in Seq(Changes)
    <3>1. CASE n = 0
      BY <1>1, <3>1
    <3>2. CASE n # 0
      <4>1. n \in 1..n /\ n + 1 \in 1..m
        BY <1>1, <3>2
      <4>2. g[n] \in Seq(Changes) /\ s[n + 1] \in Seq(Changes)
        BY <1>1, <2>1, <4>1
      <4>3. g[n] \o s[n + 1] \in Seq(Changes)
        BY <4>2
      <4> QED
        BY <3>2, <4>3
    <3> QED
      BY <3>1, <3>2
  <2> HIDE DEF e
  <2>3. /\ h = [k \in DOMAIN h |-> h[k]] /\ DOMAIN h = 1..(n + 1)
        /\ h[n + 1] = e /\ \A k \in 1..n : h[k] = g[k]
    BY <1>1
  <2> HIDE DEF h
  <2>4. \A k \in 1..n : g[k] = IF k = 1 THEN s[k] ELSE g[k - 1] \o s[k]
    BY Zenon, <2>1 DEF IsConcat
  <2>5. ASSUME NEW k \in 1..(n + 1)
        PROVE  /\ h[k] = IF k = 1 THEN s[k] ELSE h[k - 1] \o s[k]
               /\ h[k] \in Seq(Changes)
    <3>1. CASE k = n + 1
      <4>1. CASE n = 0
        <5>1. k = 1 /\ h[k] = e /\ e = s[1]
          BY <2>3, <3>1, <4>1 DEF e
        <5> QED
          BY <2>2, <5>1
      <4>2. CASE n # 0
        <5>1. k # 1 /\ k - 1 = n /\ n \in 1..n
          BY <3>1, <4>2
        <5>2. h[k] = e /\ e = g[n] \o s[k] /\ h[k - 1] = g[n]
          BY <2>3, <3>1, <4>2, <5>1 DEF e
        <5> QED
          BY <2>2, <5>1, <5>2
      <4> QED
        BY <4>1, <4>2
    <3>2. CASE k \in 1..n
      <4>1. k # 1 => k - 1 \in 1..n
        BY <3>2
      <4>2. h[k] = g[k] /\ (k # 1 => h[k - 1] = g[k - 1])
        BY <2>3, <3>2, <4>1
      <4> QED
        BY <2>1, <2>4, <3>2, <4>2
    <3> QED
      BY <1>1, <3>1, <3>2
  <2>6. IsConcat(h, s, n + 1)
    BY <2>3, <2>5 DEF IsConcat
  <2>7. n + 1 \in 0..m
    BY <1>1, <1>3
  <2> QED
    BY <2>5, <2>6, <2>7
<1>4. m \in S
  <2> HIDE DEF S
  <2>1. 0..m \subseteq S
    BY <1>1, <1>2, <1>3, Facts!SetInductionUpTo
  <2> QED
    BY <1>1, <2>1
<1>5. FlattenSeq(s) \in Seq(Changes)
  <2>1. CASE m = 0
    <3>1. FlattenSeq(s) = s /\ s = <<>>
      BY <1>1, <2>1 DEF FlattenSeq
    <3> QED
      BY <3>1
  <2>2. CASE m # 0
    <3> DEFINE f == CHOOSE g : IsConcat(g, s, m)
    <3>1. FlattenSeq(s) = f[m]
      BY <2>2 DEF FlattenSeq, IsConcat
    <3>2. PICK g : IsConcat(g, s, m) /\ \A k \in 1..m : g[k] \in Seq(Changes)
      BY <1>4
    <3>3. IsConcat(f, s, m)
      BY <3>2
    <3> HIDE DEF f
    <3> DEFINE T == {k \in 0..m : k = 0 \/ f[k] \in Seq(Changes)}
    <3>4. 0 \in T
      BY <1>1
    <3>5. ASSUME NEW k \in 0..(m - 1), k \in T
          PROVE  k + 1 \in T
      <4>1. k + 1 \in 1..m /\ k + 1 \in 0..m /\ (k + 1) - 1 = k /\ (k + 1 = 1 <=> k = 0)
        BY <1>1
      <4>2. f[k + 1] = IF k + 1 = 1 THEN s[k + 1] ELSE f[(k + 1) - 1] \o s[k + 1]
        BY ONLY <3>3, <4>1, Zenon DEF IsConcat
      <4>3. s[k + 1] \in Seq(Changes)
        BY <1>1, <4>1
      <4>4. CASE k = 0
        BY <4>1, <4>2, <4>3, <4>4
      <4>5. CASE k # 0
        <5>1. f[k] \in Seq(Changes) /\ f[k + 1] = f[k] \o s[k + 1]
          BY <3>5, <4>1, <4>2, <4>5
        <5>2. f[k + 1] \in Seq(Changes)
          BY <4>3, <5>1
        <5> QED
          BY <4>1, <5>2
      <4> QED
        BY <4>4, <4>5
    <3> HIDE DEF T
    <3>6. 0..m \subseteq T
      BY <1>1, <3>4, <3>5, Facts!SetInductionUpTo
    <3>7. f[m] \in Seq(Changes)
      BY <1>1, <2>2, <3>6, SMTT(30) DEF T
    <3> QED
      BY <3>1, <3>7
  <2> QED
    BY <2>1, <2>2
<1> QED
  BY <1>5 DEF Pending, s

\* A time change does one of these.
LEMMA EmitTimeChangeTimes ==
  ASSUME FstInv, FstInv', TimesInv, BlackoutsInv, NEW t \in EmitTimes, EmitTimeChange(t)
  PROVE  TimesInv' /\ BlackoutsInv'
<1>1. /\ phase = "writing" /\ ~xc.initialTime /\ t \in Nat /\ t >= xc.curtime
      /\ MayBe(t = xc.curtime)
  BY FstAssumption DEF EmitTimeChange
<1>2. CASE MustFlush(xc) /\ Crashes(xc)
  BY <1>1, <1>2, LoseTimes DEF EmitTimeChange
<1>3. CASE MustFlush(xc) /\ ~Crashes(xc) /\ Pending(xc) > 0
  <2>1. /\ xc' = WithTime([RepeatTime(AfterFlush(file, xc)) EXCEPT !.tchnIdx = @ + 1], t)
        /\ file' = FileAfterFlush(file, xc) /\ phase' = phase
        /\ past' = [Extra(t = xc.curtime) EXCEPT !.saved = Len(emitted)]
    BY <1>3 DEF EmitTimeChange
  <2> QED
    BY <1>1, <2>1, FlushTimes
<1>4. CASE MustFlush(xc) /\ ~Crashes(xc) /\ ~(Pending(xc) > 0)
  <2>1. /\ xc' = NextTime(RepeatTime(xc), t)
        /\ file' = file /\ phase' = phase
        /\ past' = [Extra(t = xc.curtime) EXCEPT !.idleFlush = TRUE]
    BY <1>4 DEF EmitTimeChange
  <2>2. xc.flushPending
    <3>1. Pending(xc) \in Nat /\ BreakSize \in Nat \ {0}
      BY PendingIs, FstAssumption DEF FstInv, Types
    <3> QED
      BY <1>4, <3>1 DEF MustFlush
  <2> QED
    BY <1>1, <2>1, <2>2, IdleFlushTimes
<1>5. CASE ~MustFlush(xc)
  <2>1. /\ xc' = NextTime(xc, t) /\ file' = file /\ phase' = phase
        /\ past' = Extra(t = xc.curtime)
    BY <1>5 DEF EmitTimeChange
  <2> QED
    BY <1>1, <2>1, NextTimeTimes
<1> QED
  BY <1>2, <1>3, <1>4, <1>5

\* What a closed file says of its times is what the writer knew.
LEMMA ClosedTimes ==
  ASSUME FstInv, TimesInv, BlackoutsInv, phase = "writing", NEW f, IsFile(f), NEW c \in Contexts,
         ClosedAs(Finalized(f, c)), c.blackouts = xc.blackouts,
         ~past.idleFlush => TablesWithin(f), Spanned(f, c.firsttime, c.curtime)
  PROVE  TimesInv' /\ BlackoutsInv'
<1> DEFINE g == Finalized(f, c)
<1>1. /\ phase' = "closed" /\ file' = g
      /\ past'.idleFlush = past.idleFlush /\ past'.blackouts = past.blackouts
  BY DEF ClosedAs, Ended, FstInv, Types, Pasts
<1>2. /\ g.sections = f.sections
      /\ g.header.start = c.firsttime /\ g.header.end = c.curtime
  BY DEF Finalized, IsFile, FilesOf
<1>3. BlackoutTimes(g) = c.blackouts
  BY BlackoutsTelescope
<1> HIDE DEF g
<1>4. TablesWithin(f) => TablesWithin(g)
  BY <1>2 DEF TablesWithin, Blocks
<1>5. Spanned(g, g.header.start, g.header.end)
  BY <1>2 DEF Spanned, Blocks
<1> QED
  BY <1>1, <1>3, <1>4, <1>5 DEF TimesInv, BlackoutsInv

\* Closing a file whose last block is open.
LEMMA CloseFlushingTimes ==
  ASSUME FstInv, TimesInv, BlackoutsInv, phase = "writing", NEW f, IsFile(f), NEW c \in Contexts,
         CloseFlushing(f, c), LastIsOpen(f), Adjoin(f),
         NEW begin, begin = f.sections[Len(f.sections)].begin, begin <= c.curtime,
         c.blackouts = xc.blackouts,
         ~past.idleFlush => TablesWithin(f) /\ Within(c.tchn, begin, c.curtime),
         Spanned(f, c.firsttime, c.curtime), c.firsttime <= begin
  PROVE  TimesInv' /\ BlackoutsInv'
<1>1. CASE Pending(c) = 0
  <2>1. ClosedAs(Finalized(f, c))
    BY <1>1 DEF CloseFlushing
  <2> QED
    BY <2>1, ClosedTimes
<1>2. CASE Pending(c) # 0 /\ Crashes(c)
  BY <1>2, LoseTimes DEF CloseFlushing
<1>3. CASE Pending(c) # 0 /\ ~Crashes(c)
  <2> DEFINE e == Finished(f, c)
  <2>1. ClosedAs(Finalized(e, c))
    BY <1>3 DEF CloseFlushing
  <2>2. IsFile(e)
    BY FinishedFile
  <2>3. /\ ~past.idleFlush => TablesWithin(e)
        /\ Spanned(e, c.firsttime, c.curtime)
    BY FinishedTimes
  <2> HIDE DEF e
  <2> QED
    BY <2>1, <2>2, <2>3, ClosedTimes
<1> QED
  BY <1>1, <1>2, <1>3

\* fstWriterClose
LEMMA CloseTimes ==
  ASSUME FstInv, TimesInv, BlackoutsInv, Close
  PROVE  TimesInv' /\ BlackoutsInv'
<1>1. /\ phase = "writing" /\ xc.lens # <<>>
      /\ xc \in Contexts /\ Aligned(xc) /\ IsFile(file) /\ Ready(file, xc) /\ Adjoin(file)
      /\ Spanned(file, xc.firsttime, xc.curtime)
  BY DEF Close, FstInv, Types, Writing, BlocksAdjoin, TimesInv, SpannedBy
<1>2. CASE CutOff(file, xc)
  <2> DEFINE e == [file EXCEPT !.sections = Front(@)]
             n == Len(file.sections)
  <2>1. ClosedAs(Finalized(e, xc))
    BY <1>2 DEF Close
  <2>2. LastIsOpen(file)
    BY <1>1, <1>2 DEF CutOff, Ready, Blocked
  <2>3. IsFile(e) /\ Len(e.sections) = n - 1 /\ \A k \in 1..(n - 1) : e.sections[k] = file.sections[k]
    BY <1>1, <2>2, CutOffIs DEF LastIsOpen
  <2> HIDE DEF e
  <2>4. n \in Nat /\ DOMAIN file.sections = 1..n /\ DOMAIN e.sections = 1..(n - 1)
    BY <1>1, <2>3, SectionsAre
  <2>5. Blocks(e) \subseteq Blocks(file) /\ \A k \in Blocks(e) : e.sections[k] = file.sections[k]
    BY <2>3, <2>4 DEF Blocks
  <2>6. /\ ~past.idleFlush => TablesWithin(e)
        /\ Spanned(e, xc.firsttime, xc.curtime)
    BY <1>1, <2>5, FewerBlocks DEF TimesInv
  <2> QED
    BY <1>1, <2>1, <2>3, <2>6, ClosedTimes
<1>3. CASE ~CutOff(file, xc) /\ xc.locked
  <2>1. ClosedAs(Finalized(file, xc))
    BY <1>3 DEF Close
  <2>2. ~past.idleFlush => TablesWithin(file)
    BY DEF TimesInv
  <2> QED
    BY <1>1, <2>1, <2>2, ClosedTimes
<1>4. CASE ~CutOff(file, xc) /\ ~xc.locked /\ xc.initialTime
  <2> DEFINE f == MockedFile(file, xc)
             c == Mocked(xc)
  <2>1. CloseFlushing(f, c)
    BY <1>4 DEF Close
  <2>2. /\ IsFile(f) /\ LastIsOpen(f) /\ Len(f.sections) = 1 /\ Adjoin(f)
        /\ f.sections[1].begin = BeginTime(xc, 0).firsttime
    BY <1>1, <1>4, StartedFile DEF MockedFile
  <2>3. c \in Contexts
    BY <1>1, MockedOK
  <2>4. /\ c.tchn = Append(xc.tchn, 0) /\ c.curtime = 0 /\ c.firsttime = 0
        /\ c.blackouts = xc.blackouts /\ BeginTime(xc, 0).firsttime = 0
    BY <1>1, MockedTable
  <2> HIDE DEF f, c
  <2>5. TablesWithin(f) /\ Spanned(f, c.firsttime, c.curtime)
    BY <2>2, StartedTimes
  <2>6. ~past.idleFlush => Within(c.tchn, 0, 0)
    <3> SUFFICES ASSUME ~past.idleFlush PROVE Within(c.tchn, 0, 0)
      OBVIOUS
    <3>1. xc.tchn = <<>>
      BY <1>1, <1>4 DEF TimesInv, TableEndsNow
    <3>2. <<>> \in Seq(Nat) /\ EndsAt(<<>>, 0) /\ Within(<<>>, 0, 0)
      BY TableEmpty
    <3>3. Within(Append(<<>>, 0 - 0), 0, 0)
      BY ONLY <3>2, TableAppend, 0 \in Nat, 0 <= 0
    <3>4. 0 - 0 = 0
      OBVIOUS
    <3> QED
      BY <2>4, <3>1, <3>3, <3>4
  <2>7. /\ 0 = f.sections[Len(f.sections)].begin /\ 0 <= c.curtime /\ c.firsttime <= 0
        /\ ~past.idleFlush => TablesWithin(f) /\ Within(c.tchn, 0, c.curtime)
    BY <2>2, <2>4, <2>5, <2>6
  <2> QED
    BY <1>1, <2>1, <2>2, <2>3, <2>4, <2>5, <2>7, CloseFlushingTimes
<1>5. CASE ~CutOff(file, xc) /\ ~xc.locked /\ ~xc.initialTime
  <2> DEFINE begin == file.sections[Len(file.sections)].begin
  <2>1. CloseFlushing(file, xc)
    BY <1>5 DEF Close
  <2>2. LastIsOpen(file) /\ begin <= xc.curtime
    BY <1>1, <1>5, OpenBlock
  <2>3. xc.firsttime <= begin
    BY <1>1, <1>5 DEF TimesInv, SpannedBy
  <2>4. ~past.idleFlush => TablesWithin(file) /\ Within(xc.tchn, begin, xc.curtime)
    BY <1>1, <1>5 DEF TimesInv, TableEndsNow
  <2> HIDE DEF begin
  <2> QED
    BY <1>1, <2>1, <2>2, <2>3, <2>4, CloseFlushingTimes DEF begin
<1> QED
  BY <1>2, <1>3, <1>4, <1>5

\* Every step of the writer keeps the times and the blackouts.
LEMMA WriteTimes ==
  ASSUME FstInv, FstInv', TimesInv, BlackoutsInv, Write
  PROVE  TimesInv' /\ BlackoutsInv'
<1> USE DEF Write, WriterNext
<1>1. CASE \E len \in Lengths : CreateVar(len)
  BY <1>1, CreateVarTimes
<1>2. CASE \E h \in Handles : \E v \in Values[xc.lens[h]] : EmitValueChange(h, v)
  BY <1>2, EmitValueChangeTimes
<1>3. CASE \E t \in EmitTimes : EmitFirstTime(t) \/ EmitTimeChange(t)
  BY <1>3, EmitFirstTimeTimes, EmitTimeChangeTimes
<1>4. CASE FlushContext
  BY <1>4, FlushContextTimes
<1>5. CASE \E active \in BOOLEAN : EmitDumpActive(active)
  BY <1>5, EmitDumpActiveTimes
<1>6. CASE Close
  BY <1>6, CloseTimes
<1>7. CASE Die
  BY <1>7, LoseTimes DEF Die
<1> QED
  BY <1>1, <1>2, <1>3, <1>4, <1>5, <1>6, <1>7 DEF Lengths

\* At first there are no times and no blackouts.
LEMMA TimesStart == Init => TimesInv /\ BlackoutsInv
<1> SUFFICES ASSUME Init PROVE TimesInv /\ BlackoutsInv
  OBVIOUS
<1>1. PICK limit \in SizeLimits : xc = [NoContext EXCEPT !.limit = limit]
  BY DEF Init, WriterInit
<1>2. /\ xc.tchn = <<>> /\ xc.curtime = 0 /\ xc.initialTime = TRUE /\ xc.firsttime = 0
      /\ xc.blackouts = <<>> /\ xc.flushPending = FALSE
  BY <1>1 DEF NoContext
<1>3. /\ phase = "writing" /\ file.sections = <<>> /\ file.blackouts = <<>>
      /\ past.idleFlush = FALSE /\ past.blackouts = <<>>
  BY DEF Init, WriterInit, NoFile
<1>4. Blocks(file) = {}
  BY <1>3 DEF Blocks
<1> QED
  BY <1>2, <1>3, <1>4
     DEF TimesInv, BlackoutsInv, TablesWithin, TableEndsNow, SpannedBy, Spanned, InOrder

------------------------------------------------------------------------------
(* The reader. *)

\* What is delivered of a dump is dated; an answer has the time that was asked for.
DatedIn(o) == {i \in DOMAIN o : o[i].kind # "answer"}
SeenIn(o)  == {i \in DOMAIN o : o[i].kind = "blackout"}
MarksIn(o) == {i \in DOMAIN o : o[i].kind = "mark"}

\* How many blackouts have been delivered up to one of them.
CountIn(o, i) == Cardinality({j \in SeenIn(o) : j <= i})

Ascends(o) == \A i, j \in DatedIn(o) : i < j => o[i].time <= o[j].time
UpTo(o, t) == \A i \in DatedIn(o) : o[i].time <= t

\* VCD text of a part of the dump.
Cut == rd.use = "vcd" /\ Limited

\* The times of what was delivered.
TimesTold(o) ==
    /\ \A i \in DatedIn(o) : o[i].time \in Nat
    /\ ~past.idleFlush => Ascends(o)
    /\ phase = "closed" /\ ~past.idleFlush => \A i \in DatedIn(o) : o[i].time \in rd.start..rd.end
    /\ Cut => UpTo(o, rd.range[2])

\* A time that may come next.
MayTell(o, t) ==
    /\ t \in Nat
    /\ ~past.idleFlush => UpTo(o, t)
    /\ phase = "closed" /\ ~past.idleFlush => t \in rd.start..rd.end
    /\ Cut => t <= rd.range[2]

\* The blackouts before the n-th were delivered.
SeenTold(o, n) ==
    /\ n \in Nat \ {0} /\ n <= Len(rd.blackouts) + 1
    /\ Cardinality(SeenIn(o)) = n - 1
    /\ \A i \in SeenIn(o) : /\ CountIn(o, i) \in DOMAIN rd.blackouts
                            /\ o[i] = Switch(rd.blackouts[CountIn(o, i)])

\* The time of the n-th was not; times that are not one another's are needed.
Awaited(o, n) ==
    (/\ phase = "closed" /\ rd.use = "vcd" /\ ~past.idleFlush
     /\ IsInjective([k \in DOMAIN past.blackouts |-> past.blackouts[k].time])
     /\ n \in DOMAIN past.blackouts)
    => \A i \in MarksIn(o) : o[i].time # past.blackouts[n].time

\* What was delivered, with the blackouts up to the n-th.
Told(o, n) == o \in Seq(ToSet(o)) /\ TimesTold(o) /\ SeenTold(o, n) /\ Awaited(o, n)

\* fstReaderIterBlocks2: its local variables.
IsCursor(c) ==
    c \in [pc : {"block", "changes", "done"}, k : 1..(Len(file.sections) + 1), secnum : Nat,
           skipped : BOOLEAN, index : {c.index}, chains : {c.chains}, heads : {c.heads},
           i : Nat \cup {-1}, previous : Nat \cup {-1}, blackout : Nat]

\* A handle is in one list, once.
Once(heads) ==
    \A i, j \in DOMAIN heads : \A p \in DOMAIN heads[i], q \in DOMAIN heads[j] :
        heads[i][p] = heads[j][q] => i = j /\ p = q

\* Lists of members of S, each in one of them at most.
AreLists(heads, D, S) == heads \in [D -> Seq(S)] /\ Once(heads)

\* The time at an index of the time table, which starts at 0; before is the begin.
Clock(s, i) == IF i = -1 THEN s.begin ELSE TimeTable(s)[i + 1]

\* The block of a cursor, and the time that has come in it.
At(c)  == file.sections[c.k]
Now(c) == Clock(At(c), c.i)

\* The reader between two blocks and inside of one.
Between(c, o) == c.k \in Blocks(file) /\ ~past.idleFlush => UpTo(o, At(c).begin)
Inside(c, o) ==
    /\ c.k \in Blocks(file)
    /\ c.i < Len(At(c).times)
    /\ MayTell(o, Now(c))
    /\ AreLists(c.heads, 0..(Len(At(c).times) - 1), DOMAIN rd.lens)

\* A reader that delivers.
Running(c, o) ==
    /\ rd.pc = "open" /\ rd.use # "lookup"
    /\ IsCursor(c) /\ Told(o, c.blackout)
    /\ Cut => c.previous <= rd.range[2]
    /\ c.pc = "block" => Between(c, o)
    /\ c.pc = "changes" => Inside(c, o)

\* One that has delivered nothing, or gives answers.
Resting == it = [pc |-> "idle"] /\ out \in Seq(ToSet(out)) /\ DatedIn(out) = {}

\* What opening has found.
IsOpen ==
    /\ rd = [pc |-> "open", start |-> StartTime(file), end |-> EndTime(file),
             lens |-> SignalLens(file), count |-> Cardinality(Blocks(file)),
             blackouts |-> BlackoutTimes(file), mask |-> rd.mask, range |-> rd.range,
             use |-> rd.use]
    /\ Readable(file)
    /\ rd.range \in {<<>>} \cup (Nat \X Nat)

\* What a reader remembers of its lookups.
IsCache(c) ==
    c \in [block : 0..Len(file.sections), handle : {c.handle}, valid : {c.valid}, at : {c.at},
           before : {c.before}, time : {c.time}]

\* The reader: it opens a file that no writer changes any more.
ReaderInv ==
    /\ rd.pc \in {"closed", "failed", "open", "derailed"}
    /\ rd.pc = "closed" => rv.block = 0
    /\ rd.pc # "closed" => phase # "writing"
    /\ rd.pc = "open" => IsOpen
    /\ IsCache(rv)
    /\ Resting \/ Running(it, out)

------------------------------------------------------------------------------
(* What is delivered. *)

\* Two sequences, one behind the other.
LEMMA Joined ==
  ASSUME NEW o, o \in Seq(ToSet(o)), NEW e, e \in Seq(ToSet(e))
  PROVE  /\ o \o e \in Seq(ToSet(o \o e))
         /\ Len(o) \in Nat /\ DOMAIN o = 1..Len(o)
         /\ Len(e) \in Nat /\ DOMAIN e = 1..Len(e)
         /\ DOMAIN (o \o e) = 1..(Len(o) + Len(e))
         /\ \A k \in DOMAIN o : (o \o e)[k] = o[k]
         /\ \A k \in DOMAIN e : (o \o e)[Len(o) + k] = e[k]
<1> DEFINE S == ToSet(o) \cup ToSet(e)
           j == o \o e
<1>1. o \in Seq(S) /\ e \in Seq(S)
  OBVIOUS
<1> HIDE DEF S
<1>2. /\ j \in Seq(S)
      /\ Len(o) \in Nat /\ DOMAIN o = 1..Len(o)
      /\ Len(e) \in Nat /\ DOMAIN e = 1..Len(e)
      /\ Len(j) = Len(o) + Len(e) /\ DOMAIN j = 1..(Len(o) + Len(e))
      /\ \A k \in DOMAIN o : j[k] = o[k]
      /\ \A k \in DOMAIN e : j[Len(o) + k] = e[k]
  BY <1>1
<1> HIDE DEF j
<1>3. j \in Seq(ToSet(j))
  BY <1>2, SMTT(30) DEF ToSet
<1> QED
  BY <1>2, <1>3 DEF j

\* Where an entry of two joined sequences comes from.
LEMMA JoinedFrom ==
  ASSUME NEW o, o \in Seq(ToSet(o)), NEW e, e \in Seq(ToSet(e)), NEW i \in DOMAIN (o \o e)
  PROVE  \/ i \in DOMAIN o /\ (o \o e)[i] = o[i]
         \/ i > Len(o) /\ i - Len(o) \in DOMAIN e /\ (o \o e)[i] = e[i - Len(o)]
<1> DEFINE j == o \o e
           n == Len(o)
           m == Len(e)
<1>1. /\ n \in Nat /\ DOMAIN o = 1..n /\ m \in Nat /\ DOMAIN e = 1..m
      /\ DOMAIN j = 1..(n + m)
      /\ \A k \in DOMAIN o : j[k] = o[k]
      /\ \A k \in DOMAIN e : j[n + k] = e[k]
  BY Joined
<1>2. i \in DOMAIN j
  OBVIOUS
<1> HIDE DEF j, n, m
<1>3. CASE i \in 1..n
  BY <1>1, <1>3 DEF j
<1>4. CASE i > n
  <2>1. i - n \in 1..m /\ n + (i - n) = i
    BY <1>1, <1>2, <1>4
  <2> QED
    BY <1>1, <1>4, <2>1 DEF j, n
<1> QED
  BY <1>1, <1>2, <1>3, <1>4

\* Entries of one time, which is not earlier than what was delivered.
LEMMA TimesTellMore ==
  ASSUME NEW o, o \in Seq(ToSet(o)), TimesTold(o), NEW t, MayTell(o, t),
         NEW e, e \in Seq(ToSet(e)), \A k \in DOMAIN e : e[k].time = t
  PROVE  TimesTold(o \o e) /\ MayTell(o \o e, t)
<1> DEFINE j == o \o e
<1>1. \A i \in DOMAIN j : \/ i \in DOMAIN o /\ j[i] = o[i]
                          \/ i > Len(o) /\ j[i].time = t
  BY JoinedFrom
<1>2. Len(o) \in Nat /\ DOMAIN o = 1..Len(o) /\ DOMAIN j \subseteq Nat
  BY Joined
<1> HIDE DEF j
<1>3. \A i \in DatedIn(j) : \/ i \in DatedIn(o) /\ j[i] = o[i]
                            \/ i > Len(o) /\ j[i].time = t
  BY <1>1 DEF DatedIn
<1>4. \A i \in DatedIn(o) : o[i].time \in Nat
  BY DEF TimesTold
<1>5. t \in Nat
  BY DEF MayTell
<1>6. \A i \in DatedIn(j) : j[i].time \in Nat
  BY <1>3, <1>4, <1>5
<1>7. ~past.idleFlush => UpTo(j, t) /\ Ascends(j)
  <2> SUFFICES ASSUME ~past.idleFlush PROVE UpTo(j, t) /\ Ascends(j)
    OBVIOUS
  <2>1. \A i \in DatedIn(o) : o[i].time <= t
    BY DEF MayTell, UpTo
  <2>2. \A i \in DatedIn(j) : j[i].time <= t
    BY <1>3, <1>5, <2>1
  <2>3. ASSUME NEW i \in DatedIn(j), NEW k \in DatedIn(j), i < k
        PROVE  j[i].time <= j[k].time
    <3>1. CASE k > Len(o)
      <4>1. k \notin DatedIn(o)
        BY <1>2, <3>1 DEF DatedIn
      <4> QED
        BY <1>3, <2>2, <4>1
    <3>2. CASE k \in DatedIn(o) /\ j[k] = o[k]
      <4>1. i \in Nat /\ k \in Nat /\ k <= Len(o)
        BY <1>2, <3>2 DEF DatedIn
      <4>2. ~(i > Len(o))
        BY <1>2, <2>3, <4>1
      <4>3. i \in DatedIn(o) /\ j[i] = o[i]
        BY <1>3, <4>2
      <4>4. o[i].time <= o[k].time
        BY <2>3, <3>2, <4>3 DEF TimesTold, Ascends
      <4> QED
        BY <3>2, <4>3, <4>4
    <3> QED
      BY <1>3, <3>1, <3>2
  <2> QED
    BY <2>2, <2>3 DEF UpTo, Ascends
<1>8. phase = "closed" /\ ~past.idleFlush => \A i \in DatedIn(j) : j[i].time \in rd.start..rd.end
  BY <1>3 DEF TimesTold, MayTell
<1>9. Cut => UpTo(j, rd.range[2])
  BY <1>3 DEF TimesTold, MayTell, UpTo
<1> QED
  BY <1>5, <1>6, <1>7, <1>8, <1>9 DEF TimesTold, MayTell, j

\* Entries that are no blackouts.
LEMMA NoneSeen ==
  ASSUME NEW o, o \in Seq(ToSet(o)), NEW n, SeenTold(o, n),
         NEW e, e \in Seq(ToSet(e)), \A k \in DOMAIN e : e[k].kind # "blackout"
  PROVE  SeenTold(o \o e, n)
<1> DEFINE j == o \o e
<1>1. \A i \in DOMAIN j : \/ i \in DOMAIN o /\ j[i] = o[i]
                          \/ i > Len(o) /\ j[i].kind # "blackout"
  BY JoinedFrom
<1>2. /\ Len(o) \in Nat /\ DOMAIN o = 1..Len(o) /\ DOMAIN o \subseteq DOMAIN j
      /\ \A i \in DOMAIN o : j[i] = o[i]
  BY Joined
<1> HIDE DEF j
<1>3. SeenIn(j) = SeenIn(o) /\ \A i \in SeenIn(o) : j[i] = o[i]
  BY <1>1, <1>2 DEF SeenIn
<1>4. \A i \in SeenIn(o) : CountIn(j, i) = CountIn(o, i)
  BY <1>3 DEF CountIn
<1> QED
  BY <1>3, <1>4 DEF SeenTold, j

\* The next blackout.
LEMMA OneSeen ==
  ASSUME NEW o, o \in Seq(ToSet(o)), NEW n, SeenTold(o, n),
         rd.blackouts \in Seq(ToSet(rd.blackouts)), n <= Len(rd.blackouts)
  PROVE  SeenTold(o \o <<Switch(rd.blackouts[n])>>, n + 1)
<1> DEFINE b == Switch(rd.blackouts[n])
           j == o \o <<b>>
           l == Len(o) + 1
<1>1. <<b>> \in Seq(ToSet(<<b>>)) /\ DOMAIN <<b>> = {1} /\ <<b>>[1] = b /\ b.kind = "blackout"
  BY DEF ToSet, Switch
<1> HIDE DEF b
<1>2. /\ Len(o) \in Nat /\ DOMAIN o = 1..Len(o) /\ DOMAIN j = 1..l
      /\ \A k \in DOMAIN o : j[k] = o[k]
      /\ j[l] = b
  BY <1>1, Joined
<1> HIDE DEF j
<1>3. SeenIn(j) = SeenIn(o) \cup {l} /\ l \notin SeenIn(o)
  BY <1>1, <1>2 DEF SeenIn
<1>4. /\ n \in Nat \ {0} /\ Cardinality(SeenIn(o)) = n - 1
      /\ \A i \in SeenIn(o) : /\ CountIn(o, i) \in DOMAIN rd.blackouts
                              /\ o[i] = Switch(rd.blackouts[CountIn(o, i)])
  BY DEF SeenTold
<1>5. IsFiniteSet(SeenIn(o))
  <2>1. SeenIn(o) \subseteq 1..Len(o)
    BY <1>2 DEF SeenIn
  <2>2. IsFiniteSet(1..Len(o))
    BY <1>2, FS_Interval
  <2> QED
    BY <2>1, <2>2, FS_Subset
<1>6. Cardinality(SeenIn(j)) = n
  <2>1. Cardinality(SeenIn(j)) = Cardinality(SeenIn(o)) + 1
    BY <1>3, <1>5, FS_AddElement
  <2> QED
    BY <1>4, <2>1
<1>7. ASSUME NEW i \in SeenIn(o)
      PROVE  CountIn(j, i) = CountIn(o, i) /\ j[i] = o[i]
  <2>1. i \in Nat /\ i < l
    BY <1>2 DEF SeenIn
  <2>2. {k \in SeenIn(j) : k <= i} = {k \in SeenIn(o) : k <= i}
    BY <1>2, <1>3, <2>1
  <2> QED
    BY <1>2, <2>2 DEF CountIn, SeenIn
<1>8. CountIn(j, l) = n
  <2>1. {k \in SeenIn(j) : k <= l} = SeenIn(j)
    BY <1>2 DEF SeenIn
  <2> QED
    BY <1>6, <2>1 DEF CountIn
<1>9. n \in DOMAIN rd.blackouts
  BY <1>4
<1>10. \A i \in SeenIn(j) : /\ CountIn(j, i) \in DOMAIN rd.blackouts
                            /\ j[i] = Switch(rd.blackouts[CountIn(j, i)])
  BY <1>2, <1>3, <1>4, <1>7, <1>8, <1>9 DEF b
<1>11. n + 1 \in Nat \ {0} /\ n + 1 <= Len(rd.blackouts) + 1 /\ (n + 1) - 1 = n
  BY <1>4
<1> QED
  BY <1>6, <1>10, <1>11 DEF SeenTold, j, b

\* Entries that are no marks, or that mark another time.
LEMMA StillAwaited ==
  ASSUME NEW o, o \in Seq(ToSet(o)), NEW n, Awaited(o, n), NEW e, e \in Seq(ToSet(e)),
         \A k \in DOMAIN e :
            e[k].kind = "mark" /\ phase = "closed" => e[k].time # past.blackouts[n].time
  PROVE  Awaited(o \o e, n)
<1> DEFINE j == o \o e
<1>1. \A i \in DOMAIN j : \/ i \in DOMAIN o /\ j[i] = o[i]
                          \/ i - Len(o) \in DOMAIN e /\ j[i] = e[i - Len(o)]
  BY JoinedFrom
<1> HIDE DEF j
<1>2. \A i \in MarksIn(j) :
         \/ i \in MarksIn(o) /\ j[i] = o[i]
         \/ i - Len(o) \in DOMAIN e /\ j[i] = e[i - Len(o)] /\ j[i].kind = "mark"
  BY <1>1 DEF MarksIn
<1> QED
  BY <1>2 DEF Awaited, j

\* A blackout after the next is later, when all have times of their own.
LEMMA NextAwaited ==
  ASSUME NEW o, NEW n \in Nat \ {0}, NEW t, MayTell(o, t),
         phase = "closed" => n \in DOMAIN past.blackouts /\ t = past.blackouts[n].time,
         BlackoutsInv, past.blackouts \in Seq(Blackouts), Awaited(o, n)
  PROVE  \A e : e \in Seq(ToSet(e)) /\ (\A k \in DOMAIN e : e[k].time = t)
                /\ o \in Seq(ToSet(o)) => Awaited(o \o e, n + 1)
<1> SUFFICES ASSUME NEW e, e \in Seq(ToSet(e)), \A k \in DOMAIN e : e[k].time = t,
                    o \in Seq(ToSet(o)), phase = "closed", ~past.idleFlush,
                    n + 1 \in DOMAIN past.blackouts,
                    IsInjective([k \in DOMAIN past.blackouts |-> past.blackouts[k].time]),
                    NEW i \in MarksIn(o \o e)
             PROVE  (o \o e)[i].time # past.blackouts[n + 1].time
  BY DEF Awaited
<1> DEFINE due == [k \in DOMAIN past.blackouts |-> past.blackouts[k].time]
<1>1. /\ n \in DOMAIN past.blackouts /\ n < n + 1
      /\ past.blackouts[n].time \in Nat /\ past.blackouts[n + 1].time \in Nat
  <2>1. n \in DOMAIN past.blackouts /\ n < n + 1
    OBVIOUS
  <2>2. past.blackouts[n] \in Blackouts /\ past.blackouts[n + 1] \in Blackouts
    BY <2>1
  <2> QED
    BY <2>1, <2>2 DEF Blackouts
<1>2. t <= past.blackouts[n + 1].time
  BY <1>1 DEF BlackoutsInv, InOrder
<1>3. t # past.blackouts[n + 1].time
  <2>1. \A a, b \in DOMAIN due : due[a] = due[b] => a = b
    BY Zenon DEF IsInjective
  <2>2. /\ DOMAIN due = DOMAIN past.blackouts
        /\ \A k \in DOMAIN past.blackouts : due[k] = past.blackouts[k].time
    OBVIOUS
  <2> HIDE DEF due
  <2>3. n \in DOMAIN due /\ n + 1 \in DOMAIN due /\ n # n + 1
    BY ONLY <1>1, <2>2, phase = "closed", n + 1 \in DOMAIN past.blackouts, n \in Nat \ {0}
  <2>4. due[n] # due[n + 1]
    BY ONLY <2>1, <2>3
  <2> QED
    BY <1>1, <2>2, <2>3, <2>4
<1>4. \A k \in DatedIn(o) : o[k].time <= t
  BY DEF MayTell, UpTo
<1>5. CASE i \in DOMAIN o /\ (o \o e)[i] = o[i]
  <2>1. i \in DatedIn(o)
    BY <1>5 DEF MarksIn, DatedIn
  <2> QED
    BY <1>1, <1>2, <1>3, <1>4, <1>5, <2>1
<1>6. CASE (o \o e)[i].time = t
  BY <1>3, <1>6
<1> QED
  BY <1>5, <1>6, JoinedFrom DEF MarksIn

\* Entries of one time that are neither marks nor blackouts.
LEMMA TellChanges ==
  ASSUME NEW o, NEW n, Told(o, n), NEW t, MayTell(o, t), NEW e, e \in Seq(ToSet(e)),
         \A k \in DOMAIN e : e[k].kind = "change" /\ e[k].time = t
  PROVE  Told(o \o e, n) /\ MayTell(o \o e, t)
<1>1. o \in Seq(ToSet(o)) /\ TimesTold(o) /\ SeenTold(o, n) /\ Awaited(o, n)
  BY DEF Told
<1>2. \A k \in DOMAIN e : e[k].kind # "mark" /\ e[k].kind # "blackout" /\ e[k].time = t
  OBVIOUS
<1>3. TimesTold(o \o e) /\ MayTell(o \o e, t)
  BY <1>1, <1>2, TimesTellMore
<1>4. SeenTold(o \o e, n)
  BY <1>1, <1>2, NoneSeen
<1>5. Awaited(o \o e, n)
  BY <1>1, <1>2, StillAwaited
<1> QED
  BY <1>1, <1>3, <1>4, <1>5, Joined DEF Told

\* The blackouts of the file are those of the dump.
BlackoutsRead ==
    /\ rd.blackouts \in Seq(ToSet(rd.blackouts))
    /\ phase = "closed" => rd.blackouts = past.blackouts
    /\ phase # "closed" => rd.blackouts = <<>>

\* A time and its blackout.
LEMMA TellTime ==
  ASSUME BlackoutsInv, past.blackouts \in Seq(Blackouts), BlackoutsRead,
         NEW o, NEW n, Told(o, n), NEW t, MayTell(o, t),
         NEW marks \in {<<>>, <<Mark(t)>>},
         NEW due, due = IF n <= Len(rd.blackouts) /\ rd.blackouts[n].time = t
                        THEN <<Switch(rd.blackouts[n])>> ELSE <<>>
  PROVE  /\ Told((o \o marks) \o due, n + Len(due))
         /\ MayTell((o \o marks) \o due, t)
<1> DEFINE m == o \o marks
           j == m \o due
<1>1. o \in Seq(ToSet(o)) /\ TimesTold(o) /\ SeenTold(o, n) /\ Awaited(o, n)
  BY DEF Told
<1>2. /\ marks \in Seq(ToSet(marks))
      /\ \A k \in DOMAIN marks : marks[k].kind = "mark" /\ marks[k].time = t
  <2>1. CASE marks = <<>>
    BY <2>1
  <2>2. CASE marks = <<Mark(t)>>
    BY <2>2 DEF ToSet, Mark
  <2> QED
    BY <2>1, <2>2
<1>3. m \in Seq(ToSet(m))
  BY <1>1, <1>2, Joined
<1>4. TimesTold(m) /\ MayTell(m, t)
  BY <1>1, <1>2, TimesTellMore
<1>5. SeenTold(m, n)
  <2>1. \A k \in DOMAIN marks : marks[k].kind # "blackout"
    BY <1>2
  <2> QED
    BY <1>1, <1>2, <2>1, NoneSeen
<1>6. n \in Nat \ {0}
  BY <1>1 DEF SeenTold
<1>7. CASE n <= Len(rd.blackouts) /\ rd.blackouts[n].time = t
  <2>1. due = <<Switch(rd.blackouts[n])>>
    BY <1>7
  <2>2. /\ due \in Seq(ToSet(due)) /\ Len(due) = 1
        /\ \A k \in DOMAIN due : due[k].kind = "blackout" /\ due[k].time = t
    BY <1>7, <2>1 DEF ToSet, Switch
  <2>3. TimesTold(j) /\ MayTell(j, t)
    BY <1>3, <1>4, <2>2, TimesTellMore
  <2>4. SeenTold(j, n + 1)
    BY <1>3, <1>5, <1>7, <2>1, OneSeen DEF BlackoutsRead
  <2>5. phase = "closed" => n \in DOMAIN past.blackouts /\ t = past.blackouts[n].time
    BY <1>6, <1>7 DEF BlackoutsRead
  <2>6. Awaited(m, n + 1)
    BY <1>1, <1>2, <1>6, <2>5, NextAwaited
  <2>7. \A k \in DOMAIN due : due[k].kind # "mark"
    BY <2>2
  <2>8. Awaited(j, n + 1)
    BY <1>3, <2>2, <2>6, <2>7, StillAwaited
  <2>9. j \in Seq(ToSet(j))
    BY <1>3, <2>2, Joined
  <2> QED
    BY <2>2, <2>3, <2>4, <2>8, <2>9 DEF Told
<1>8. CASE ~(n <= Len(rd.blackouts) /\ rd.blackouts[n].time = t)
  <2>1. due = <<>> /\ Len(due) = 0 /\ n + Len(due) = n
    BY <1>6, <1>8
  <2>2. j = m
    BY <1>3, <2>1
  <2>3. phase = "closed" /\ n \in DOMAIN past.blackouts => past.blackouts[n].time # t
    BY <1>8 DEF BlackoutsRead
  <2>4. \A k \in DOMAIN marks : marks[k].time = t
    BY <1>2
  <2>5. CASE phase = "closed" /\ n \in DOMAIN past.blackouts
    <3>1. \A k \in DOMAIN marks : marks[k].time # past.blackouts[n].time
      BY <2>3, <2>4, <2>5
    <3>2. Awaited(m, n)
      BY <1>1, <1>2, <3>1, StillAwaited
    <3> QED
      BY <1>3, <1>4, <1>5, <2>1, <2>2, <3>2 DEF Told
  <2>6. CASE ~(phase = "closed" /\ n \in DOMAIN past.blackouts)
    BY <1>3, <1>4, <1>5, <2>1, <2>2, <2>6 DEF Told, Awaited
  <2> QED
    BY <2>5, <2>6
<1> QED
  BY <1>7, <1>8

------------------------------------------------------------------------------
(* What opening has found. *)

\* The invariants of the writer and of the reader.
Inv == FstInv /\ TimesInv /\ BlackoutsInv /\ ReaderInv

\* The parts of an open file.
LEMMA OpenIs ==
  ASSUME Inv, rd.pc = "open"
  PROVE  /\ phase \in {"closed", "dead"} /\ IsFile(file) /\ Blocks(file) # {}
         /\ past.blackouts \in Seq(Blackouts) /\ BlackoutsRead
         /\ rd.lens \in Seq(Lengths)
         /\ rd.start = StartTime(file) /\ rd.end = EndTime(file)
         /\ Limited => rd.range[1] \in Nat /\ rd.range[2] \in Nat
<1>1. /\ phase \in {"closed", "dead"} /\ IsFile(file) /\ past.blackouts \in Seq(Blackouts)
  BY DEF Inv, ReaderInv, FstInv, Types, Pasts
<1>2. IsOpen
  BY DEF Inv, ReaderInv
<1>3. /\ rd.start = StartTime(file) /\ rd.end = EndTime(file) /\ rd.lens = SignalLens(file)
      /\ rd.blackouts = BlackoutTimes(file)
  BY <1>2 DEF IsOpen
<1>4. Blocks(file) # {}
  BY <1>2 DEF IsOpen, Readable, HasFlushed, Blocks
<1>5. BlackoutsRead
  <2>1. CASE phase = "closed"
    <3>1. rd.blackouts = past.blackouts
      BY <1>3, <2>1 DEF Inv, BlackoutsInv
    <3> QED
      BY <1>1, <2>1, <3>1, SelfTyped DEF BlackoutsRead
  <2>2. CASE phase # "closed"
    <3>1. file.blackouts = <<>>
      BY <2>2 DEF Inv, BlackoutsInv
    <3>2. rd.blackouts = <<>>
      BY <1>3, <3>1 DEF BlackoutTimes
    <3> QED
      BY <2>2, <3>2 DEF BlackoutsRead
  <2> QED
    BY <2>1, <2>2
<1>6. rd.lens \in Seq(Lengths)
  BY <1>1, <1>3 DEF SignalLens, IsFile, FilesOf
<1>7. Limited => rd.range[1] \in Nat /\ rd.range[2] \in Nat
  BY <1>2 DEF IsOpen, Limited
<1> QED
  BY <1>1, <1>3, <1>4, <1>5, <1>6, <1>7

\* The reader reports a start and an end between which all blocks lie.
LEMMA StartAndEnd ==
  ASSUME Inv, rd.pc = "open", phase = "closed", NEW k \in Blocks(file)
  PROVE  /\ rd.start \in Nat /\ rd.start <= file.sections[k].begin
         /\ rd.end \in Nat /\ file.sections[k].end <= rd.end
<1>1. /\ IsFile(file) /\ rd.start = StartTime(file) /\ rd.end = EndTime(file)
  BY OpenIs
<1>2. Spanned(file, file.header.start, file.header.end)
  BY DEF Inv, TimesInv
<1>3. CASE ~HdrIncomplete(file)
  <2>1. file.header.start \in Nat /\ file.header.end \in Nat
    BY <1>1 DEF IsFile, FilesOf, Headers
  <2> QED
    BY <1>1, <1>2, <1>3, <2>1 DEF StartTime, EndTime, Spanned
<1>4. CASE HdrIncomplete(file)
  <2>1. file.header.start = 0 /\ file.header.end = 0
    BY <1>4 DEF HdrIncomplete
  <2>2. \A b \in Blocks(file) : file.sections[b].begin = 0 /\ file.sections[b].end = 0
    BY <1>1, <1>2, <2>1, BlocksAre DEF Spanned
  <2>3. Min(Blocks(file)) \in Blocks(file) /\ Max(Blocks(file)) \in Blocks(file)
    <3>1. /\ Len(file.sections) \in Nat /\ Blocks(file) \in SUBSET (1..Len(file.sections))
          /\ Blocks(file) # {}
      BY <1>1, BlocksAre
    <3> QED
      BY <3>1, Facts!MinExists, Facts!MaxExists DEF Min, Facts!Min, Max, Facts!Max
  <2>4. rd.start = 0 /\ rd.end = 0
    BY <1>1, <1>4, <2>2, <2>3 DEF StartTime, EndTime, FirstBlock, LastBlock
  <2> QED
    BY <2>2, <2>4
<1> QED
  BY <1>3, <1>4

\* The clock of a block goes on from its begin to its end.
LEMMA ClockGoesOn ==
  ASSUME Inv, rd.pc = "open", NEW k \in Blocks(file),
         NEW s, s = file.sections[k], NEW i \in Nat \cup {-1}, i < Len(s.times)
  PROVE  /\ Clock(s, i) \in Nat /\ s.begin \in Nat /\ s.end \in Nat
         /\ ~past.idleFlush => Clock(s, i) \in s.begin..s.end
         /\ ~past.idleFlush /\ i + 1 < Len(s.times) => Clock(s, i) <= Clock(s, i + 1)
         /\ phase = "closed" /\ ~past.idleFlush => Clock(s, i) \in rd.start..rd.end
         /\ k + 1 \in Blocks(file) => file.sections[k + 1].begin = s.end
<1> DEFINE n == Len(s.times)
           t == TimeTable(s)
<1>1. IsFile(file)
  BY OpenIs
<1>2. /\ s.begin \in Nat /\ s.end \in Nat /\ s.begin <= s.end /\ s.times \in Seq(Nat)
      /\ k \in 1..Len(file.sections) /\ Len(file.sections) \in Nat
  BY <1>1, BlocksAre
<1>3. n \in Nat /\ DOMAIN s.times = 1..n
  BY <1>2
<1>4. /\ \A j \in 1..n : t[j] \in Nat
      /\ \A j \in 1..n : j + 1 \in 1..n => t[j] <= t[j + 1]
  <2>1. /\ t \in Seq(Nat) /\ DOMAIN t = 1..n
        /\ \A j \in 1..n : j + 1 \in 1..n => t[j] <= t[j + 1]
    BY <1>2, <1>3, TimesGrow DEF TimeTable
  <2> HIDE DEF t
  <2> QED
    BY <2>1
<1>5. ~past.idleFlush => \A j \in 1..n : t[j] \in s.begin..s.end
  BY <1>3 DEF Inv, TimesInv, TablesWithin, Within, TimeTable
<1> HIDE DEF n, t
<1>6. i # -1 => i + 1 \in 1..n
  BY <1>3 DEF n
<1>7. /\ Clock(s, i) \in Nat
      /\ ~past.idleFlush => Clock(s, i) \in s.begin..s.end
  BY <1>2, <1>4, <1>5, <1>6 DEF Clock, t
<1>8. ASSUME ~past.idleFlush, i + 1 < n
      PROVE  Clock(s, i) <= Clock(s, i + 1)
  <2>1. i + 1 # -1 /\ (i + 1) + 1 \in 1..n /\ Clock(s, i + 1) = t[(i + 1) + 1]
    BY <1>3, <1>8 DEF Clock, t
  <2>2. CASE i = -1
    BY <1>2, <1>5, <1>8, <2>1, <2>2 DEF Clock
  <2>3. CASE i # -1
    BY <1>4, <1>6, <2>1, <2>3 DEF Clock, t
  <2> QED
    BY <2>2, <2>3
<1>9. phase = "closed" /\ ~past.idleFlush => Clock(s, i) \in rd.start..rd.end
  <2> SUFFICES ASSUME phase = "closed", ~past.idleFlush
               PROVE  Clock(s, i) \in rd.start..rd.end
    OBVIOUS
  <2>1. /\ rd.start \in Nat /\ rd.start <= s.begin
        /\ rd.end \in Nat /\ s.end <= rd.end
    BY StartAndEnd
  <2> QED
    BY <1>2, <1>7, <2>1
<1>10. k + 1 \in Blocks(file) => file.sections[k + 1].begin = s.end
  <2> SUFFICES ASSUME k + 1 \in Blocks(file)
               PROVE  file.sections[k + 1].begin = s.end
    OBVIOUS
  <2>1. k + 1 \in DOMAIN file.sections /\ k + 1 > 1 /\ (k + 1) - 1 = k
    BY <1>2 DEF Blocks
  <2> QED
    BY <2>1 DEF Inv, FstInv, BlocksAdjoin, Adjoin
<1> QED
  BY <1>2, <1>7, <1>8, <1>9, <1>10 DEF n

------------------------------------------------------------------------------
(* The lists of handles. *)

\* The elements of a sequence.
LEMMA Elements ==
  ASSUME NEW S, NEW s \in Seq(S)
  PROVE  \A k \in DOMAIN s : s[k] \in S
OBVIOUS

\* A handle that is in none of them.
IsFree(heads, h) == \A i \in DOMAIN heads : \A p \in DOMAIN heads[i] : heads[i][p] # h

\* Nothing but h is new in the lists.
OnlyAdds(g, heads, h) ==
    \A i \in DOMAIN heads : \A p \in DOMAIN g[i] :
        g[i][p] = h \/ \E q \in DOMAIN heads[i] : g[i][p] = heads[i][q]

\* A handle that is in no list is put in front of one.
LEMMA ScatteredOnce ==
  ASSUME NEW D, NEW S, NEW heads, AreLists(heads, D, S), NEW h \in S, IsFree(heads, h),
         NEW start, NEW chain, NEW g, g = Scattered(heads, start, h, chain)
  PROVE  AreLists(g, D, S) /\ OnlyAdds(g, heads, h)
<1> DEFINE x == start + Delta(rd.lens[h], chain)
<1>0. /\ heads \in [D -> Seq(S)] /\ Once(heads)
      /\ \A i \in D : \A p \in DOMAIN heads[i] : heads[i][p] # h
  BY DEF AreLists, IsFree
<1>1. CASE chain = <<>>
  <2>1. g = heads
    BY <1>1 DEF Scattered
  <2> QED
    BY <1>0, <2>1 DEF AreLists, OnlyAdds
<1>2. CASE chain # <<>>
  <2>1. g = [heads EXCEPT ![x] = <<h>> \o @]
    BY <1>2 DEF Scattered
  <2> HIDE DEF x
  <2>2. DOMAIN g = D /\ \A i \in D : g[i] = IF i = x THEN <<h>> \o heads[i] ELSE heads[i]
    BY <1>0, <2>1
  <2>3. ASSUME NEW i \in D
        PROVE  /\ g[i] \in Seq(S)
               /\ i # x => g[i] = heads[i]
               /\ i = x => /\ \A p \in DOMAIN g[i] :
                                 \/ p = 1 /\ g[i][p] = h
                                 \/ /\ p # 1 /\ p - 1 \in DOMAIN heads[i]
                                    /\ g[i][p] = heads[i][p - 1]
                           /\ DOMAIN g[i] \subseteq Nat
    <3>1. heads[i] \in Seq(S) /\ <<h>> \in Seq(S)
      BY <1>0
    <3>2. CASE i = x
      <4> DEFINE l == heads[i]
                 c == <<h>> \o l
      <4>1. /\ l \in Seq(S) /\ c \in Seq(S) /\ Len(l) \in Nat /\ DOMAIN l = 1..Len(l)
            /\ DOMAIN c = 1..(Len(l) + 1)
            /\ \A p \in DOMAIN c : c[p] = IF p = 1 THEN h ELSE l[p - 1]
        BY <3>1
      <4>2. g[i] = c
        BY <2>2, <3>2
      <4> HIDE DEF c, l
      <4>3. \A p \in DOMAIN c : p = 1 \/ p - 1 \in DOMAIN l
        BY <4>1
      <4> QED
        BY <3>2, <4>1, <4>2, <4>3 DEF l
    <3>3. CASE i # x
      BY <2>2, <3>1, <3>3
    <3> QED
      BY <3>2, <3>3
  <2>4. g = [i \in D |-> g[i]]
    BY <2>1, <2>2
  <2>5. g \in [D -> Seq(S)]
    BY <2>3, <2>4
  <2>6. \A i \in D : \A p \in DOMAIN g[i] :
           \/ i = x /\ p = 1 /\ g[i][p] = h
           \/ i # x /\ p \in DOMAIN heads[i] /\ g[i][p] = heads[i][p]
           \/ /\ i = x /\ p # 1 /\ p - 1 \in DOMAIN heads[i] /\ p \in Nat
              /\ g[i][p] = heads[i][p - 1]
    BY <1>0, <2>3
  <2>7. ASSUME NEW i \in D, NEW j \in D, NEW p \in DOMAIN g[i], NEW q \in DOMAIN g[j],
               g[i][p] = g[j][q]
        PROVE  i = j /\ p = q
    <3>1. CASE i = x /\ p = 1 /\ g[i][p] = h
      BY <1>0, <2>6, <2>7, <3>1
    <3>2. CASE j = x /\ q = 1 /\ g[j][q] = h
      BY <1>0, <2>6, <2>7, <3>2
    <3>3. CASE ~(i = x /\ p = 1) /\ ~(j = x /\ q = 1)
      <4>1. PICK p1 \in DOMAIN heads[i] : g[i][p] = heads[i][p1] /\ p1 = IF i = x THEN p - 1 ELSE p
        BY <2>6, <3>3
      <4>2. PICK q1 \in DOMAIN heads[j] : g[j][q] = heads[j][q1] /\ q1 = IF j = x THEN q - 1 ELSE q
        BY <2>6, <3>3
      <4>3. DOMAIN heads = D
        BY <1>0
      <4>4. i = j /\ p1 = q1
        <5>1. i \in DOMAIN heads /\ j \in DOMAIN heads /\ heads[i][p1] = heads[j][q1]
          BY <2>7, <4>1, <4>2, <4>3
        <5> QED
          BY ONLY <1>0, <4>1, <4>2, <5>1 DEF Once
      <4>5. i = x => p \in Nat /\ q \in Nat
        BY <2>6, <3>3, <4>4
      <4> QED
        BY <4>1, <4>2, <4>4, <4>5
    <3> QED
      BY <2>6, <3>1, <3>2, <3>3
  <2>8. Once(g)
    BY <2>2, <2>7 DEF Once
  <2> QED
    BY <1>0, <2>5, <2>6, <2>8 DEF AreLists, OnlyAdds
<1> QED
  BY <1>1, <1>2

\* The lists after each of the first m chains.
IsScatter(lists, chains, n, m) ==
    lists = [h \in 0..m |-> IF h = 0 THEN [i \in 0..(n - 1) |-> <<>>]
                            ELSE Scattered(lists[h - 1], 0, h, chains[h])]

\* There are such lists.
LEMMA ScatterExists ==
  ASSUME NEW chains, NEW n, NEW l \in Nat
  PROVE  \E lists : IsScatter(lists, chains, n, l)
<1> DEFINE S == {m \in 0..l : \E lists : IsScatter(lists, chains, n, m)}
<1>1. 0 \in S
  <2> DEFINE g == [h \in 0..0 |-> [i \in 0..(n - 1) |-> <<>>]]
  <2>1. IsScatter(g, chains, n, 0)
    BY DEF IsScatter
  <2> HIDE DEF g
  <2> QED
    BY <2>1
<1>2. ASSUME NEW m \in 0..(l - 1), m \in S
      PROVE  m + 1 \in S
  <2>1. PICK g : IsScatter(g, chains, n, m)
    BY <1>2
  <2> DEFINE new == Scattered(g[m], 0, m + 1, chains[m + 1])
             f == [h \in 0..(m + 1) |-> IF h = m + 1 THEN new ELSE g[h]]
  <2> HIDE DEF new
  <2>2. /\ f = [h \in DOMAIN f |-> f[h]] /\ DOMAIN f = 0..(m + 1)
        /\ f[m + 1] = new /\ \A h \in 0..m : f[h] = g[h]
    OBVIOUS
  <2> HIDE DEF f
  <2>3. \A h \in 0..m : g[h] = IF h = 0 THEN [i \in 0..(n - 1) |-> <<>>]
                               ELSE Scattered(g[h - 1], 0, h, chains[h])
    BY Zenon, <2>1 DEF IsScatter
  <2>4. ASSUME NEW h \in 0..(m + 1)
        PROVE  f[h] = IF h = 0 THEN [i \in 0..(n - 1) |-> <<>>]
                      ELSE Scattered(f[h - 1], 0, h, chains[h])
    <3>1. CASE h = m + 1
      <4>1. h # 0 /\ h - 1 = m /\ m \in 0..m
        BY <3>1
      <4> QED
        BY <2>2, <3>1, <4>1 DEF new
    <3>2. CASE h \in 0..m
      <4>1. h # 0 => h - 1 \in 0..m
        BY <3>2
      <4> QED
        BY <2>2, <2>3, <3>2, <4>1
    <3> QED
      BY <3>1, <3>2
  <2>5. IsScatter(f, chains, n, m + 1)
    BY <2>2, <2>4 DEF IsScatter
  <2>6. m + 1 \in 0..l
    BY <1>2
  <2> QED
    BY <2>5, <2>6
<1> HIDE DEF S
<1>3. 0..l \subseteq S
  BY <1>1, <1>2, Facts!SetInductionUpTo
<1> QED
  BY <1>3 DEF S

\* Every handle is put into one list at most.
LEMMA AllScatteredOnce ==
  ASSUME NEW T, NEW chains \in Seq(T), NEW n \in Nat
  PROVE  LET g == AllScattered(chains, n)
         IN  AreLists(g, 0..(n - 1), 1..Len(chains))
<1> DEFINE l == Len(chains)
           D == 0..(n - 1)
           lists == CHOOSE g : IsScatter(g, chains, n, l)
           Below(g, m) == \A i \in D : \A p \in DOMAIN g[i] : g[i][p] <= m
           S == {m \in 0..l : /\ lists[m] \in [D -> Seq(1..l)] /\ Once(lists[m])
                              /\ Below(lists[m], m)}
<1>1. l \in Nat
  OBVIOUS
<1>2. AllScattered(chains, n) = lists[l]
  BY DEF AllScattered, IsScatter
<1>3. IsScatter(lists, chains, n, l)
  BY <1>1, ScatterExists
<1>4. \A h \in 0..l : lists[h] = IF h = 0 THEN [i \in 0..(n - 1) |-> <<>>]
                                 ELSE Scattered(lists[h - 1], 0, h, chains[h])
  BY Zenon, <1>3 DEF IsScatter
<1> HIDE DEF lists, l
<1>5. 0 \in S
  <2>1. lists[0] = [i \in D |-> <<>>]
    BY <1>1, <1>4
  <2> HIDE DEF D
  <2>2. lists[0] \in [D -> Seq(1..l)]
    BY <2>1
  <2>3. Once(lists[0]) /\ Below(lists[0], 0)
    BY <2>1 DEF Once
  <2>4. 0 \in 0..l
    BY <1>1
  <2> QED
    BY <2>2, <2>3, <2>4
<1>6. ASSUME NEW m \in 0..(l - 1), m \in S
      PROVE  m + 1 \in S
  <2> DEFINE old == lists[m]
             new == lists[m + 1]
  <2>1. m + 1 \in 0..l /\ m + 1 # 0 /\ (m + 1) - 1 = m /\ m + 1 \in 1..l
    BY <1>1
  <2>2. new = Scattered(old, 0, m + 1, chains[m + 1])
    BY <1>4, <2>1
  <2>3. old \in [D -> Seq(1..l)] /\ Once(old) /\ Below(old, m)
    BY <1>6
  <2> SUFFICES new \in [D -> Seq(1..l)] /\ Once(new) /\ Below(new, m + 1)
    BY <2>1
  <2> HIDE DEF S, D, new, old
  <2>4. ASSUME NEW i \in D, NEW p \in DOMAIN old[i]
        PROVE  old[i][p] \in 1..l /\ old[i][p] <= m
    <3>1. old[i] \in Seq(1..l)
      BY <2>3
    <3>2. old[i][p] \in 1..l
      BY ONLY <3>1, p \in DOMAIN old[i], Elements
    <3>3. old[i][p] <= m
      BY <2>3
    <3> QED
      BY <3>2, <3>3
  <2>5. \A i \in D : \A p \in DOMAIN old[i] : old[i][p] # m + 1
    BY <1>1, <2>4
  <2>6. new \in [D -> Seq(1..l)] /\ Once(new) /\ OnlyAdds(new, old, m + 1)
    <3>1. AreLists(old, D, 1..l) /\ IsFree(old, m + 1)
      BY <2>3, <2>5 DEF AreLists, IsFree
    <3>2. AreLists(new, D, 1..l) /\ OnlyAdds(new, old, m + 1)
      BY ONLY <2>1, <2>2, <3>1, ScatteredOnce, Zenon
    <3> QED
      BY <3>2 DEF AreLists
  <2>7. ASSUME NEW i \in D, NEW p \in DOMAIN new[i]
        PROVE  new[i][p] <= m + 1
    <3>1. CASE new[i][p] = m + 1
      BY <2>1, <3>1
    <3>2. CASE \E q \in DOMAIN old[i] : new[i][p] = old[i][q]
      BY <2>1, <2>4, <3>2
    <3> QED
      BY <2>3, <2>6, <3>1, <3>2 DEF OnlyAdds
  <2> QED
    BY <2>6, <2>7
<1> HIDE DEF S
<1>7. 0..l \subseteq S
  BY <1>1, <1>5, <1>6, Facts!SetInductionUpTo
<1>8. l \in S
  BY <1>1, <1>7
<1> QED
  BY <1>2, <1>8 DEF S, l, AreLists

------------------------------------------------------------------------------
(* The steps of the reader: what it tells and has yet to tell. *)

\* The parts of the invariant that look at the file and at what was opened.
LEMMA SameReader ==
  ASSUME Inv, UNCHANGED <<writerVars, rd>>, IsCache(rv)', Running(it', out')
  PROVE  ReaderInv'
<1>1. /\ phase' = phase /\ file' = file /\ past' = past /\ rd' = rd
  BY DEF writerVars
<1>2. Running(it, out)'
  BY <1>1 DEF Running, Told, TimesTold, SeenTold, Awaited, MayTell, Between, Inside, IsCursor,
              Now, At, Cut, Limited, Clock
<1>3. rd.pc = "open"
  BY DEF Running
<1>4. IsOpen'
  BY <1>1, <1>3 DEF Inv, ReaderInv, IsOpen
<1>5. phase # "writing"
  BY <1>3 DEF Inv, ReaderInv
<1> QED
  BY <1>1, <1>2, <1>3, <1>4, <1>5 DEF ReaderInv

\* When the reader delivers.
LEMMA RunningNow ==
  ASSUME Inv, it.pc # "idle"
  PROVE  /\ Running(it, out) /\ rd.pc = "open" /\ IsFile(file)
         /\ Len(file.sections) \in Nat /\ it.k \in 1..(Len(file.sections) + 1)
<1>1. Running(it, out)
  BY DEF Inv, ReaderInv, Resting
<1> QED
  BY <1>1, OpenIs, SectionsAre DEF Running, IsCursor

\* A block of the file.
LEMMA BlockNow ==
  ASSUME Inv, it.pc = "block", HasBlock
  PROVE  it.k \in Blocks(file) /\ it.k + 1 \in 1..(Len(file.sections) + 1)
BY RunningNow, SectionsAre DEF HasBlock, Section, Blocks

\* What is remembered of lookups does not change.
LEMMA SameCache ==
  ASSUME Inv, UNCHANGED <<writerVars, rv>>
  PROVE  IsCache(rv)'
BY DEF writerVars, Inv, ReaderInv, IsCache

\* No more blocks.
LEMMA EndOfFileStep ==
  ASSUME Inv, EndOfFile, UNCHANGED writerVars
  PROVE  ReaderInv'
<1>1. /\ it.pc = "block" /\ it' = [it EXCEPT !.pc = "done"] /\ out' = out
      /\ UNCHANGED <<writerVars, rd, rv>>
  BY DEF EndOfFile
<1>2. Running(it, out)
  BY <1>1, RunningNow
<1>3. IsCursor(it')
  BY <1>1, <1>2 DEF Running, IsCursor
<1>4. it'.pc = "done" /\ it'.blackout = it.blackout /\ it'.previous = it.previous
  BY <1>1, <1>2 DEF Running, IsCursor
<1>5. Running(it', out')
  BY <1>1, <1>2, <1>3, <1>4 DEF Running
<1> QED
  BY <1>1, <1>5, SameCache, SameReader

\* A block that ends before the range.
LEMMA SkipBlockStep ==
  ASSUME Inv, SkipBlock, UNCHANGED writerVars
  PROVE  ReaderInv'
<1>1. /\ it.pc = "block" /\ HasBlock /\ out' = out
      /\ it' = [it EXCEPT !.k = @ + 1, !.skipped = TRUE]
      /\ UNCHANGED <<writerVars, rd, rv>>
  BY DEF SkipBlock
<1>2. /\ Running(it, out) /\ rd.pc = "open" /\ IsFile(file)
      /\ it.k \in Blocks(file) /\ it.k + 1 \in 1..(Len(file.sections) + 1)
  BY <1>1, RunningNow, BlockNow
<1>3. IsCursor(it')
  BY <1>1, <1>2 DEF Running, IsCursor
<1>4. /\ it'.pc = "block" /\ it'.k = it.k + 1
      /\ it'.blackout = it.blackout /\ it'.previous = it.previous
  BY <1>1, <1>2 DEF Running, IsCursor
<1>5. Between(it', out')
  <2> SUFFICES ASSUME it.k + 1 \in Blocks(file), ~past.idleFlush
               PROVE  UpTo(out, file.sections[it.k + 1].begin)
    BY <1>1, <1>4 DEF Between, At
  <2> DEFINE s == file.sections[it.k]
  <2>1. /\ s.begin \in Nat /\ s.end \in Nat /\ s.begin <= s.end
        /\ file.sections[it.k + 1].begin = s.end
    <3>1. Len(s.times) \in Nat /\ s.begin \in Nat /\ s.end \in Nat /\ s.begin <= s.end
      BY ONLY <1>2, BlocksAre, SMTT(30)
    <3>2. -1 \in Nat \cup {-1} /\ -1 < Len(s.times)
      BY <3>1
    <3> QED
      BY <1>2, <3>1, <3>2, ClockGoesOn
  <2>2. UpTo(out, s.begin)
    BY <1>1, <1>2 DEF Running, Between, At
  <2>3. \A i \in DatedIn(out) : out[i].time \in Nat
    BY <1>2 DEF Running, Told, TimesTold
  <2> QED
    BY <2>1, <2>2, <2>3 DEF UpTo
<1>6. Running(it', out')
  BY <1>1, <1>2, <1>3, <1>4, <1>5 DEF Running
<1> QED
  BY <1>1, <1>6, SameCache, SameReader

\* A block that begins after the range.
LEMMA EndOfRangeStep ==
  ASSUME Inv, EndOfRange, UNCHANGED writerVars
  PROVE  ReaderInv'
<1>1. /\ it.pc = "block" /\ it' = [it EXCEPT !.pc = "done"] /\ out' = out
      /\ UNCHANGED <<writerVars, rd, rv>>
  BY DEF EndOfRange
<1>2. Running(it, out)
  BY <1>1, RunningNow
<1>3. IsCursor(it')
  BY <1>1, <1>2 DEF Running, IsCursor
<1>4. it'.pc = "done" /\ it'.blackout = it.blackout /\ it'.previous = it.previous
  BY <1>1, <1>2 DEF Running, IsCursor
<1>5. Running(it', out')
  BY <1>1, <1>2, <1>3, <1>4 DEF Running
<1> QED
  BY <1>1, <1>5, SameCache, SameReader

\* Three sequences, one behind the other.
LEMMA JoinedThree ==
  ASSUME NEW a, a \in Seq(ToSet(a)), NEW b, b \in Seq(ToSet(b)), NEW c, c \in Seq(ToSet(c))
  PROVE  a \o (b \o c) = (a \o b) \o c
<1> DEFINE S == ToSet(a) \cup ToSet(b) \cup ToSet(c)
<1>1. a \in Seq(S) /\ b \in Seq(S) /\ c \in Seq(S)
  OBVIOUS
<1> HIDE DEF S
<1> QED
  BY <1>1

\* The values of the frame are changes at the begin of the block.
LEMMA FrameValuesAre ==
  ASSUME NEW s, s.frame \in Seq(Vals)
  PROVE  LET e == FrameValues(s)
         IN  e \in Seq(ToSet(e)) /\ \A k \in DOMAIN e : e[k].kind = "change" /\ e[k].time = s.begin
<1> DEFINE shown == {h \in DOMAIN s.frame : h \in rd.mask /\ rd.lens[h] # 0}
           nth(k) == CHOOSE h \in shown : Cardinality({g \in shown : g <= h}) = k
           n == Cardinality(shown)
           value(k) == s.frame[nth(k)]
           e == [k \in 1..n |-> Change(s.begin, nth(k), value(k))]
<1>1. FrameValues(s) = e
  BY Zenon DEF FrameValues
<1>2. n \in Nat
  <2>1. Len(s.frame) \in Nat /\ shown \subseteq 1..Len(s.frame)
    OBVIOUS
  <2> HIDE DEF shown
  <2>2. IsFiniteSet(1..Len(s.frame))
    BY <2>1, FS_Interval
  <2>3. IsFiniteSet(shown)
    BY <2>1, <2>2, FS_Subset
  <2> QED
    BY <2>3, FS_CardinalityType
<1> HIDE DEF shown, n, nth, value
<1>3. /\ DOMAIN e = 1..n /\ e = [k \in DOMAIN e |-> e[k]]
      /\ \A k \in 1..n : e[k].kind = "change" /\ e[k].time = s.begin
  BY DEF Change
<1> HIDE DEF e
<1>4. \A k \in 1..n : e[k] \in ToSet(e)
  BY <1>3 DEF ToSet
<1>5. e \in Seq(ToSet(e))
  BY <1>2, <1>3, <1>4, FunctionIsSeq
<1> QED
  BY <1>1, <1>3, <1>5

\* What is delivered at the begin of a block.
LEMMA FrameTold ==
  ASSUME Inv, rd.pc = "open", NEW s, s.frame \in Seq(Vals),
         Told(out, it.blackout), MayTell(out, s.begin),
         NEW n, n = IF NeedsFrame(s) /\ rd.use = "vcd"
                    THEN it.blackout + Len(DueBlackout(s.begin)) ELSE it.blackout,
         NEW o, o = IF NeedsFrame(s) THEN out \o FrameText(s) \o FrameValues(s) ELSE out
  PROVE  Told(o, n) /\ MayTell(o, s.begin)
<1>1. CASE ~NeedsFrame(s)
  BY <1>1
<1>2. CASE NeedsFrame(s)
  <2> DEFINE t == out \o FrameText(s)
  <2>1. o = t \o FrameValues(s)
    BY <1>2
  <2>2. Told(t, n) /\ MayTell(t, s.begin)
    <3>1. CASE rd.use # "vcd"
      <4>1. FrameText(s) = <<>> /\ n = it.blackout
        BY <3>1 DEF FrameText
      <4>2. out \in Seq(ToSet(out))
        BY DEF Told
      <4>3. t = out
        BY <4>1, <4>2
      <4> QED
        BY <4>1, <4>3
    <3>2. CASE rd.use = "vcd"
      <4> DEFINE marks == IF s.begin = 0 THEN <<>> ELSE <<Mark(s.begin)>>
                 due == DueBlackout(s.begin)
      <4>1. FrameText(s) = marks \o due /\ n = it.blackout + Len(due)
        BY <1>2, <3>2 DEF FrameText
      <4>2. marks \in {<<>>, <<Mark(s.begin)>>}
        OBVIOUS
      <4>3. due = IF it.blackout <= Len(rd.blackouts) /\ rd.blackouts[it.blackout].time = s.begin
                  THEN <<Switch(rd.blackouts[it.blackout])>> ELSE <<>>
        BY DEF DueBlackout
      <4>4. /\ out \in Seq(ToSet(out)) /\ marks \in Seq(ToSet(marks))
            /\ due \in Seq(ToSet(due))
        <5>1. out \in Seq(ToSet(out))
          BY DEF Told
        <5>2. \A e : <<e>> \in Seq(ToSet(<<e>>))
          BY DEF ToSet
        <5>3. <<>> \in Seq(ToSet(<<>>))
          OBVIOUS
        <5> QED
          BY <4>2, <4>3, <5>1, <5>2, <5>3
      <4> HIDE DEF marks, due
      <4>5. t = (out \o marks) \o due
        <5>1. out \o (marks \o due) = (out \o marks) \o due
          BY ONLY <4>4, JoinedThree
        <5> QED
          BY <4>1, <5>1
      <4>6. BlackoutsInv /\ past.blackouts \in Seq(Blackouts) /\ BlackoutsRead
        BY OpenIs DEF Inv
      <4>7. /\ Told((out \o marks) \o due, it.blackout + Len(due))
            /\ MayTell((out \o marks) \o due, s.begin)
        BY ONLY <4>2, <4>3, <4>6, Told(out, it.blackout), MayTell(out, s.begin), TellTime
      <4> QED
        BY <4>1, <4>5, <4>7
    <3> QED
      BY <3>1, <3>2
  <2> HIDE DEF t
  <2>3. /\ FrameValues(s) \in Seq(ToSet(FrameValues(s)))
        /\ \A k \in DOMAIN FrameValues(s) :
              FrameValues(s)[k].kind = "change" /\ FrameValues(s)[k].time = s.begin
    BY FrameValuesAre
  <2> QED
    BY ONLY <2>1, <2>2, <2>3, TellChanges, SMTT(30)
<1> QED
  BY <1>1, <1>2

\* A block is loaded.
LEMMA LoadBlockStep ==
  ASSUME Inv, LoadBlock, UNCHANGED writerVars
  PROVE  ReaderInv'
<1> DEFINE s == file.sections[it.k]
           chains == ChainsOf(s, ReadIndex(s.handles, s.index, 1 + Len(s.body), it.index))
<1>1. /\ it.pc = "block" /\ HasBlock /\ UNCHANGED <<writerVars, rd, rv>>
      /\ Limited => s.begin <= rd.range[2]
      /\ it' = [it EXCEPT !.pc = "changes",
                          !.index = ReadIndex(s.handles, s.index, 1 + Len(s.body), it.index),
                          !.chains = chains, !.i = -1,
                          !.heads = AllScattered(chains, Len(s.times)),
                          !.blackout = IF NeedsFrame(s) /\ rd.use = "vcd"
                                       THEN @ + Len(DueBlackout(s.begin)) ELSE @]
      /\ out' = IF NeedsFrame(s) THEN out \o FrameText(s) \o FrameValues(s) ELSE out
  BY DEF LoadBlock, Section
<1>2. /\ Running(it, out) /\ rd.pc = "open" /\ IsFile(file) /\ it.k \in Blocks(file)
      /\ it.k \in 1..(Len(file.sections) + 1)
  BY <1>1, RunningNow, BlockNow
<1>3. /\ s.begin \in Nat /\ s.times \in Seq(Nat) /\ s.frame \in Seq(Vals) /\ Len(s.times) \in Nat
  BY <1>2, BlocksAre
<1>4. chains \in Seq(ToSet(chains)) /\ Len(chains) = Len(rd.lens) /\ DOMAIN rd.lens = 1..Len(rd.lens)
  <2>1. rd.lens \in Seq(Lengths) /\ Len(rd.lens) \in Nat /\ DOMAIN rd.lens = 1..Len(rd.lens)
    BY <1>2, OpenIs
  <2>2. DOMAIN chains = 1..Len(rd.lens) /\ chains = [h \in DOMAIN chains |-> chains[h]]
    BY <2>1 DEF ChainsOf
  <2> HIDE DEF chains
  <2>3. \A h \in 1..Len(rd.lens) : chains[h] \in ToSet(chains)
    BY <2>2 DEF ToSet
  <2> QED
    BY <2>1, <2>2, <2>3, FunctionIsSeq
<1> HIDE DEF chains
<1>5. AreLists(AllScattered(chains, Len(s.times)), 0..(Len(s.times) - 1), DOMAIN rd.lens)
  BY <1>3, <1>4, AllScatteredOnce
<1>6. MayTell(out, s.begin)
  <2>1. ~past.idleFlush => UpTo(out, s.begin)
    BY <1>1, <1>2 DEF Running, Between, At
  <2>2. phase = "closed" /\ ~past.idleFlush => s.begin \in rd.start..rd.end
    <3>1. -1 \in Nat \cup {-1} /\ -1 < Len(s.times) /\ Clock(s, -1) = s.begin
      BY <1>3 DEF Clock
    <3> HIDE DEF s
    <3>2. phase = "closed" /\ ~past.idleFlush => Clock(s, -1) \in rd.start..rd.end
      BY <1>2, <3>1, s = file.sections[it.k], ClockGoesOn DEF s
    <3> QED
      BY <3>1, <3>2
  <2> QED
    BY <1>1, <1>3, <2>1, <2>2 DEF MayTell, Cut
<1>7. /\ it'.pc = "changes" /\ it'.k = it.k /\ it'.i = -1 /\ it'.previous = it.previous
      /\ it'.heads = AllScattered(chains, Len(s.times))
      /\ it'.blackout = IF NeedsFrame(s) /\ rd.use = "vcd"
                        THEN it.blackout + Len(DueBlackout(s.begin)) ELSE it.blackout
  BY <1>1, <1>2 DEF Running, IsCursor
<1>8. Told(out', it'.blackout) /\ MayTell(out', s.begin)
  <2>1. Told(out, it.blackout)
    BY <1>2 DEF Running
  <2> QED
    BY <1>1, <1>2, <1>3, <1>6, <1>7, <2>1, FrameTold
<1>9. IsCursor(it')
  <2>1. it'.blackout \in Nat
    BY <1>8 DEF Told, SeenTold
  <2> QED
    BY <1>1, <1>2, <1>7, <2>1 DEF Running, IsCursor
<1>10. Inside(it', out')
  <2>1. At(it') = s /\ Now(it') = s.begin
    BY <1>7 DEF At, Now, Clock
  <2> HIDE DEF s
  <2> QED
    BY <1>2, <1>3, <1>5, <1>7, <1>8, <2>1 DEF Inside
<1>11. Running(it', out')
  BY <1>2, <1>7, <1>8, <1>9, <1>10 DEF Running
<1> QED
  BY <1>1, <1>11, SameCache, SameReader

\* The first handle of a list is taken off, and is then in none.
LEMMA TakenOff ==
  ASSUME NEW D, NEW S, NEW heads, AreLists(heads, D, S), NEW i \in D, heads[i] # <<>>,
         NEW g, g = [heads EXCEPT ![i] = Tail(@)]
  PROVE  Head(heads[i]) \in S /\ AreLists(g, D, S) /\ IsFree(g, Head(heads[i]))
<1> DEFINE l == heads[i]
           h == Head(l)
<1>1. /\ heads \in [D -> Seq(S)] /\ DOMAIN heads = D /\ l \in Seq(S)
      /\ \A j, k \in D : \A p \in DOMAIN heads[j], q \in DOMAIN heads[k] :
            heads[j][p] = heads[k][q] => j = k /\ p = q
  BY DEF AreLists, Once
<1>2. /\ h \in S /\ Tail(l) \in Seq(S) /\ h = l[1] /\ 1 \in DOMAIN l
      /\ \A p \in DOMAIN Tail(l) : p \in Nat \ {0} /\ p + 1 \in DOMAIN l /\ Tail(l)[p] = l[p + 1]
  BY <1>1
<1>3. g \in [D -> Seq(S)] /\ \A j \in D : g[j] = IF j = i THEN Tail(l) ELSE heads[j]
  BY <1>1, <1>2
<1> HIDE DEF h
<1>4. ASSUME NEW j \in D, NEW p \in DOMAIN g[j]
      PROVE  \/ j = i /\ p \in Nat \ {0} /\ p + 1 \in DOMAIN heads[j] /\ g[j][p] = heads[j][p + 1]
             \/ j # i /\ p \in DOMAIN heads[j] /\ g[j][p] = heads[j][p]
  BY <1>2, <1>3
<1> HIDE DEF l
<1>5. ASSUME NEW j \in D, NEW k \in D, NEW p \in DOMAIN g[j], NEW q \in DOMAIN g[k],
             g[j][p] = g[k][q]
      PROVE  j = k /\ p = q
  <2> DEFINE a == IF j = i THEN p + 1 ELSE p
             b == IF k = i THEN q + 1 ELSE q
  <2>1. a \in DOMAIN heads[j] /\ g[j][p] = heads[j][a] /\ (j = i => p \in Nat)
    BY <1>4
  <2>2. b \in DOMAIN heads[k] /\ g[k][q] = heads[k][b] /\ (k = i => q \in Nat)
    BY <1>4
  <2> HIDE DEF a, b
  <2>3. heads[j][a] = heads[k][b]
    BY <1>5, <2>1, <2>2
  <2>4. j = k /\ a = b
    BY <1>1, <2>1, <2>2, <2>3
  <2> QED
    BY <2>1, <2>2, <2>4 DEF a, b
<1>6. ASSUME NEW j \in D, NEW p \in DOMAIN g[j]
      PROVE  g[j][p] # h
  <2> SUFFICES ASSUME g[j][p] = heads[i][1] PROVE FALSE
    BY <1>2 DEF l
  <2>1. 1 \in DOMAIN heads[i]
    BY <1>2 DEF l
  <2>2. CASE j = i /\ p \in Nat \ {0} /\ p + 1 \in DOMAIN heads[j] /\ g[j][p] = heads[j][p + 1]
    <3>1. p + 1 = 1
      BY <1>1, <2>1, <2>2
    <3> QED
      BY <2>2, <3>1
  <2>3. CASE j # i /\ p \in DOMAIN heads[j] /\ g[j][p] = heads[j][p]
    BY <1>1, <2>1, <2>3
  <2> QED
    BY <1>4, <2>2, <2>3
<1>7. Once(g)
  BY <1>3, <1>5 DEF Once
<1>8. IsFree(g, h)
  BY <1>3, <1>6 DEF IsFree
<1> QED
  BY <1>2, <1>3, <1>7, <1>8 DEF AreLists, h, l

\* A change is delivered at the time that has come.
LEMMA DeliverChangeStep ==
  ASSUME Inv, DeliverChange, UNCHANGED writerVars
  PROVE  ReaderInv'
<1> DEFINE s == file.sections[it.k]
           D == 0..(Len(s.times) - 1)
           h == Head(it.heads[it.i])
           rest == AfterEntry(rd.lens[h], it.chains[h])
           taken == [it.heads EXCEPT ![it.i] = Tail(@)]
           e == Change(TimeTable(s)[it.i + 1], h, EntryValue(rd.lens[h], it.chains[h]))
<1>1. /\ it.pc = "changes" /\ it.i >= 0 /\ it.heads[it.i] # <<>>
      /\ UNCHANGED <<writerVars, rd, rv>>
      /\ it' = [it EXCEPT !.chains[h] = rest, !.heads = Scattered(taken, it.i, h, rest)]
      /\ out' = Append(out, e)
  BY DEF DeliverChange, Section
<1>2. /\ Running(it, out) /\ rd.pc = "open" /\ IsFile(file)
      /\ it.k \in 1..(Len(file.sections) + 1)
  BY <1>1, RunningNow
<1>3. Inside(it, out) /\ Told(out, it.blackout) /\ IsCursor(it)
  BY <1>1, <1>2 DEF Running
<1>4. /\ it.k \in Blocks(file) /\ it.i < Len(s.times) /\ MayTell(out, Now(it))
      /\ AreLists(it.heads, D, DOMAIN rd.lens)
  BY <1>3 DEF Inside, At
<1>5. s.times \in Seq(Nat) /\ Len(s.times) \in Nat
  BY <1>2, <1>4, BlocksAre
<1>6. it.i \in D /\ it.i # -1
  <2>1. it.i \in Nat \cup {-1}
    BY <1>3 DEF IsCursor
  <2> HIDE DEF s
  <2> QED
    <3>1. PICK i, n : i = it.i /\ n = Len(s.times)
      OBVIOUS
    <3>2. i >= 0 /\ i < n /\ n \in Nat /\ i \in Nat \cup {-1}
      BY Zenon, <1>1, <1>4, <1>5, <2>1, <3>1
    <3>3. i \in 0..(n - 1) /\ i # -1
      BY ONLY <3>2
    <3> QED
      BY Zenon, <3>1, <3>3 DEF D
<1>7. e.kind = "change" /\ e.time = Now(it)
  BY <1>6 DEF Change, Now, Clock, At
<1> HIDE DEF D, e
<1>8. h \in DOMAIN rd.lens /\ AreLists(taken, D, DOMAIN rd.lens) /\ IsFree(taken, h)
  BY <1>1, <1>4, <1>6, TakenOff
<1> HIDE DEF h, rest, taken
<1>9. AreLists(Scattered(taken, it.i, h, rest), D, DOMAIN rd.lens)
  BY <1>8, ScatteredOnce
<1>10. /\ it'.pc = "changes" /\ it'.k = it.k /\ it'.i = it.i /\ it'.previous = it.previous
       /\ it'.heads = Scattered(taken, it.i, h, rest) /\ it'.blackout = it.blackout
       /\ IsCursor(it')
  BY <1>1, <1>2, <1>3 DEF IsCursor
<1>11. Told(out', it.blackout) /\ MayTell(out', Now(it))
  <2>1. out \in Seq(ToSet(out))
    BY <1>3 DEF Told
  <2>2. out' = out \o <<e>>
    BY <1>1, <2>1
  <2>3. <<e>> \in Seq(ToSet(<<e>>)) /\ DOMAIN <<e>> = {1} /\ <<e>>[1] = e
    BY DEF ToSet
  <2>4. \A k \in DOMAIN <<e>> : <<e>>[k].kind = "change" /\ <<e>>[k].time = Now(it)
    BY <1>7, <2>3
  <2> QED
    BY <1>3, <1>4, <2>2, <2>3, <2>4, TellChanges
<1>12. Inside(it', out')
  <2>1. At(it') = s /\ Now(it') = Now(it)
    BY <1>10 DEF At, Now
  <2> HIDE DEF s
  <2> QED
    BY <1>4, <1>9, <1>10, <1>11, <2>1 DEF Inside, D
<1>13. Running(it', out')
  BY <1>2, <1>10, <1>11, <1>12 DEF Running
<1> QED
  BY <1>1, <1>13, SameCache, SameReader

\* The next time of the table comes.
LEMMA NextTimeIndexStep ==
  ASSUME Inv, NextTimeIndex, UNCHANGED writerVars
  PROVE  ReaderInv'
<1> DEFINE s == file.sections[it.k]
           u == Upcoming
           due == DueBlackout(u)
           marked == rd.use = "vcd" /\ u # it.previous
<1>1. /\ it.pc = "changes" /\ it.i + 1 < Len(s.times) /\ ~Beyond
      /\ UNCHANGED <<writerVars, rd, rv>>
      /\ marked => /\ out' = out \o <<Mark(u)>> \o due
                   /\ it' = [it EXCEPT !.i = @ + 1, !.previous = u, !.blackout = @ + Len(due)]
      /\ ~marked => it' = [it EXCEPT !.i = @ + 1] /\ out' = out
  BY DEF NextTimeIndex, AllDelivered, NewTime, Section
<1>2. /\ Running(it, out) /\ rd.pc = "open" /\ IsFile(file)
      /\ it.k \in 1..(Len(file.sections) + 1)
  BY <1>1, RunningNow
<1>3. Inside(it, out) /\ Told(out, it.blackout) /\ IsCursor(it)
  BY <1>1, <1>2 DEF Running
<1>4. /\ it.k \in Blocks(file) /\ it.i < Len(s.times) /\ MayTell(out, Now(it))
      /\ AreLists(it.heads, 0..(Len(s.times) - 1), DOMAIN rd.lens)
      /\ Now(it) = Clock(s, it.i) /\ it.i \in Nat \cup {-1}
  BY <1>3 DEF Inside, At, Now, IsCursor
<1>5. Len(s.times) \in Nat
  BY ONLY <1>2, <1>4, BlocksAre, SMTT(30)
<1>6. u = Clock(s, it.i + 1) /\ it.i + 1 \in Nat
  <2>1. it.i + 1 \in Nat /\ it.i + 1 # -1 /\ (it.i + 1) + 1 = it.i + 2
    BY <1>4
  <2> QED
    BY <2>1 DEF Clock, Upcoming, Section
<1>7. /\ Now(it) \in Nat /\ u \in Nat
      /\ ~past.idleFlush => Now(it) <= u
      /\ phase = "closed" /\ ~past.idleFlush => u \in rd.start..rd.end
  <2>1. s = file.sections[it.k] /\ it.i + 1 \in Nat \cup {-1}
    BY <1>6
  <2> HIDE DEF s, u
  <2>2. /\ Clock(s, it.i) \in Nat
        /\ ~past.idleFlush => Clock(s, it.i) <= Clock(s, it.i + 1)
    BY <1>1, <1>2, <1>4, <2>1, ClockGoesOn
  <2>3. /\ Clock(s, it.i + 1) \in Nat
        /\ phase = "closed" /\ ~past.idleFlush => Clock(s, it.i + 1) \in rd.start..rd.end
    BY <1>1, <1>2, <1>4, <2>1, ClockGoesOn
  <2> QED
    BY <1>4, <1>6, <2>2, <2>3
<1>8. Cut => u <= rd.range[2]
  <2> SUFFICES ASSUME Cut PROVE u <= rd.range[2]
    OBVIOUS
  <2>1. rd.range[2] \in Nat /\ rd.use = "vcd" /\ Limited
    BY <1>2, OpenIs DEF Cut
  <2>2. CASE u = it.previous
    BY <1>2, <2>2 DEF Running
  <2>3. CASE u # it.previous
    BY <1>1, <1>7, <2>1, <2>3 DEF Beyond
  <2> QED
    BY <2>2, <2>3
<1>9. MayTell(out, u)
  <2>1. ~past.idleFlush => UpTo(out, u)
    BY <1>3, <1>4, <1>7 DEF MayTell, UpTo, Told, TimesTold
  <2> QED
    BY <1>7, <1>8, <2>1 DEF MayTell
<1> HIDE DEF u, due
<1>10. /\ it'.pc = "changes" /\ it'.k = it.k /\ it'.i = it.i + 1 /\ it'.heads = it.heads
       /\ it'.previous = IF marked THEN u ELSE it.previous
       /\ it'.blackout = IF marked THEN it.blackout + Len(due) ELSE it.blackout
  <2>1. CASE marked
    BY <1>1, <1>3, <2>1 DEF IsCursor
  <2>2. CASE ~marked
    BY <1>1, <1>3, <2>2 DEF IsCursor
  <2> QED
    BY <2>1, <2>2
<1>11. Told(out', it'.blackout) /\ MayTell(out', u)
  <2>1. CASE marked
    <3>1. <<Mark(u)>> \in {<<>>, <<Mark(u)>>}
      OBVIOUS
    <3>2. due = IF it.blackout <= Len(rd.blackouts) /\ rd.blackouts[it.blackout].time = u
                THEN <<Switch(rd.blackouts[it.blackout])>> ELSE <<>>
      BY DEF due, DueBlackout
    <3>3. BlackoutsInv /\ past.blackouts \in Seq(Blackouts) /\ BlackoutsRead
      BY <1>2, OpenIs DEF Inv
    <3>4. /\ Told((out \o <<Mark(u)>>) \o due, it.blackout + Len(due))
          /\ MayTell((out \o <<Mark(u)>>) \o due, u)
      BY ONLY <1>3, <1>9, <3>1, <3>2, <3>3, TellTime
    <3> QED
      BY <1>1, <1>10, <2>1, <3>4
  <2>2. CASE ~marked
    BY <1>1, <1>3, <1>9, <1>10, <2>2
  <2> QED
    BY <2>1, <2>2
<1>12. IsCursor(it')
  <2>1. it'.blackout \in Nat
    BY <1>11 DEF Told, SeenTold
  <2>2. CASE marked
    BY <1>1, <1>3, <1>6, <1>7, <1>10, <2>1, <2>2 DEF IsCursor
  <2>3. CASE ~marked
    BY <1>1, <1>3, <1>6, <1>10, <2>1, <2>3 DEF IsCursor
  <2> QED
    BY <2>2, <2>3
<1>13. Inside(it', out')
  <2>1. At(it') = s /\ Now(it') = u
    BY <1>6, <1>10 DEF At, Now
  <2> HIDE DEF s
  <2> QED
    BY <1>1, <1>4, <1>10, <1>11, <2>1 DEF Inside
<1>14. Cut => it'.previous <= rd.range[2]
  BY <1>2, <1>8, <1>10 DEF Running
<1>15. Running(it', out')
  BY <1>2, <1>10, <1>11, <1>12, <1>13, <1>14 DEF Running
<1> QED
  BY <1>1, <1>15, SameCache, SameReader

\* The changes of a block are delivered, or the range has ended.
LEMMA EndOfBlockStep ==
  ASSUME Inv, EndOfBlock, UNCHANGED writerVars
  PROVE  ReaderInv'
<1> DEFINE s == file.sections[it.k]
<1>1. /\ it.pc = "changes" /\ UNCHANGED <<writerVars, rd, rv, out>>
      /\ it' = [it EXCEPT !.pc = IF it.secnum + 1 = rd.count THEN "done" ELSE "block",
                          !.secnum = @ + 1, !.k = @ + 1, !.chains = <<>>, !.heads = <<>>]
  BY DEF EndOfBlock, AllDelivered
<1>2. /\ Running(it, out) /\ rd.pc = "open" /\ IsFile(file)
  BY <1>1, RunningNow
<1>3. Inside(it, out) /\ Told(out, it.blackout) /\ IsCursor(it)
  BY <1>1, <1>2 DEF Running
<1>4. /\ it.k \in Blocks(file) /\ it.i < Len(s.times) /\ MayTell(out, Now(it))
      /\ Now(it) = Clock(s, it.i) /\ it.i \in Nat \cup {-1}
  BY <1>3 DEF Inside, At, Now, IsCursor
<1>5. it.k + 1 \in 1..(Len(file.sections) + 1)
  BY <1>2, <1>4, BlocksAre
<1>6. IsCursor(it')
  <2>1. PICK pc \in {"block", "done"} :
           it' = [it EXCEPT !.pc = pc, !.secnum = @ + 1, !.k = @ + 1, !.chains = <<>>,
                            !.heads = <<>>]
    BY <1>1
  <2>2. it' = [pc |-> pc, k |-> it.k + 1, secnum |-> it.secnum + 1, skipped |-> it.skipped,
               index |-> it.index, chains |-> <<>>, heads |-> <<>>, i |-> it.i,
               previous |-> it.previous, blackout |-> it.blackout]
    BY <1>3, <2>1 DEF IsCursor
  <2>3. /\ it.secnum + 1 \in Nat /\ it.skipped \in BOOLEAN /\ it.i \in Nat \cup {-1}
        /\ it.previous \in Nat \cup {-1} /\ it.blackout \in Nat
    BY <1>3 DEF IsCursor
  <2> QED
    BY <1>5, <2>1, <2>2, <2>3 DEF IsCursor
<1>7. /\ it'.pc \in {"block", "done"} /\ it'.k = it.k + 1
      /\ it'.blackout = it.blackout /\ it'.previous = it.previous
  BY <1>1, <1>3 DEF IsCursor
<1>8. Between(it', out')
  <2> SUFFICES ASSUME it.k + 1 \in Blocks(file), ~past.idleFlush
               PROVE  UpTo(out, file.sections[it.k + 1].begin)
    BY <1>1, <1>7 DEF Between, At
  <2>1. s = file.sections[it.k]
    OBVIOUS
  <2> HIDE DEF s
  <2>2. /\ Clock(s, it.i) \in s.begin..s.end /\ s.begin \in Nat /\ s.end \in Nat
        /\ file.sections[it.k + 1].begin = s.end
    BY <1>2, <1>4, <2>1, ClockGoesOn
  <2>3. UpTo(out, Now(it))
    BY <1>4 DEF MayTell
  <2>4. \A i \in DatedIn(out) : out[i].time \in Nat
    BY <1>3 DEF Told, TimesTold
  <2> QED
    BY <1>4, <2>2, <2>3, <2>4 DEF UpTo
<1>9. Running(it', out')
  BY <1>1, <1>2, <1>3, <1>6, <1>7, <1>8 DEF Running
<1> QED
  BY <1>1, <1>9, SameCache, SameReader

\* Opening the file: the reader is before its first block.
LEMMA OpenFileReads ==
  ASSUME Inv, NEW request \in Requests, OpenFile(request), UNCHANGED writerVars
  PROVE  ReaderInv'
<1>1. /\ phase # "writing" /\ rd.pc = "closed" /\ rv' = rv /\ out' = out
      /\ phase' = phase /\ file' = file /\ past' = past
      /\ rd' = IF Readable(file) THEN OpenedAs(file, request) ELSE [pc |-> "failed"]
      /\ Readable(file) /\ request.use # "lookup" =>
            it' = [pc |-> "block", k |-> 1, secnum |-> 0, skipped |-> FALSE, index |-> NoIndex,
                   chains |-> <<>>, heads |-> <<>>, i |-> 0, previous |-> -1, blackout |-> 1]
      /\ ~(Readable(file) /\ request.use # "lookup") => it' = it
  BY DEF OpenFile, writerVars
<1>2. /\ Resting /\ rv.block = 0 /\ IsCache(rv)
  BY <1>1 DEF Inv, ReaderInv, Running
<1>3. IsCache(rv)'
  BY <1>1, <1>2 DEF IsCache
<1>4. CASE ~Readable(file)
  BY <1>1, <1>2, <1>3, <1>4 DEF ReaderInv, Resting
<1>5. CASE Readable(file)
  <2>1. rd' = OpenedAs(file, request)
    BY <1>1, <1>5
  <2>2. /\ rd'.pc = "open" /\ rd'.use = request.use /\ rd'.range = request.range
        /\ rd'.blackouts = BlackoutTimes(file)
    BY <2>1 DEF OpenedAs
  <2>3. IsOpen'
    <3>1. request.range \in {<<>>} \cup (Nat \X Nat)
      BY RequestsAssumption
    <3>2. rd' = [pc |-> "open", start |-> StartTime(file), end |-> EndTime(file),
                 lens |-> SignalLens(file), count |-> Cardinality(Blocks(file)),
                 blackouts |-> BlackoutTimes(file), mask |-> rd'.mask, range |-> rd'.range,
                 use |-> rd'.use]
      BY <2>1 DEF OpenedAs
    <3> QED
      BY <1>1, <1>5, <2>2, <3>1, <3>2 DEF IsOpen
  <2>4. CASE request.use = "lookup"
    BY <1>1, <1>2, <1>3, <2>2, <2>3, <2>4 DEF ReaderInv, Resting
  <2>5. CASE request.use # "lookup"
    <3>1. /\ it'.pc = "block" /\ it'.k = 1 /\ it'.previous = -1 /\ it'.blackout = 1
      BY <1>1, <1>5, <2>5
    <3>2. IsCursor(it)'
      <4>1. Len(file.sections) \in Nat
        BY SectionsAre DEF Inv, FstInv, Types
      <4>2. 1 \in 1..(Len(file.sections) + 1)
        BY <4>1
      <4>3. it' = [pc |-> "block", k |-> 1, secnum |-> 0, skipped |-> FALSE, index |-> NoIndex,
                   chains |-> <<>>, heads |-> <<>>, i |-> 0, previous |-> -1, blackout |-> 1]
        BY <1>1, <1>5, <2>5
      <4>4. file' = file
        BY <1>1
      <4> HIDE DEF NoIndex
      <4> QED
        BY ONLY <4>2, <4>3, <4>4 DEF IsCursor
    <3>3. DatedIn(out) = {} /\ SeenIn(out) = {} /\ MarksIn(out) = {} /\ out \in Seq(ToSet(out))
      BY <1>2 DEF Resting, DatedIn, SeenIn, MarksIn
    <3>4. Len(rd'.blackouts) \in Nat
      <4>1. past.blackouts \in Seq(Blackouts) /\ phase \in {"closed", "dead"}
        BY <1>1 DEF Inv, FstInv, Types, Pasts
      <4>2. CASE phase = "closed"
        BY <2>2, <4>1, <4>2 DEF Inv, BlackoutsInv
      <4>3. CASE phase # "closed"
        <5>1. file.blackouts = <<>>
          BY <4>3 DEF Inv, BlackoutsInv
        <5>2. BlackoutTimes(file) = <<>>
          BY <5>1 DEF BlackoutTimes
        <5> QED
          BY <2>2, <5>2
      <4> QED
        BY <4>2, <4>3
    <3>5. Cardinality(SeenIn(out)) = 0
      BY <3>3, FS_EmptySet
    <3>6. Told(out, it.blackout)'
      <4>1. TimesTold(out)'
        BY <1>1, <3>3 DEF TimesTold, Ascends, UpTo
      <4>2. SeenTold(out, it.blackout)'
        BY <1>1, <3>1, <3>3, <3>4, <3>5 DEF SeenTold
      <4>3. Awaited(out, it.blackout)'
        BY <1>1, <3>3 DEF Awaited
      <4> QED
        BY <1>1, <3>3, <4>1, <4>2, <4>3 DEF Told
    <3>7. (Cut => it.previous <= rd.range[2])'
      BY <2>3, <3>1 DEF Cut, Limited, IsOpen
    <3>8. Between(it, out)'
      BY <1>1, <3>3 DEF Between, UpTo
    <3>9. Running(it, out)'
      BY <2>2, <2>5, <3>1, <3>2, <3>6, <3>7, <3>8 DEF Running
    <3> QED
      BY <1>1, <1>3, <2>2, <2>3, <3>9 DEF ReaderInv
  <2> QED
    BY <2>4, <2>5
<1> QED
  BY <1>4, <1>5

\* A lookup remembers its block.
LEMMA LookupCache ==
  ASSUME NEW c, IsCache(c), NEW s, NEW h, NEW t
  PROVE  IsCache(InBlock(c, s, h, t).cache)
<1>1. ASSUME NEW d, IsCache(d), NEW entries
      PROVE  IsCache(InChain(d, s, h, t, entries).cache)
  <2> DEFINE p == IF d.valid /\ t >= d.time THEN d ELSE FromStart(d, s)
             passed == Passed(entries, TimeTable(s), p.at, p.before, t)
  <2>1. InChain(d, s, h, t, entries).cache =
           IF passed = {} THEN [d EXCEPT !.time = p.time]
           ELSE [d EXCEPT !.valid = TRUE, !.at = Max(passed), !.time = t,
                          !.before = IndexBefore(entries, p.at, p.before, Max(passed))]
    BY Zenon DEF InChain
  <2> HIDE DEF passed, p
  <2> QED
    BY <1>1, <2>1 DEF IsCache
<1>2. IsCache(WithChain(c, h))
  BY DEF IsCache, WithChain
<1> DEFINE index == ReadIndex(s.handles, s.index, 1 + Len(s.body), NoIndex)
           entries == EntriesOf(rd.lens[h], ChainOf(s.body, index, h))
<1>3. InBlock(c, s, h, t).cache \in {c, InChain(WithChain(c, h), s, h, t, entries).cache}
  BY Zenon DEF InBlock
<1> HIDE DEF entries
<1> QED
  BY <1>1, <1>2, <1>3

\* A lookup adds an answer, or the search derails.
LEMMA LookupStep ==
  ASSUME Inv, NEW h, NEW t, Lookup(h, t), UNCHANGED writerVars
  PROVE  ReaderInv'
<1>1. /\ rd.pc = "open" /\ rd.use = "lookup" /\ it' = it
      /\ rd' = rd \/ rd' = [pc |-> "derailed"]
      /\ phase' = phase /\ file' = file
  BY DEF Lookup, writerVars
<1>2. Resting /\ IsCache(rv) /\ IsOpen /\ phase # "writing" /\ IsFile(file)
  BY <1>1, OpenIs DEF Inv, ReaderInv, Running
<1>3. out' = out \/ \E v : out' = Append(out, Answer(h, t, v))
  BY DEF Lookup
<1>4. Resting'
  <2>1. CASE out' = out
    BY <1>1, <1>2, <2>1 DEF Resting
  <2>2. ASSUME NEW v, out' = Append(out, Answer(h, t, v)) PROVE Resting'
    <3> DEFINE a == Answer(h, t, v)
    <3>1. out \in Seq(ToSet(out)) /\ <<a>> \in Seq(ToSet(<<a>>)) /\ a.kind = "answer"
      BY <1>2 DEF Resting, Answer, ToSet
    <3> HIDE DEF a
    <3>2. out' = out \o <<a>>
      BY <2>2, <3>1 DEF a
    <3>3. out' \in Seq(ToSet(out'))
      BY <3>1, <3>2, Joined
    <3>4. \A i \in DOMAIN out' :
             \/ i \in DOMAIN out /\ out'[i] = out[i]
             \/ i - Len(out) \in DOMAIN <<a>> /\ out'[i] = <<a>>[i - Len(out)]
      BY <3>1, <3>2, JoinedFrom
    <3>5. DatedIn(out') = {}
      BY <1>2, <3>1, <3>4 DEF Resting, DatedIn
    <3> QED
      BY <1>1, <1>2, <3>3, <3>5 DEF Resting
  <2> QED
    BY <1>3, <2>1, <2>2
<1>5. IsCache(rv')
  <2>1. Len(file.sections) \in Nat
    BY <1>2, SectionsAre
  <2>2. CASE rv' = rv
    BY <1>2, <2>2
  <2>3. CASE rv' = NoCache
    BY <2>1, <2>3 DEF IsCache, NoCache
  <2>4. ASSUME rv' # rv, rv' # NoCache PROVE IsCache(rv')
    <3> DEFINE k == BlockFor(t)
               c == IF Cached(t) THEN rv ELSE [NoCache EXCEPT !.block = k]
    <3>1. /\ rv' = InBlock(c, file.sections[k], h, t).cache
          /\ Cached(t) \/ Covering(t) # {}
      BY <2>4 DEF Lookup
    <3>2. k \in 0..Len(file.sections)
      <4>1. CASE Cached(t)
        BY <1>2, <4>1 DEF BlockFor, IsCache
      <4>2. CASE ~Cached(t)
        <5>1. Covering(t) \in SUBSET (1..Len(file.sections)) /\ Covering(t) # {}
          BY <1>2, <3>1, <4>2, SectionsAre DEF Covering
        <5>2. Min(Covering(t)) \in Covering(t)
          BY <2>1, <5>1, Facts!MinExists DEF Min, Facts!Min
        <5> QED
          BY <4>2, <5>1, <5>2 DEF BlockFor
      <4> QED
        BY <4>1, <4>2
    <3> HIDE DEF k
    <3>3. IsCache(c)
      BY <1>2, <3>2 DEF IsCache, NoCache
    <3> HIDE DEF c
    <3> QED
      BY <3>1, <3>3, LookupCache
  <2> QED
    BY <2>2, <2>3, <2>4
<1>6. IsCache(rv)'
  BY <1>1, <1>5 DEF IsCache
<1>7. rd' = rd => IsOpen'
  BY <1>1, <1>2 DEF IsOpen
<1> QED
  BY <1>1, <1>2, <1>4, <1>6, <1>7 DEF ReaderInv

\* While the writer is there nothing is read.
LEMMA WriteReads ==
  ASSUME Inv, FstInv', Write
  PROVE  ReaderInv'
<1>1. phase = "writing" /\ UNCHANGED readerVars
  BY DEF Write, WriterNext, CreateVar, EmitValueChange, EmitFirstTime, EmitTimeChange,
         FlushContext, EmitDumpActive, Close, Die
<1>2. /\ rd.pc = "closed" /\ rv.block = 0 /\ IsCache(rv) /\ Resting
      /\ rd' = rd /\ rv' = rv /\ it' = it /\ out' = out
  BY <1>1 DEF Inv, ReaderInv, Running, readerVars
<1>3. Len(file'.sections) \in Nat
  BY SectionsAre DEF FstInv, Types
<1>4. IsCache(rv)'
  BY <1>2, <1>3 DEF IsCache
<1> QED
  BY <1>2, <1>4 DEF ReaderInv, Resting

\* Every step of the reader.
LEMMA ReadReads ==
  ASSUME Inv, Read
  PROVE  ReaderInv'
<1>1. UNCHANGED writerVars
  BY DEF Read
<1>2. CASE \E request \in Requests : OpenFile(request)
  BY <1>1, <1>2, OpenFileReads
<1>3. CASE \E t \in EmitTimes : rd.pc = "open" /\ \E h \in DOMAIN rd.lens : Lookup(h, t)
  BY <1>1, <1>3, LookupStep
<1> QED
  BY <1>1, <1>2, <1>3, EndOfFileStep, SkipBlockStep, EndOfRangeStep, LoadBlockStep,
     DeliverChangeStep, NextTimeIndexStep, EndOfBlockStep DEF Read, ReaderNext

\* All four invariants hold in every state.
LEMMA AllInvariant == Spec => []Inv
<1>1. Init => Inv
  <2> SUFFICES ASSUME Init PROVE Inv
    OBVIOUS
  <2>1. rd.pc = "closed" /\ it = [pc |-> "idle"] /\ rv = NoCache /\ out = <<>>
    BY DEF Init, ReaderInit
  <2>2. FstInv
    BY Starts
  <2>3. Len(file.sections) \in Nat
    BY <2>2, SectionsAre DEF FstInv, Types
  <2>4. ReaderInv
    BY <2>1, <2>3 DEF ReaderInv, Resting, IsCache, NoCache, DatedIn
  <2> QED
    BY <2>2, <2>4, TimesStart DEF Inv
<1>2. Inv /\ [Next]_vars => Inv'
  <2> SUFFICES ASSUME Inv, [Next]_vars PROVE Inv'
    OBVIOUS
  <2>1. CASE Write
    <3>1. FstInv'
      BY <2>1, WriteStep DEF Inv
    <3>2. TimesInv' /\ BlackoutsInv'
      BY <2>1, <3>1, WriteTimes DEF Inv
    <3> QED
      BY <2>1, <3>1, <3>2, WriteReads DEF Inv
  <2>2. CASE Read
    <3>1. FstInv'
      BY <2>2, ReadStep DEF Inv
    <3>2. TimesInv' /\ BlackoutsInv'
      BY <2>2 DEF Inv, Read, writerVars, TimesInv, BlackoutsInv
    <3> QED
      BY <2>2, <3>1, <3>2, ReadReads DEF Inv
  <2>3. CASE UNCHANGED vars
    <3>1. FstInv'
      BY <2>3 DEF Inv, vars, writerVars, readerVars, FstInv, Types, Writing, BlocksAdjoin,
                  Saved, Opened
    <3>2. TimesInv' /\ BlackoutsInv'
      BY <2>3 DEF Inv, vars, writerVars, TimesInv, BlackoutsInv
    <3>3. ReaderInv'
      <4>1. UNCHANGED <<file, past, phase, rd, rv, it, out>> /\ ReaderInv
        BY <2>3 DEF Inv, vars, writerVars, readerVars
      <4>2. Told(out, it.blackout) => Told(out, it.blackout)'
        BY <4>1 DEF Told, TimesTold, SeenTold, Awaited, Cut, Limited
      <4>3. Between(it, out) => Between(it, out)'
        BY <4>1 DEF Between, At
      <4>4. Inside(it, out) => Inside(it, out)'
        BY <4>1 DEF Inside, MayTell, Now, At, Cut, Limited, Clock
      <4>5. Running(it, out) => Running(it, out)'
        BY <4>1, <4>2, <4>3, <4>4 DEF Running, IsCursor, Cut, Limited
      <4>6. (Resting => Resting') /\ (IsCache(rv) => IsCache(rv)') /\ (IsOpen => IsOpen')
        BY <4>1 DEF Resting, IsCache, IsOpen
      <4> QED
        BY <4>1, <4>5, <4>6 DEF ReaderInv
    <3> QED
      BY <3>1, <3>2, <3>3 DEF Inv
  <2> QED
    BY <2>1, <2>2, <2>3 DEF Next
<1> QED
  BY <1>1, <1>2, PTL DEF Spec

\* What a reader delivers, at any time.
LEMMA ToldNow ==
  ASSUME Inv, DatedIn(out) # {}
  PROVE  rd.pc = "open" /\ Running(it, out) /\ TimesTold(out)
BY DEF Inv, ReaderInv, Resting, Running, Told

------------------------------------------------------------------------------
(* The theorems. *)

\* The variables, values, chains and indices of fstWriterContext have the same
\* handles, and the time difference of a change (fstWriterEmitValueChange) is
\* never negative and never more than the times of its block.
THEOREM WriterTypes == Spec => []WriterTypeOK
<1>1. FstInv => WriterTypeOK
  BY WriterTypesHold
<1> QED
  BY Invariance, <1>1, PTL

\* No step of the writer, its closing and its crashes included, touches a block
\* that fstWriterFlushContextPrivate has finished.
THEOREM FinishedBlocksStay == Spec => BlocksStay
<1>1. FstInv /\ [Next]_vars => [Stay(file, file')]_file
  BY WriteStep, ReadStep DEF Next, vars, writerVars
<1> QED
  BY Invariance, <1>1, PTL DEF Spec, BlocksStay, Stay

\* Once a block with changes was finished, fstReaderOpen opens the file that is
\* left, closed or not.
THEOREM FilesRecoverable == Spec => []Recoverable
<1>1. FstInv => Recoverable
  BY DEF FstInv, Opened, Recoverable
<1> QED
  BY Invariance, <1>1, PTL

\* The blocks of a file adjoin: each begins at the end of the one before, which
\* is finished, so that only the last can be without changes (the begin time of
\* fstWriterEmitSectionHeader, the end time of fstWriterFlushContextPrivate).
THEOREM TimesAdjoin == Spec => []BlocksAdjoin
<1>1. FstInv => BlocksAdjoin
  BY DEF FstInv
<1> QED
  BY Invariance, <1>1, PTL

\* The writer keeps its slots, the reader is in one of its states, no list of
\* fstReaderIterBlocks2 has a handle twice, and what a lookup remembers is a
\* block of the file.
THEOREM FileTypes == Spec => []TypeOK
<1>1. Inv => TypeOK
  <2> SUFFICES ASSUME Inv PROVE TypeOK
    OBVIOUS
  <2>1. WriterTypeOK
    BY WriterTypesHold DEF Inv
  <2>2. rd.pc \in {"closed", "failed", "open", "derailed"}
    BY DEF Inv, ReaderInv
  <2>3. it.pc \in {"idle", "block", "changes", "done"}
    BY DEF Inv, ReaderInv, Resting, Running, IsCursor
  <2>4. rv.block \in 0..Len(file.sections)
    BY DEF Inv, ReaderInv, IsCache
  <2>5. ASSUME it.pc = "changes", NEW i \in DOMAIN it.heads
        PROVE  IsInjective(it.heads[i])
    <3>1. Once(it.heads)
      BY <2>5, RunningNow DEF Running, Inside, AreLists
    <3> QED
      BY <2>5, <3>1 DEF Once, IsInjective
  <2> QED
    BY <2>1, <2>2, <2>3, <2>4, <2>5 DEF TypeOK
<1> QED
  BY AllInvariant, <1>1, PTL

\* From block to block and inside of each, fstReaderIterBlocks2 delivers in the
\* order of the times, and VCD text never past the end of the range.
THEOREM DeliveryAscends == Spec => []TimesAscend
<1>1. Inv => TimesAscend
  <2> SUFFICES ASSUME Inv, NEW i \in DatedIn(out), NEW j \in DatedIn(out)
               PROVE  /\ i < j /\ ~past.idleFlush => out[i].time <= out[j].time
                      /\ rd.use = "vcd" /\ Limited => out[i].time <= rd.range[2]
    BY DEF TimesAscend, Dated, DatedIn
  <2>1. TimesTold(out)
    BY ToldNow
  <2> QED
    BY <2>1 DEF TimesTold, Ascends, UpTo, Cut
<1> QED
  BY AllInvariant, <1>1, PTL

\* What is delivered of a closed file is inside the start and the end time that
\* fstReaderGetStartTime and fstReaderGetEndTime report, also when the header
\* says nothing of them.
THEOREM DeliveryInside == Spec => []TimesInsideFile
<1>1. Inv => TimesInsideFile
  <2> SUFFICES ASSUME Inv, phase = "closed", ~past.idleFlush, NEW i \in DatedIn(out)
               PROVE  out[i].time \in rd.start..rd.end
    BY DEF TimesInsideFile, Dated, DatedIn
  <2>1. TimesTold(out)
    BY ToldNow
  <2> QED
    BY <2>1 DEF TimesTold
<1> QED
  BY AllInvariant, <1>1, PTL

\* The blackouts that fstWriterClose writes as differences are read back as they
\* were emitted, come in VCD text in their order, and none is missing when their
\* times differ and are times of the dump, without a flush of nothing.
THEOREM BlackoutsKeptAndTold == Spec => []BlackoutsComplete
<1>1. Inv => BlackoutsComplete
  <2> SUFFICES ASSUME Inv, rd.pc = "open" PROVE BlackoutsComplete
    BY DEF BlackoutsComplete
  <2> DEFINE seen == {i \in DOMAIN out : out[i].kind = "blackout"}
             marks == {j \in DOMAIN out : out[j].kind = "mark"}
             times == {out[i].time : i \in marks}
             due == [k \in DOMAIN past.blackouts |-> past.blackouts[k].time]
             count(i) == Cardinality({j \in seen : j <= i})
  <2>1. phase = "closed" => rd.blackouts = past.blackouts
    BY OpenIs DEF BlackoutsRead
  <2>2. ASSUME NEW i \in seen
        PROVE  count(i) \in DOMAIN rd.blackouts /\ out[i] = Switch(rd.blackouts[count(i)])
    <3>1. i \in SeenIn(out) /\ i \in DatedIn(out) /\ count(i) = CountIn(out, i)
      BY DEF SeenIn, CountIn, DatedIn
    <3>2. SeenTold(out, it.blackout)
      BY <3>1, ToldNow DEF Running, Told
    <3> QED
      BY <3>1, <3>2 DEF SeenTold
  <2>3. ASSUME phase = "closed", rd.use = "vcd", it.pc = "done", ~past.idleFlush,
               IsInjective(due), ToSet(due) \subseteq times
        PROVE  Cardinality(seen) = Len(past.blackouts)
    <3>1. Running(it, out)
      BY <2>3, RunningNow
    <3>2. SeenTold(out, it.blackout) /\ Awaited(out, it.blackout)
      BY <3>1 DEF Running, Told
    <3>3. /\ it.blackout \in Nat \ {0} /\ it.blackout <= Len(past.blackouts) + 1
          /\ Cardinality(seen) = it.blackout - 1
      BY <2>1, <2>3, <3>2 DEF SeenTold, SeenIn
    <3>4. past.blackouts \in Seq(Blackouts)
      BY OpenIs
    <3>5. it.blackout \notin DOMAIN past.blackouts
      <4> SUFFICES ASSUME it.blackout \in DOMAIN past.blackouts PROVE FALSE
        OBVIOUS
      <4>1. \A i \in marks : out[i].time # past.blackouts[it.blackout].time
        BY <2>3, <3>2 DEF Awaited, MarksIn
      <4>2. past.blackouts[it.blackout].time \in ToSet(due)
        BY DEF ToSet
      <4> QED
        BY <2>3, <4>1, <4>2
    <3> QED
      BY <3>3, <3>4, <3>5
  <2> QED
    BY <2>1, <2>2, <2>3 DEF BlackoutsComplete
<1> QED
  BY AllInvariant, <1>1, PTL

=============================================================================

----------------------------- MODULE FstReader -----------------------------
(***************************************************************************)
(* The reader of fst/fstapi.c: opening what the writer left, delivering    *)
(* the changes of all blocks in the order of their times, and looking up   *)
(* the value that a variable has at a time.                                *)
(*                                                                         *)
(* rd is the part of struct fstReaderContext that opening sets, it are the *)
(* local variables of fstReaderIterBlocks2, and rv is the block and the    *)
(* position that fstReaderGetValueFromHandleAtTime remembers.              *)
(***************************************************************************)
EXTENDS FstWriter

CONSTANTS Requests,   \* what a reader may ask for: the handles in mask, in the time
                      \* range, <<>> or <<start, end>>, and the use: "changes",
                      \* "vcd" for changes as VCD text, or "lookup"
          MaxLookups  \* bound

ASSUME RequestsAssumption ==
    \A request \in Requests : request.range \in {<<>>} \cup (Nat \X Nat)

VARIABLES rd, it, rv,
          out  \* what was delivered: changes, VCD times and blackouts, answers

readerVars == <<rd, it, rv, out>>

NoCache == [block |-> 0, handle |-> 0, valid |-> FALSE, at |-> 1, before |-> 0, time |-> 0]

ReaderInit ==
    /\ rd = [pc |-> "closed"]
    /\ it = [pc |-> "idle"]
    /\ rv = NoCache
    /\ out = <<>>

------------------------------------------------------------------------------
(* Opening. *)

\* The finished blocks, by their place in the file.
Blocks(f) == {k \in DOMAIN f.sections : f.sections[k].tag = "vcdata"}
FirstBlock(f) == f.sections[Min(Blocks(f))]
LastBlock(f)  == f.sections[Max(Blocks(f))]

\* The header of a writer that has not come to its end, or of a dump of time 0.
HdrIncomplete(f) == f.header = [start |-> 0, end |-> 0]

\* With an incomplete header the blocks tell the times, and the hierarchy
\* the lengths.
StartTime(f) == IF HdrIncomplete(f) THEN FirstBlock(f).begin ELSE f.header.start
EndTime(f)   == IF HdrIncomplete(f) THEN LastBlock(f).end ELSE f.header.end
\* Faulty variant: without the geometry there are no lengths.
SignalLensOfGeom(f) == f.geom

SignalLens(f) == IF f.geom # <<>> /\ ~HdrIncomplete(f) THEN f.geom ELSE f.hier

BlackoutTimes(f) ==
    LET times == Times([k \in DOMAIN f.blackouts |-> f.blackouts[k].delta])
    IN  [k \in DOMAIN f.blackouts |-> [active |-> f.blackouts[k].active, time |-> times[k]]]

\* A header that is complete and a block that is not: fstReaderInit takes
\* the bytes of that block for blocks.
Misread(f) == ~HdrIncomplete(f) /\ f.sections # <<>> /\ Last(f.sections).tag = "skip"

Readable(f) == HasFlushed(f) /\ SignalLens(f) # <<>>

OpenedAs(f, request) ==
    [pc |-> "open", start |-> StartTime(f), end |-> EndTime(f), lens |-> SignalLens(f),
     count |-> Cardinality(Blocks(f)), blackouts |-> BlackoutTimes(f),
     mask |-> request.mask, range |-> request.range, use |-> request.use]

\* fstReaderOpen, the process mask and the time range.
OpenFile(request) ==
    /\ phase # "writing" /\ rd.pc = "closed"
    /\ ~Misread(file)
    /\ rd' = IF Readable(file) THEN OpenedAs(file, request) ELSE [pc |-> "failed"]
    /\ it' = IF Readable(file) /\ request.use # "lookup"
             THEN [pc |-> "block", k |-> 1, secnum |-> 0, skipped |-> FALSE, index |-> NoIndex,
                   chains |-> <<>>, heads |-> <<>>, i |-> 0, previous |-> -1, blackout |-> 1]
             ELSE it
    /\ UNCHANGED <<rv, out>>

------------------------------------------------------------------------------
(* fstReaderIterBlocks2: from block to block. *)

Section == file.sections[it.k]
TimeTable(s) == Times(s.times)

Limited == rd.range # <<>>
HasBlock == it.k <= Len(file.sections) /\ Section.tag = "vcdata"

EndOfFile ==
    /\ it.pc = "block" /\ ~HasBlock
    /\ it' = [it EXCEPT !.pc = "done"]
    /\ UNCHANGED <<rd, rv, out>>

SkipBlock ==
    /\ it.pc = "block" /\ HasBlock
    /\ Limited /\ Section.end < rd.range[1]
    /\ it' = [it EXCEPT !.k = @ + 1, !.skipped = TRUE]
    /\ UNCHANGED <<rd, rv, out>>

EndOfRange ==
    /\ it.pc = "block" /\ HasBlock
    /\ Limited /\ Section.end >= rd.range[1] /\ Section.begin > rd.range[2]
    /\ it' = [it EXCEPT !.pc = "done"]
    /\ UNCHANGED <<rd, rv, out>>

------------------------------------------------------------------------------
(* A block.  heads[i] is the list that starts at tc_head[i]: the handles   *)
(* with a change at index i of the time table, the last one put there      *)
(* first.                                                                  *)

Change(t, h, v) == [kind |-> "change", time |-> t, handle |-> h, value |-> v]
Mark(t) == [kind |-> "mark", time |-> t]
Switch(b) == [kind |-> "blackout", time |-> b.time, active |-> b.active]

Scattered(heads, i, h, chain) ==
    IF chain = <<>> THEN heads
    ELSE [heads EXCEPT ![i + Delta(rd.lens[h], chain)] = <<h>> \o @]

\* Every chain is put into the list of its first change.
AllScattered(chains, n) ==
    LET lists[h \in 0..Len(chains)] ==
            IF h = 0 THEN [i \in 0..(n - 1) |-> <<>>] ELSE Scattered(lists[h - 1], 0, h, chains[h])
    IN  lists[Len(chains)]

DueBlackout(t) ==
    IF it.blackout <= Len(rd.blackouts) /\ rd.blackouts[it.blackout].time = t
    THEN <<Switch(rd.blackouts[it.blackout])>> ELSE <<>>
\* Faulty variant: skipped blocks do not count.
NeedsFrameAtStart(s) == it.secnum = 0 /\ s.begin # TimeTable(s)[1]

\* The values at the begin are only delivered with the first block.
NeedsFrame(s) == it.secnum = 0 /\ (s.begin # TimeTable(s)[1] \/ it.skipped)

FrameValues(s) ==
    LET shown  == {h \in DOMAIN s.frame : h \in rd.mask /\ rd.lens[h] # 0}
        nth(k) == CHOOSE h \in shown : Cardinality({g \in shown : g <= h}) = k
    IN  [k \in 1..Cardinality(shown) |-> Change(s.begin, nth(k), s.frame[nth(k)])]

FrameText(s) ==
    IF rd.use # "vcd" THEN <<>>
    ELSE (IF s.begin = 0 THEN <<>> ELSE <<Mark(s.begin)>>) \o DueBlackout(s.begin)

ChainsOf(s, index) ==
    [h \in DOMAIN rd.lens |->
        IF h <= s.handles /\ h \in rd.mask THEN ChainOf(s.body, index, h) ELSE <<>>]

LoadBlock ==
    /\ it.pc = "block" /\ HasBlock
    /\ Limited => Section.end >= rd.range[1] /\ Section.begin <= rd.range[2]
    /\ LET s      == Section
           index  == ReadIndex(s.handles, s.index, 1 + Len(s.body), it.index)
           chains == ChainsOf(s, index)
       IN  /\ it' = [it EXCEPT !.pc = "changes", !.index = index, !.chains = chains, !.i = -1,
                               !.heads = AllScattered(chains, Len(s.times)),
                               !.blackout = IF NeedsFrame(s) /\ rd.use = "vcd"
                                            THEN @ + Len(DueBlackout(s.begin)) ELSE @]
           /\ out' = IF NeedsFrame(s) THEN out \o FrameText(s) \o FrameValues(s) ELSE out
    /\ UNCHANGED <<rd, rv>>

\* A change is taken off its chain, and the chain waits for its next time.
DeliverChange ==
    /\ it.pc = "changes" /\ it.i >= 0
    /\ it.heads[it.i] # <<>>
    /\ LET h    == Head(it.heads[it.i])
           len  == rd.lens[h]
           rest == AfterEntry(len, it.chains[h])
           taken == [it.heads EXCEPT ![it.i] = Tail(@)]
       IN  /\ out' = Append(out, Change(TimeTable(Section)[it.i + 1], h,
                                        EntryValue(len, it.chains[h])))
           /\ it' = [it EXCEPT !.chains[h] = rest,
                               !.heads = Scattered(taken, it.i, h, rest)]
    /\ UNCHANGED <<rd, rv>>

AllDelivered == it.pc = "changes" /\ (it.i >= 0 => it.heads[it.i] = <<>>)
NewTime == it.i + 1 < Len(Section.times)
Upcoming == TimeTable(Section)[it.i + 2]
\* Faulty variant: one time too many.
BeyondLate == rd.use = "vcd" /\ Upcoming # it.previous /\ Limited /\ Upcoming > rd.range[2] + 1

\* Only VCD text stops at the end of the range.
Beyond == rd.use = "vcd" /\ Upcoming # it.previous /\ Limited /\ Upcoming > rd.range[2]

NextTimeIndex ==
    /\ AllDelivered /\ NewTime /\ ~Beyond
    /\ IF rd.use = "vcd" /\ Upcoming # it.previous
       THEN /\ out' = out \o <<Mark(Upcoming)>> \o DueBlackout(Upcoming)
            /\ it' = [it EXCEPT !.i = @ + 1, !.previous = Upcoming,
                                !.blackout = @ + Len(DueBlackout(Upcoming))]
       ELSE it' = [it EXCEPT !.i = @ + 1] /\ out' = out
    /\ UNCHANGED <<rd, rv>>

EndOfBlock ==
    /\ AllDelivered /\ (NewTime => Beyond)
    /\ it' = [it EXCEPT !.pc = IF it.secnum + 1 = rd.count THEN "done" ELSE "block",
                        !.secnum = @ + 1, !.k = @ + 1, !.chains = <<>>, !.heads = <<>>]
    /\ UNCHANGED <<rd, rv, out>>

------------------------------------------------------------------------------
(* fstReaderGetValueFromHandleAtTime *)

Null == <<-1>>
Answer(h, t, v) == [kind |-> "answer", handle |-> h, time |-> t, value |-> v]

Covers(s, t) == s.tag = "vcdata" /\ s.begin <= t /\ t <= s.end

Covering(t) == {k \in DOMAIN file.sections : Covers(file.sections[k], t)}

Cached(t) == rv.block # 0 /\ Covers(file.sections[rv.block], t)

\* The block that is used: the one in the cache or the first that covers t.
BlockFor(t) == IF Cached(t) THEN rv.block ELSE Min(Covering(t))

FrameValue(s, h) == IF h > Len(s.frame) THEN Null ELSE s.frame[h]

\* The entries of a chain: [delta, value].
EntriesOf(len, chain) ==
    LET from[i \in 0..Len(chain)] ==
            LET rest == SubSeq(chain, i + 1, Len(chain))
            IN  IF rest = <<>> THEN <<>>
                ELSE <<[delta |-> Delta(len, rest), value |-> EntryValue(len, rest)]>>
                     \o from[i + EntrySize(len, rest)]
    IN  from[0]

\* From an entry on, of which the time index before it is known, the entries
\* that are not later than t.
Passed(entries, times, at, before, t) ==
    {q \in at..Len(entries) :
        times[1 + before + MapThenSumSet(LAMBDA r : entries[r].delta, at..q)] <= t}

IndexBefore(entries, at, before, q) ==
    before + MapThenSumSet(LAMBDA r : entries[r].delta, at..(q - 1))
\* Faulty variant: the position is taken to the next chain.
WithChainResumed(c, h) == [c EXCEPT !.handle = h]

\* The chain of another handle takes the remembered position with it.
WithChain(c, h) == IF c.handle = h THEN c ELSE [c EXCEPT !.handle = h, !.valid = FALSE]

FromStart(c, s) == [c EXCEPT !.at = 1, !.before = 0, !.time = s.begin]

\* The answer, and what is remembered.  A search that finds no entry
\* moves the time back and leaves the position.
InChain(c, s, h, t, entries) ==
    LET resumed == c.valid /\ t >= c.time
        p       == IF resumed THEN c ELSE FromStart(c, s)
        passed  == Passed(entries, TimeTable(s), p.at, p.before, t)
    IN  IF passed = {}
        THEN [answer |-> FrameValue(s, h), cache |-> [c EXCEPT !.time = p.time]]
        ELSE [answer |-> entries[Max(passed)].value,
              cache |-> [c EXCEPT !.valid = TRUE, !.at = Max(passed), !.time = t,
                                  !.before = IndexBefore(entries, p.at, p.before, Max(passed))]]

InBlock(c, s, h, t) ==
    LET index == ReadIndex(s.handles, s.index, 1 + Len(s.body), NoIndex)
    IN  IF h > s.handles THEN [answer |-> Null, cache |-> c]
        ELSE IF index.table[h] = 0 THEN [answer |-> FrameValue(s, h), cache |-> c]
        ELSE InChain(WithChain(c, h), s, h, t, EntriesOf(rd.lens[h], ChainOf(s.body, index, h)))

\* At the end of a block that is not the end of the file, the search goes on
\* reading inside the block: what comes of it is left open.
Derails(t) ==
    ~Cached(t) /\ Covering(t) # {} /\ t = file.sections[BlockFor(t)].end /\ t # rd.end

Lookup(h, t) ==
    /\ rd.pc = "open" /\ rd.use = "lookup"
    /\ Len(out) < MaxLookups
    /\ IF rd.lens[h] = 0
       THEN out' = Append(out, Answer(h, t, Null)) /\ UNCHANGED <<rd, rv>>
       ELSE IF ~Cached(t) /\ Covering(t) = {}
       THEN out' = Append(out, Answer(h, t, Null)) /\ rv' = NoCache /\ rd' = rd
       ELSE IF Derails(t)
       THEN rd' = [pc |-> "derailed"] /\ UNCHANGED <<rv, out>>
       ELSE LET k == BlockFor(t)
                c == IF Cached(t) THEN rv ELSE [NoCache EXCEPT !.block = k]
                r == InBlock(c, file.sections[k], h, t)
            IN  out' = Append(out, Answer(h, t, r.answer)) /\ rv' = r.cache /\ rd' = rd
    /\ it' = it

ReaderNext ==
    \/ \E request \in Requests : OpenFile(request)
    \/ EndOfFile \/ SkipBlock \/ EndOfRange \/ LoadBlock
    \/ DeliverChange \/ NextTimeIndex \/ EndOfBlock
    \/ \E t \in EmitTimes : rd.pc = "open" /\ \E h \in DOMAIN rd.lens : Lookup(h, t)
=============================================================================

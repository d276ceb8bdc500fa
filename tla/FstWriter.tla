----------------------------- MODULE FstWriter -----------------------------
(***************************************************************************)
(* The writer of fst/fstapi.c: how variables, value changes and time       *)
(* changes become the blocks of an FST file, when a block is finished, and *)
(* what is in the file when the writer is closed or killed.                *)
(*                                                                         *)
(* xc is struct fstWriterContext.  mapped says that valpos_mem is there,   *)
(* vchg[h] is the chain of changes of handle h in vchg_mem, oldest first,  *)
(* and lens, lastIdx[h] and curval[h] are its slots in valpos_mem and      *)
(* curval_mem.  A section of the file is either a value change block or    *)
(* the header of one, still tagged FST_BL_SKIP.  The file also holds the   *)
(* header, the geometry and the blackouts, and hier, the variables of the  *)
(* hierarchy that have reached the disk.                                   *)
(*                                                                         *)
(* Sizes are counted in changes and blocks: the writer of the program      *)
(* finishes a block at 128 MB of changes, and its size limit is in bytes.  *)
(***************************************************************************)
EXTENDS FstBlocks

CONSTANTS Shapes,        \* the lengths the variables may have; 0 is a string
          Values,        \* Values[len]: the values that may be emitted
          EmitTimes,     \* the times that may be emitted
          BreakSize,     \* changes after which a block is finished
          SizeLimits,    \* blocks after which the dump is full; 0 is no limit
          MaxChanges,    \* value changes and blackouts
          MaxTimes,      \* times in a block
          MaxExtras      \* FlushContext, late variables, times that do not advance

ASSUME FstAssumption ==
    /\ Shapes \subseteq Seq(Nat)
    /\ \A len \in DOMAIN Values \ {0} : \A v \in Values[len] : Len(v) = len
    /\ EmitTimes \subseteq Nat
    /\ BreakSize \in Nat \ {0}
    /\ SizeLimits \subseteq Nat

VARIABLES phase,     \* "writing", "closed", or "dead" when it was killed or has crashed
          xc, file,
          initials,  \* history: the values when the first time was emitted
          emitted,   \* history: the changes since, [time, handle, value]
          past       \* history: how many of them are in finished blocks, whether
                     \* a block was to be finished that had none, the blackouts;
                     \* and the counters of the bounds

writerVars == <<phase, xc, file, initials, emitted, past>>

NoFile == [sections |-> <<>>, header |-> [start |-> 0, end |-> 0], geom |-> <<>>,
           blackouts |-> <<>>, hier |-> <<>>]

Undefined(len) == [k \in 1..len |-> XCh]

NoContext == [lens |-> <<>>, mapped |-> FALSE, curval |-> <<>>, vchg |-> <<>>,
              lastIdx |-> <<>>, tchn |-> <<>>, tchnIdx |-> 0, curtime |-> 0,
              firsttime |-> 0, initialTime |-> TRUE, vcEmitted |-> FALSE,
              flushPending |-> FALSE, headerOnly |-> FALSE, limit |-> 0,
              locked |-> FALSE, blackouts |-> <<>>]

WriterInit ==
    /\ phase = "writing"
    /\ \E limit \in SizeLimits : xc = [NoContext EXCEPT !.limit = limit]
    /\ file = NoFile
    /\ initials = <<>>
    /\ emitted = <<>>
    /\ past = [saved |-> 0, idleFlush |-> FALSE, blackouts |-> <<>>,
               changes |-> 0, extras |-> 0]

Ended == past' = [past EXCEPT !.changes = 0, !.extras = 0]

\* A writer that ends without closing the file: the file stays as it is,
\* the changes that are in no finished block are lost.
Lose ==
    /\ phase' = "dead" /\ xc' = NoContext /\ file' = file
    /\ emitted' = SubSeq(emitted, 1, past.saved) /\ Ended

Handles == DOMAIN xc.lens

\* Counts a flush that is asked for, a late variable or a repeated time.
Extra(extra) == IF extra THEN [past EXCEPT !.extras = @ + 1] ELSE past
MayBe(extra) == extra => past.extras < MaxExtras

\* How many changes vchg_mem holds.
Pending(c) == Len(FlattenSeq(c.vchg))

------------------------------------------------------------------------------
(* Variables. *)

\* A new variable is unmapped, an alias has no state of its own.
CreateVar(len) ==
    /\ phase = "writing"
    /\ \E lens \in Shapes : IsPrefix(Append(xc.lens, len), lens)
    /\ MayBe(xc.mapped)
    /\ past' = Extra(xc.mapped)
    /\ xc' = [xc EXCEPT !.mapped = FALSE,
                        !.lens = Append(@, len),
                        !.curval = Append(@, Undefined(len)),
                        !.vchg = Append(@, <<>>),
                        !.lastIdx = Append(@, 0)]
    /\ UNCHANGED <<phase, file, initials, emitted>>

\* fstWriterCreateMmaps: also saves the hierarchy and a first header.
WithMaps(c) == [c EXCEPT !.mapped = TRUE]

WithMapsSaved(f, c) ==
    [f EXCEPT !.header = [start |-> c.firsttime, end |-> c.curtime], !.hier = c.lens]

------------------------------------------------------------------------------
(* Value changes. *)
\* Faulty variant: the difference is taken the other way round.
RecordedBackwards(c, h, value) ==
    [c EXCEPT !.vchg[h] = Append(@, [delta |-> c.lastIdx[h] - c.tchnIdx, value |-> value]),
              !.lastIdx[h] = c.tchnIdx]

\* A record says how many times have passed since the last one of the handle.
Recorded(c, h, value) ==
    [c EXCEPT !.vchg[h] = Append(@, [delta |-> c.tchnIdx - c.lastIdx[h], value |-> value]),
              !.lastIdx[h] = c.tchnIdx]

\* Before the first time a value only goes into the frame; a string is
\* recorded, and forgotten when the first time comes.
Changed(c, h, value) ==
    IF c.initialTime /\ c.lens[h] # 0 THEN [c EXCEPT !.curval[h] = value]
    ELSE Recorded(c, h, value)

EmitValueChange(h, value) ==
    /\ phase = "writing"
    /\ past.changes < MaxChanges
    /\ past' = [past EXCEPT !.changes = @ + 1]
    /\ xc' = Changed([WithMaps(xc) EXCEPT !.vcEmitted = @ \/ ~xc.mapped], h, value)
    /\ file' = IF xc.mapped THEN file ELSE WithMapsSaved(file, xc)
    /\ emitted' = IF xc.initialTime THEN emitted
                  ELSE Append(emitted, [time |-> xc.curtime, handle |-> h, value |-> value])
    /\ UNCHANGED <<phase, initials>>

------------------------------------------------------------------------------
(* Blocks. *)
\* Faulty variant: the first block always begins at zero.
HeaderOfZero(c) ==
    [tag |-> "skip", begin |-> IF c.initialTime THEN 0 ELSE c.curtime, frame |-> c.curval]

\* fstWriterEmitSectionHeader
HeaderOf(c) ==
    [tag |-> "skip", begin |-> IF c.initialTime THEN c.firsttime ELSE c.curtime,
     frame |-> c.curval]

WithHeader(f, c) == [f EXCEPT !.sections = Append(@, HeaderOf(c))]

\* What fstWriterFlushContextPrivate makes of the header and the changes.
Block(header, c) ==
    LET chains == [h \in DOMAIN c.lens |-> Chain(c.lens[h], c.vchg[h])]
    IN  [tag |-> "vcdata", begin |-> header.begin, frame |-> header.frame,
         end |-> c.curtime, body |-> Body(chains), index |-> IndexOf(Pointers(chains)),
         handles |-> Len(c.lens), times |-> c.tchn]

Finished(f, c) == [f EXCEPT !.sections[Len(f.sections)] = Block(@, c)]

\* The last change of every variable is its value in the next frame.
Checkpoint(c) ==
    [h \in DOMAIN c.lens |->
        IF c.vchg[h] = <<>> \/ c.lens[h] = 0 THEN c.curval[h] ELSE Last(c.vchg[h]).value]

Emptied(c) ==
    [c EXCEPT !.curval = Checkpoint(c),
              !.vchg = [h \in DOMAIN c.lens |-> <<>>],
              !.lastIdx = [h \in DOMAIN c.lens |-> 0],
              !.tchn = <<>>, !.tchnIdx = 0, !.headerOnly = FALSE]

\* A file that has reached its limit: no next header, and the writer
\* pretends that time has not started.
Full(f, c) == c.limit # 0 /\ Len(f.sections) >= c.limit

AfterFlush(f, c) ==
    IF Full(f, c) THEN [Emptied(c) EXCEPT !.locked = TRUE, !.initialTime = TRUE]
    ELSE [Emptied(c) EXCEPT !.headerOnly = TRUE]

FileAfterFlush(f, c) ==
    IF Full(f, c) THEN Finished(f, c) ELSE WithHeader(Finished(f, c), Emptied(c))

\* fstWriterFlushContext
FlushContext ==
    /\ phase = "writing"
    /\ xc.tchnIdx > 1
    /\ ~xc.flushPending
    /\ MayBe(TRUE)
    /\ past' = Extra(TRUE)
    /\ xc' = [xc EXCEPT !.flushPending = TRUE]
    /\ UNCHANGED <<phase, file, initials, emitted>>

------------------------------------------------------------------------------
(* Times. *)

BeginTime(c, t) ==
    [c EXCEPT !.firsttime = IF c.vcEmitted THEN 0 ELSE t, !.curtime = 0,
              !.vchg = [h \in DOMAIN c.lens |-> <<>>],
              !.lastIdx = [h \in DOMAIN c.lens |-> 0],
              !.headerOnly = TRUE]

\* Times go into the time table as differences.
WithTime(c, t) ==
    [c EXCEPT !.tchn = Append(@, t - c.curtime), !.curtime = t]

FirstTime(c, t) == [WithTime(BeginTime(WithMaps(c), t), t) EXCEPT !.initialTime = FALSE]

FirstTimeFile(f, c, t) ==
    WithHeader(IF c.mapped THEN f ELSE WithMapsSaved(f, c), BeginTime(c, t))

EmitFirstTime(t) ==
    /\ phase = "writing"
    /\ xc.initialTime /\ ~xc.locked
    /\ xc.lens # <<>>
    /\ xc' = FirstTime(xc, t)
    /\ file' = FirstTimeFile(file, xc, t)
    /\ initials' = xc.curval
    /\ UNCHANGED <<phase, emitted, past>>
\* Faulty variant: the times are not counted.
NextTimeUncounted(c, t) == WithTime(c, t)

NextTime(c, t) == WithTime([c EXCEPT !.tchnIdx = @ + 1], t)
\* A new block starts with the time at which the one before ended.
RepeatTime(c) == [c EXCEPT !.tchn = Append(@, c.curtime), !.flushPending = FALSE]

MustFlush(c) == Pending(c) >= BreakSize \/ c.flushPending

\* The first access to valpos_mem of variables that were added since.
Crashes(c) == Pending(c) > 0 /\ ~c.mapped

EmitTimeChange(t) ==
    /\ phase = "writing"
    /\ ~xc.initialTime
    /\ Len(xc.tchn) < MaxTimes
    /\ t >= xc.curtime /\ MayBe(t = xc.curtime)
    /\ IF MustFlush(xc) /\ Crashes(xc) THEN Lose
       ELSE IF MustFlush(xc) /\ Pending(xc) > 0
       THEN /\ xc' = WithTime([RepeatTime(AfterFlush(file, xc)) EXCEPT !.tchnIdx = @ + 1], t)
            /\ file' = FileAfterFlush(file, xc)
            /\ past' = [Extra(t = xc.curtime) EXCEPT !.saved = Len(emitted)]
            /\ UNCHANGED <<phase, emitted>>
       ELSE IF MustFlush(xc)   \* there is nothing to flush
       THEN /\ xc' = NextTime(RepeatTime(xc), t)
            /\ past' = [Extra(t = xc.curtime) EXCEPT !.idleFlush = TRUE]
            /\ UNCHANGED <<phase, file, emitted>>
       ELSE /\ xc' = NextTime(xc, t)
            /\ past' = Extra(t = xc.curtime)
            /\ UNCHANGED <<phase, file, emitted>>
    /\ UNCHANGED initials

EmitDumpActive(active) ==
    /\ phase = "writing"
    /\ past.changes < MaxChanges
    /\ past' = [past EXCEPT !.changes = @ + 1,
                    !.blackouts = Append(@, [time |-> xc.curtime, active |-> active])]
    /\ xc' = [xc EXCEPT !.blackouts = Append(@, [time |-> xc.curtime, active |-> active])]
    /\ UNCHANGED <<phase, file, initials, emitted>>

------------------------------------------------------------------------------
(* Closing. *)
\* Faulty variant: the times are not made differences.
BlackoutsOfAbsolute(c) ==
    [k \in DOMAIN c.blackouts |->
        [active |-> c.blackouts[k].active, delta |-> c.blackouts[k].time]]

BlackoutsOf(c) ==
    [k \in DOMAIN c.blackouts |->
        [active |-> c.blackouts[k].active,
         delta |-> c.blackouts[k].time - (IF k = 1 THEN 0 ELSE c.blackouts[k - 1].time)]]

Finalized(f, c) ==
    [f EXCEPT !.header = [start |-> c.firsttime, end |-> c.curtime], !.geom = c.lens,
              !.blackouts = BlackoutsOf(c), !.hier = c.lens]

\* A block that was begun and has no changes is cut off again.
HasFlushed(f) == \E k \in DOMAIN f.sections : f.sections[k].tag = "vcdata"
\* Faulty variant: also what is no header only.
CutOffAny(f, c) == HasFlushed(f) /\ Pending(c) = 0

CutOff(f, c) == c.headerOnly /\ HasFlushed(f) /\ Pending(c) = 0 /\ ~c.initialTime

\* When time has not started, the values become changes of time zero.
Mocked(c) ==
    LET begun == FirstTime(c, 0)
    IN  [begun EXCEPT !.vchg =
            [h \in DOMAIN c.lens |->
                IF c.lens[h] = 0 THEN <<>> ELSE <<[delta |-> 0, value |-> c.curval[h]]>>]]

MockedFile(f, c) == FirstTimeFile(f, c, 0)

ClosedAs(f) == phase' = "closed" /\ xc' = NoContext /\ file' = f /\ Ended /\ UNCHANGED emitted

CloseFlushing(f, c) ==
    IF Pending(c) = 0 THEN ClosedAs(Finalized(f, c))
    ELSE IF Crashes(c) THEN Lose
    ELSE ClosedAs(Finalized(Finished(f, c), c))

Close ==
    /\ phase = "writing"
    /\ xc.lens # <<>>
    /\ IF CutOff(file, xc) THEN ClosedAs(Finalized([file EXCEPT !.sections = Front(@)], xc))
       ELSE IF xc.locked THEN ClosedAs(Finalized(file, xc))
       ELSE IF xc.initialTime THEN CloseFlushing(MockedFile(file, xc), Mocked(xc))
       ELSE CloseFlushing(file, xc)
    /\ initials' = IF xc.initialTime /\ ~xc.locked THEN xc.curval ELSE initials

\* The simulator is killed.
Die == phase = "writing" /\ Lose /\ UNCHANGED initials

WriterNext ==
    \/ \E len \in DOMAIN Values : CreateVar(len)
    \/ \E h \in Handles : \E v \in Values[xc.lens[h]] : EmitValueChange(h, v)
    \/ \E t \in EmitTimes : EmitFirstTime(t) \/ EmitTimeChange(t)
    \/ FlushContext
    \/ \E active \in BOOLEAN : EmitDumpActive(active)
    \/ Close
    \/ Die

WriterTypeOK ==
    /\ phase \in {"writing", "closed", "dead"}
    /\ \A f \in {"curval", "vchg", "lastIdx"} : DOMAIN xc[f] = Handles
    /\ \A h \in Handles : \A k \in DOMAIN xc.vchg[h] : xc.vchg[h][k].delta \in 0..xc.tchnIdx
=============================================================================

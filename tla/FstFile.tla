------------------------------ MODULE FstFile ------------------------------
(***************************************************************************)
(* A waveform from the simulator to gdbwave: one writer, the file it       *)
(* leaves behind, closed or cut off, and one reader of it.                 *)
(***************************************************************************)
EXTENDS FstReader

vars == <<writerVars, readerVars>>

Init == WriterInit /\ ReaderInit

Write == WriterNext /\ UNCHANGED readerVars
Read  == ReaderNext /\ UNCHANGED writerVars
Next  == Write \/ Read

Spec == Init /\ [][Next]_vars

TypeOK ==
    /\ WriterTypeOK
    /\ rd.pc \in {"closed", "failed", "open", "derailed"}
    /\ it.pc \in {"idle", "block", "changes", "done"}
    /\ it.pc = "changes" => \A i \in DOMAIN it.heads : IsInjective(it.heads[i])
    /\ rv.block \in 0..Len(file.sections)

------------------------------------------------------------------------------
(* What was written and what was delivered. *)

\* One bit is kept as 0, 1 or one of the letters, in lower case; longer
\* values are kept as they are.
Kept(len, v) ==
    IF len = 1 /\ ~IsBinary(v) THEN <<RcvLetters[RcvIndex(v[1]) + 1]>> ELSE v

WrittenOf(h) ==
    LET log == SelectSeq(emitted, LAMBDA c : c.handle = h)
    IN  [k \in DOMAIN log |-> [log[k] EXCEPT !.value = Kept(rd.lens[h], @)]]

\* The values before the first time are delivered when the dump begins
\* before its first time, or has no other.
NeverAdvanced == phase = "closed" /\ emitted = <<>> /\ Cardinality(Blocks(file)) = 1
ShowsInitials ==
    NeverAdvanced \/ FirstBlock(file).begin < TimeTable(FirstBlock(file))[1]

InitialOf(h) ==
    IF ShowsInitials /\ h \in DOMAIN initials /\ rd.lens[h] # 0
    THEN <<[time |-> 0, handle |-> h, value |-> initials[h]]>> ELSE <<>>

DeliveredOf(h) == SelectSeq(out, LAMBDA o : o.kind = "change" /\ o.handle = h)

Values1(log)  == [k \in DOMAIN log |-> log[k].value]
Stamped(log) == [k \in DOMAIN log |-> <<log[k].time, log[k].value>>]

\* The last value of a log up to t.
ValueBy(log, t) ==
    LET upto == SelectSeq(log, LAMBDA c : c.time <= t)
    IN  IF upto = <<>> THEN Null ELSE Last(upto).value

Wanted == IF rd.pc = "open" THEN rd.mask \cap DOMAIN rd.lens ELSE {}
Whole  == rd.pc = "open" /\ ~Limited

------------------------------------------------------------------------------
(* Properties. *)

\* Every change that is in a finished block is delivered once, in the order
\* in which it was emitted and with its value, and no other change is: the
\* blocks, the shared chains, the index and the lists of the reader lose,
\* repeat and mix up nothing, also when the writer was killed.
DeliveredInOrder ==
    Whole => \A h \in Wanted :
        LET written == Values1(InitialOf(h) \o WrittenOf(h))
            delivered == Values1(DeliveredOf(h))
        IN  /\ IsPrefix(delivered, written)
            /\ it.pc = "done" => delivered = written

\* A change is delivered with the time at which it was emitted, unless the
\* simulator has asked for a block when there was nothing to put into it.
DeliveredOnTime ==
    Whole /\ ~past.idleFlush => \A h \in Wanted :
        IsPrefix(Stamped(DeliveredOf(h)), Stamped(InitialOf(h) \o WrittenOf(h)))

\* With a time range, the reader skips blocks; when the range starts before
\* the last block ends, the last value delivered is the value of the variable
\* at every time of the range.  Strings are not in the frame of a block.
RangeComplete ==
    /\ rd.pc = "open" /\ Limited /\ it.pc = "done" /\ ~past.idleFlush
    /\ rd.range[1] <= LastBlock(file).end
    =>
        \A h \in Wanted, t \in EmitTimes \cap rd.range[1]..rd.range[2] :
            rd.lens[h] # 0 /\ ValueBy(WrittenOf(h), t) # Null =>
                ValueBy(DeliveredOf(h), t) = ValueBy(WrittenOf(h), t)

\* What is delivered of the dump; an answer has the time that was asked for.
Dated == {i \in DOMAIN out : out[i].kind # "answer"}

\* Time does not go back from one block to the next, when no flush came from
\* FlushContext with nothing to write, and in VCD text never past the end of
\* the range.
TimesAscend ==
    \A i, j \in Dated :
        /\ i < j /\ ~past.idleFlush => out[i].time <= out[j].time
        /\ rd.use = "vcd" /\ Limited => out[i].time <= rd.range[2]

\* What is delivered of a file that was closed lies between the start and
\* the end that the reader reports.
TimesInsideFile ==
    phase = "closed" /\ ~past.idleFlush =>
        \A i \in Dated : out[i].time \in rd.start..rd.end

\* The blackouts of a closed file are those that were emitted; in VCD text
\* they come in their order, and none is missing when their times differ and
\* are times of the dump, and no flush came with nothing to write.
BlackoutsComplete ==
    rd.pc = "open" =>
        LET seen  == {i \in DOMAIN out : out[i].kind = "blackout"}
            times == {out[i].time : i \in {j \in DOMAIN out : out[j].kind = "mark"}}
            due   == [k \in DOMAIN past.blackouts |-> past.blackouts[k].time]
            count(i) == Cardinality({j \in seen : j <= i})
        IN  /\ phase = "closed" => rd.blackouts = past.blackouts
            /\ \A i \in seen : /\ count(i) \in DOMAIN rd.blackouts
                               /\ out[i] = Switch(rd.blackouts[count(i)])
            /\ (/\ phase = "closed" /\ rd.use = "vcd" /\ ~Limited /\ it.pc = "done"
                /\ ~past.idleFlush
                /\ IsInjective(due) /\ ToSet(due) \subseteq times)
               => Cardinality(seen) = Len(past.blackouts)

\* Lookups that do not go back in time.
Forward == \A i, j \in DOMAIN out : i < j => out[i].time <= out[j].time

\* A time that was emitted again when a block was full is in two blocks.
Divided(t) ==
    \E k \in Blocks(file) \ {Min(Blocks(file))} :
        LET times == TimeTable(file.sections[k]) IN times[1] = t /\ times[2] = t

\* A lookup finds the value after the last change up to its time, whatever
\* block and position the lookups before it have left.
LookupsRight ==
    rd.pc = "open" /\ rd.use = "lookup" /\ Forward /\ ~past.idleFlush =>
        \A i \in {j \in DOMAIN out : ~Divided(out[j].time)} :
            LET a == out[i]
                v == ValueBy(WrittenOf(a.handle), a.time)
            IN  IF rd.lens[a.handle] = 0 \/ Covering(a.time) = {} THEN a.value = Null
                ELSE IF v # Null THEN a.value = v
                ELSE IF a.handle \in DOMAIN initials THEN a.value = initials[a.handle]
                ELSE a.value \in {Null, Undefined(rd.lens[a.handle])}

\* A file can be opened once a block with changes was finished, also when
\* the writer was killed.
Recoverable == past.saved > 0 => rd.pc # "failed"

\* A finished block stays as it is.
BlocksStay ==
    [][\A k \in DOMAIN file.sections :
          file.sections[k].tag = "vcdata" =>
              k \in DOMAIN file'.sections /\ file'.sections[k] = file.sections[k]]_file
=============================================================================

------------------------------ MODULE FstHier ------------------------------
(***************************************************************************)
(* The hierarchy of an FST file: the scopes, variables and attributes that *)
(* a simulator declares (fstWriterSetScope, fstWriterCreateVar, ...), how  *)
(* the reader iterates over them, and FstProcess::assignHandles, which     *)
(* looks for the signals gdbwave is told to trace.                         *)
(*                                                                         *)
(* A name is a sequence of letters.  The value of a variable is found by   *)
(* its handle, which the file does not hold: the writer counts the         *)
(* variables that are no aliases, and every reader counts them again.      *)
(***************************************************************************)
EXTENDS Integers, SequencesExt

CONSTANTS
    ScopeNames,   \* names of scopes
    Variables,    \* what a simulator declares: [type, len, name]
    FileNames,    \* source files of a design
    Lists,        \* the full names that the traces look for, one list each
    MaxRecords    \* bound: records of the hierarchy

ASSUME NamesAssumption == ScopeNames \subseteq Seq(STRING) \ {<<>>}
ASSUME VariablesAssumption == \A v \in Variables : v.len \in Nat /\ v.name \in Seq(STRING)
ASSUME ListsAssumption == Lists \in Seq(SUBSET Seq(STRING))
ASSUME MaxRecordsAssumption == MaxRecords \in Nat

VARIABLES
    hier,      \* the records of the hierarchy, in the order of the file
    geom,      \* the geometry: one code for each handle
    files,     \* path_array: the source files that have an index
    enums,     \* max_enumhandle
    told,      \* what the simulator knows of each record
    open,      \* the names of the scopes it has not left
    scopes,    \* the reader's stack of flat scope names
    handle,    \* the reader's current_handle
    results    \* what each call of assignHandles found and returned

writerVars == <<hier, geom, files, enums, told, open>>
readerVars == <<scopes, handle, results>>
hierVars   == <<writerVars, readerVars>>

Dot == "."

\* The full name of a scope within others: their names, with dots between.
Flat(names) ==
    LET upto[k \in 0..Len(names)] ==
            IF k = 0 THEN <<>> ELSE IF k = 1 THEN names[1] ELSE upto[k - 1] \o <<Dot>> \o names[k]
    IN  upto[Len(names)]

MaxHandle == Len(geom)

HierInit ==
    /\ hier = <<>> /\ geom = <<>> /\ files = <<>> /\ enums = 0
    /\ told = <<>> /\ open = <<>>
    /\ scopes = <<>> /\ handle = 0 /\ results = <<>>

------------------------------------------------------------------------------
(* The writer. *)

\* The file is written before it is read (FstWriter has the closing).
Write(records, knowledge) ==
    /\ results = <<>>
    /\ Len(hier) + Len(records) <= MaxRecords
    /\ hier' = hier \o records
    /\ told' = told \o knowledge
    /\ UNCHANGED readerVars

SetScope(name) ==
    /\ Write(<<[tag |-> "scope", name |-> name]>>, <<name>>)
    /\ open' = Append(open, name)
    /\ UNCHANGED <<geom, files, enums>>

\* A simulator leaves only scopes it has entered.
SetUpscope ==
    /\ open # <<>>
    /\ Write(<<[tag |-> "upscope"]>>, <<Last(open)>>)
    /\ open' = Front(open)
    /\ UNCHANGED <<geom, files, enums>>

Attr(subtype, name, arg) ==
    [tag |-> "attr", subtype |-> subtype, name |-> name, arg |-> arg]

Spaced(text) == [k \in DOMAIN text |-> IF text[k] \in {"\n", "\r"} THEN " " ELSE text[k]]

SetComment(text) ==
    /\ Write(<<Attr("comment", Spaced(text), 0)>>, <<text>>)
    /\ UNCHANGED <<geom, files, enums, open>>

SetAttrEnd ==
    /\ Write(<<[tag |-> "attrend"]>>, <<"end">>)
    /\ UNCHANGED <<geom, files, enums, open>>

IsReal(type) == type = "real"
LenOf(v) == IF IsReal(v.type) THEN 8 ELSE IF v.type = "string" THEN 0 ELSE v.len

AllOnes == -1    \* 0xFFFFFFFF, the code of a variable without a length
\* Faulty variant: the length of a real is written as it is.
GeomCodeOfLength(type, len) == IF len = 0 THEN AllOnes ELSE len

GeomCode(type, len) == IF len = 0 THEN AllOnes ELSE IF IsReal(type) THEN 0 ELSE len

AliasOf(alias) == IF alias > MaxHandle THEN 0 ELSE alias

\* The record of a variable and what fstWriterCreateVar returns for it.
VarRecord(v, alias) ==
    [tag |-> "var", type |-> v.type, name |-> v.name, len |-> LenOf(v), alias |-> AliasOf(alias)]
ReturnedHandle(alias) == IF AliasOf(alias) = 0 THEN MaxHandle + 1 ELSE AliasOf(alias)

Declared(v, alias) ==
    [path |-> Flat(Append(open, v.name)), handle |-> ReturnedHandle(alias)]

Geometry(v, alias) ==
    geom' = IF AliasOf(alias) = 0 THEN Append(geom, GeomCode(v.type, LenOf(v))) ELSE geom

CreateVar(v, alias) ==
    /\ Write(<<VarRecord(v, alias)>>, <<Declared(v, alias)>>)
    /\ Geometry(v, alias)
    /\ UNCHANGED <<files, enums, open>>

\* fstWriterCreateVar2: the type of another language goes in front.
CreateVar2(v, alias) ==
    /\ Write(<<Attr("supvar", <<"t">>, 0), VarRecord(v, alias)>>,
             <<v.name, Declared(v, alias)>>)
    /\ Geometry(v, alias)
    /\ UNCHANGED <<files, enums, open>>

\* Faulty variant: every use of a file gives it another index.
IndexOfFileAnew(file) == Len(files) + 1

IndexOfFile(file) == IF file \in ToSet(files)
                     THEN CHOOSE k \in DOMAIN files : files[k] = file
                     ELSE Len(files) + 1

\* The first use of a file gives it an index.
SetSourceStem(file, line) ==
    LET stem == Attr("stem", IndexOfFile(file), line)
    IN  /\ IF file \in ToSet(files)
           THEN Write(<<stem>>, <<file>>) /\ files' = files
           ELSE /\ Write(<<Attr("pathname", Spaced(file), Len(files) + 1), stem>>, <<file, file>>)
                /\ files' = Append(files, file)
        /\ UNCHANGED <<geom, enums, open>>

\* The text of the table is not kept: the knowledge is which table it is.
CreateEnumTable ==
    /\ Write(<<Attr("enumtable", <<"t">>, enums + 1)>>, <<enums + 1>>)
    /\ enums' = enums + 1
    /\ UNCHANGED <<geom, files, open>>

EmitEnumTableRef(table) ==
    /\ Write(<<Attr("enumtable", <<>>, table)>>, <<table>>)
    /\ UNCHANGED <<geom, files, enums, open>>

------------------------------------------------------------------------------
(* The reader: lengths of the handles. *)

\* fstReaderInit takes them from the geometry.
LenOfCode(code) ==
    IF code = 0 THEN [len |-> 8, real |-> TRUE]
    ELSE [len |-> IF code = AllOnes THEN 0 ELSE code, real |-> FALSE]
LensOfGeom == [h \in DOMAIN geom |-> LenOfCode(geom[h])]

\* fstReaderProcessHier, for a file without one, counts the variables.  The
\* alias of a real marks the handle that comes next.
ProcessVar(s, r) ==
    IF r.tag # "var" THEN s
    ELSE [lens |-> IF r.alias = 0 THEN Append(s.lens, r.len) ELSE s.lens,
          reals |-> LET next == Len(s.lens) + 1
                    IN  IF IsReal(r.type) THEN s.reals \cup {next}
                        ELSE IF r.alias = 0 THEN s.reals \ {next} ELSE s.reals]

LensOfHier ==
    LET upto[k \in 0..Len(hier)] ==
            IF k = 0 THEN [lens |-> <<>>, reals |-> {}] ELSE ProcessVar(upto[k - 1], hier[k])
        s == upto[Len(hier)]
    IN  [h \in DOMAIN s.lens |-> [len |-> s.lens[h], real |-> h \in s.reals]]

------------------------------------------------------------------------------
(* The reader: iterating. *)

\* Faulty variant: the count of the pass before goes on.
RewoundNot == handle

\* fstReaderIterateHier after fstReaderIterateHierRewind.
RewoundHandle == 0

\* A variable that is no alias has the count of those up to it as its handle.
Counted(k) == {j \in 1..k : hier[j].tag = "var" /\ hier[j].alias = 0}
CurrentHandle(k) == RewoundHandle + Cardinality(Counted(k))

IterateItem(k) ==
    LET r == hier[k]
    IN  IF r.tag # "var" THEN r
        ELSE [tag |-> "var", name |-> r.name,
              handle |-> IF r.alias = 0 THEN CurrentHandle(k) ELSE r.alias]

Pass == [handle |-> CurrentHandle(Len(hier)), items |-> [k \in DOMAIN hier |-> IterateItem(k)]]

PushScope(stack, name) ==
    Append(stack, IF stack # <<>> /\ Last(stack) # <<>> THEN Last(stack) \o <<Dot>> \o name
                  ELSE name)
FlatScope(stack) == IF stack = <<>> THEN <<>> ELSE Last(stack)

\* FstSignal: the last dot of a full name divides it; without a dot both
\* parts are the whole name.
LastDot(path) == {k \in DOMAIN path : path[k] = Dot /\ \A j \in DOMAIN path : j > k => path[j] # Dot}
ScopeName(path) == IF LastDot(path) = {} THEN path
                   ELSE SubSeq(path, 1, (CHOOSE k \in LastDot(path) : TRUE) - 1)
LocalName(path) == IF LastDot(path) = {} THEN path
                   ELSE SubSeq(path, (CHOOSE k \in LastDot(path) : TRUE) + 1, Len(path))

\* Faulty variant: the last variable of a name gets the signal.
MatchesAgain(s, path, item) == ScopeName(path) = s.flat /\ LocalName(path) = item.name

Matches(s, path, item) ==
    /\ s.found[path] = 0
    /\ ScopeName(path) = s.flat /\ LocalName(path) = item.name

\* Faulty variant: one signal with a handle is enough.
AllMissing(s) == \A path \in DOMAIN s.found : s.found[path] = 0

\* Whether a signal has no handle yet when a variable is visited.
AnyMissing(s) == \E path \in DOMAIN s.found : s.found[path] = 0

VisitVar(s, item) ==
    [s EXCEPT !.missing = AnyMissing(s),
              !.found = [path \in DOMAIN @ |-> IF Matches(s, path, item) THEN item.handle ELSE @[path]]]

Visit(s, item) ==
    IF item.tag = "scope"
    THEN LET stack == PushScope(s.stack, item.name)
         IN  [s EXCEPT !.stack = stack, !.flat = Last(stack)]
    ELSE IF item.tag = "upscope"
    THEN LET stack == Front(s.stack)
         IN  [s EXCEPT !.stack = stack, !.flat = FlatScope(stack)]
    ELSE IF item.tag = "var" THEN VisitVar(s, item)
    ELSE s

\* What assignHandles knows after each record: curScopeName starts empty, the
\* stack of scopes is what the call before left.
Visited(stack, garbage, paths) ==
    LET upto[k \in 0..Len(hier)] ==
            IF k = 0 THEN [stack |-> stack, flat |-> <<>>, missing |-> garbage,
                           found |-> [path \in paths |-> 0]]
            ELSE Visit(upto[k - 1], Pass.items[k])
    IN  upto

\* FstProcess::assignHandles.  Without a variable sigNotFound is read before
\* it is written.  A trace whose signals are missing ends the program.
AssignHandles ==
    LET n == Len(results) + 1
    IN  /\ n \in DOMAIN Lists
        /\ n > 1 => results[n - 1].returned
        /\ \E garbage \in BOOLEAN :
              LET s == Visited(scopes, garbage, Lists[n])[Len(hier)]
              IN  /\ results' = Append(results, [found |-> s.found, returned |-> ~s.missing])
                  /\ scopes' = s.stack
        /\ handle' = Pass.handle
        /\ UNCHANGED writerVars

------------------------------------------------------------------------------

Declare ==
    \/ \E name \in ScopeNames : SetScope(name)
    \/ SetUpscope
    \/ \E v \in Variables, alias \in 0..(MaxHandle + 1) : CreateVar(v, alias) \/ CreateVar2(v, alias)
    \/ \E file \in FileNames : SetSourceStem(file, 1)
    \/ CreateEnumTable
    \/ \E table \in 1..enums : EmitEnumTableRef(table)
    \/ SetComment(<<"\n">>)
    \/ SetAttrEnd

HierNext == Declare \/ AssignHandles

HierSpec == HierInit /\ [][HierNext]_hierVars

------------------------------------------------------------------------------
(* Properties. *)

\* The lengths and the real numbers a reader of a finished file takes from
\* the geometry are those that it finds in the hierarchy of an unfinished
\* one, whatever aliases were declared (fst/fstapi.c:2661, 4484).
GeometryAgrees == LensOfGeom = LensOfHier

\* A reader that counts the variables of the hierarchy gives each the handle
\* that the simulator was given when it declared it (fst/fstapi.c:4235).
HandlesAgree ==
    \A k \in DOMAIN hier :
        hier[k].tag = "var" => Pass.items[k].handle = told[k].handle

\* What an attribute points to is what was meant: the index of a source file
\* is that of one path in front of it, with the text of that file, and the
\* reference of an enumeration that of a table in front (fst/fstapi.c:2401).
ReferencesResolve ==
    \A k \in DOMAIN hier :
        LET r == hier[k]
        IN  /\ r.tag = "attr" /\ r.subtype = "stem" =>
                  LET paths == {j \in 1..(k - 1) : /\ hier[j].tag = "attr"
                                                   /\ hier[j].subtype = "pathname"
                                                   /\ hier[j].arg = r.name}
                  IN  \E j \in paths : paths = {j} /\ hier[j].name = Spaced(told[k])
            /\ r.tag = "attr" /\ r.subtype = "enumtable" =>
                  \E j \in 1..k : /\ hier[j].tag = "attr" /\ hier[j].subtype = "enumtable"
                                  /\ hier[j].name # <<>> /\ hier[j].arg = told[k]

\* The variables declared under a full name.
DeclaredAs(path) == {k \in DOMAIN hier : hier[k].tag = "var" /\ told[k].path = path}
\* The handle of the first of them.
HandleOf(path) ==
    IF DeclaredAs(path) = {} THEN 0
    ELSE told[CHOOSE k \in DeclaredAs(path) : \A j \in DeclaredAs(path) : k <= j].handle

\* The path names a scope, and no variable declared under it has a dot in its
\* own name.
Findable(path) ==
    /\ \E k \in LastDot(path) : k > 1
    /\ \A k \in DeclaredAs(path) : Dot \notin ToSet(hier[k].name)

\* assignHandles gives a signal the handle of the first variable declared
\* under its full name, and none to a signal that was not declared
\* (FstProcess.cc:97), in the first call and, when the simulator left every
\* scope, in the later ones.
FoundRight ==
    \A n \in DOMAIN results :
        n = 1 \/ open = <<>> =>
            \A path \in Lists[n] : Findable(path) => results[n].found[path] = HandleOf(path)

AllFound(n) == \A path \in Lists[n] : results[n].found[path] # 0

\* gdbwave does not go on without a signal: when assignHandles returns true
\* over at least one variable, every signal has a handle (FstProcess.cc:120).
TrueMeansFound ==
    (\E k \in DOMAIN hier : hier[k].tag = "var") =>
        \A n \in DOMAIN results : results[n].returned => AllFound(n)

\* "Return true if all signals are found." (FstProcess.cc:75)
FoundMeansTrue == \A n \in DOMAIN results : AllFound(n) => results[n].returned
=============================================================================

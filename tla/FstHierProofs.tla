--------------------------- MODULE FstHierProofs ---------------------------
(***************************************************************************)
(* What a reader of a hierarchy may rely on, for hierarchies of any        *)
(* length.                                                                 *)
(*                                                                         *)
(* A handle is not in the file: it is the number of variables that are no  *)
(* aliases up to the one that is asked for.  The invariant ties that       *)
(* number to the length of the geometry, from which the writer takes the   *)
(* handle it returns.  A source index is not checked by anyone either:     *)
(* the invariant says that each has exactly one path, and that no path     *)
(* has an index which was not given out.  What was written is never        *)
(* changed, so every step is looked at for the records it adds.            *)
(*                                                                         *)
(* The second half is about what is computed record by record.  A scan of  *)
(* n + 1 records goes on from one of n, so what the writer keeps is that   *)
(* some scan of what it wrote ends with the lengths of its geometry        *)
(* (ScanFits), and that some stacks of scopes lead to the scopes which the *)
(* simulator has open (ScopesRight).  A call of assignHandles follows      *)
(* these stacks when it starts outside all scopes (CallRight).             *)
(***************************************************************************)
EXTENDS FstHier, FiniteSetTheorems, TLAPS

\* Induction over sets of numbers.
Facts == INSTANCE TraceLemmas

------------------------------------------------------------------------------
(* The invariant. *)

\* hier and told are sequences of the same length; no more is needed of them.
HierTypes ==
    /\ hier \in Seq(ToSet(hier)) /\ told \in Seq(ToSet(told)) /\ Len(told) = Len(hier)
    /\ geom \in Seq(ToSet(geom)) /\ files \in Seq(ToSet(files)) /\ enums \in Nat

\* What a record is.
IsNew(r)       == r.tag = "var" /\ r.alias = 0
IsStem(r)      == r.tag = "attr" /\ r.subtype = "stem"
IsPathname(r)  == r.tag = "attr" /\ r.subtype = "pathname"
IsEnumtable(r) == r.tag = "attr" /\ r.subtype = "enumtable"

\* What the simulator was told.
HandleTold(k) == IF hier[k].alias = 0 THEN Cardinality(Counted(k)) ELSE hier[k].alias

\* The geometry has a code for every variable that is no alias, and the
\* simulator was told the count.
HandlesCounted ==
    /\ Len(geom) = Cardinality(Counted(Len(hier)))
    /\ \A k \in DOMAIN hier : hier[k].tag = "var" => told[k].handle = HandleTold(k)

\* The paths with index i among the first n records.
PathsTo(n, i) == {j \in 1..n : IsPathname(hier[j]) /\ hier[j].arg = i}

\* Every index belongs to one path, which has the text of its file.
FilesIndexed ==
    /\ \A i \in DOMAIN files :
          \E j \in DOMAIN hier : PathsTo(Len(hier), i) = {j} /\ hier[j].name = Spaced(files[i])
    /\ \A j \in DOMAIN hier : IsPathname(hier[j]) => hier[j].arg \in DOMAIN files

\* A source index has one path in front of it, that of the file meant.
StemRight(k) ==
    IsStem(hier[k]) =>
        \E j \in PathsTo(k - 1, hier[k].name) :
            PathsTo(k - 1, hier[k].name) = {j} /\ hier[j].name = Spaced(told[k])

\* Record j is table e.
IsTable(j, e) == IsEnumtable(hier[j]) /\ hier[j].name # <<>> /\ hier[j].arg = e

\* The table meant is in front of a reference, or the record itself.
TableRight(k) == IsEnumtable(hier[k]) => \E j \in 1..k : IsTable(j, told[k])

\* Every number given out is that of a table.
TablesNumbered == \A e \in 1..enums : \E j \in DOMAIN hier : IsTable(j, e)

\* All records mean what was meant.
Resolved == \A k \in DOMAIN hier : StemRight(k) /\ TableRight(k)

\* The inductive invariant.
HierInv == HierTypes /\ HandlesCounted /\ FilesIndexed /\ TablesNumbered /\ Resolved

------------------------------------------------------------------------------
(* Sequences. *)

\* A sequence is one of its own elements.
LEMMA SelfTyped ==
  ASSUME NEW S, NEW s \in Seq(S)
  PROVE  s \in Seq(ToSet(s))
<1>1. s \in [1..Len(s) -> ToSet(s)] /\ Len(s) \in Nat
  BY DEF ToSet
<1> QED
  BY <1>1

\* A sequence with one more element.
LEMMA OneMore ==
  ASSUME NEW S, NEW s \in Seq(S), NEW E, NEW e \in E
  PROVE  /\ s \o <<e>> \in Seq(ToSet(s \o <<e>>)) /\ Len(s) \in Nat
         /\ Len(s \o <<e>>) = Len(s) + 1
         /\ DOMAIN s = 1..Len(s) /\ DOMAIN (s \o <<e>>) = 1..(Len(s) + 1)
         /\ \A k \in 1..Len(s) : (s \o <<e>>)[k] = s[k]
         /\ (s \o <<e>>)[Len(s) + 1] = e
<1>1. s \in Seq(S \cup {e}) /\ <<e>> \in Seq(S \cup {e})
  OBVIOUS
<1>2. s \o <<e>> \in Seq(S \cup {e})
  BY <1>1
<1>3. s \o <<e>> \in Seq(ToSet(s \o <<e>>))
  BY <1>2, SelfTyped
<1> QED
  BY <1>1, <1>3

\* A sequence with two more elements.
LEMMA TwoMore ==
  ASSUME NEW S, NEW s \in Seq(S), NEW D, NEW d \in D, NEW E, NEW e \in E
  PROVE  /\ s \o <<d, e>> \in Seq(ToSet(s \o <<d, e>>)) /\ Len(s) \in Nat
         /\ Len(s \o <<d, e>>) = Len(s) + 2
         /\ DOMAIN s = 1..Len(s) /\ DOMAIN (s \o <<d, e>>) = 1..(Len(s) + 2)
         /\ \A k \in 1..Len(s) : (s \o <<d, e>>)[k] = s[k]
         /\ (s \o <<d, e>>)[Len(s) + 1] = d /\ (s \o <<d, e>>)[Len(s) + 2] = e
<1>1. s \in Seq(S \cup {d, e}) /\ <<d, e>> \in Seq(S \cup {d, e})
  OBVIOUS
<1>2. s \o <<d, e>> \in Seq(S \cup {d, e})
  BY <1>1
<1>3. s \o <<d, e>> \in Seq(ToSet(s \o <<d, e>>))
  BY <1>2, SelfTyped
<1> QED
  BY <1>1, <1>3

\* The same, as Append has it.
LEMMA AppendIs ==
  ASSUME NEW S, NEW s \in Seq(S), NEW e
  PROVE  /\ Append(s, e) \in Seq(ToSet(Append(s, e)))
         /\ Len(s) \in Nat /\ Len(Append(s, e)) = Len(s) + 1
         /\ DOMAIN s = 1..Len(s) /\ DOMAIN Append(s, e) = 1..(Len(s) + 1)
         /\ \A k \in DOMAIN s : Append(s, e)[k] = s[k]
         /\ Append(s, e)[Len(s) + 1] = e
<1>1. s \in Seq(S \cup {e}) /\ e \in S \cup {e}
  OBVIOUS
<1>2. Append(s, e) \in Seq(S \cup {e})
  BY <1>1
<1>3. Append(s, e) \in Seq(ToSet(Append(s, e)))
  BY <1>2, SelfTyped
<1> QED
  BY <1>1, <1>2, <1>3

------------------------------------------------------------------------------
(* What a step of the writer leaves as it is. *)

\* What Write does with one record.
LEMMA WrittenOne ==
  ASSUME HierTypes, NEW r, NEW t, Write(<<r>>, <<t>>), NEW n, n = Len(hier)
  PROVE  /\ n \in Nat /\ DOMAIN hier = 1..n /\ DOMAIN hier' = 1..(n + 1)
         /\ hier' \in Seq(ToSet(hier')) /\ told' \in Seq(ToSet(told'))
         /\ Len(hier') = n + 1 /\ Len(told') = n + 1
         /\ \A k \in 1..n : hier'[k] = hier[k] /\ told'[k] = told[k]
         /\ hier'[n + 1] = r /\ told'[n + 1] = t
<1>1. /\ hier' = hier \o <<r>> /\ told' = told \o <<t>>
      /\ hier \in Seq(ToSet(hier)) /\ told \in Seq(ToSet(told)) /\ Len(told) = n
  BY DEF Write, HierTypes
<1>2. /\ hier' \in Seq(ToSet(hier')) /\ n \in Nat /\ Len(hier') = n + 1
      /\ DOMAIN hier = 1..n /\ DOMAIN hier' = 1..(n + 1)
      /\ \A k \in 1..n : hier'[k] = hier[k]
      /\ hier'[n + 1] = r
  <2>1. /\ Len(hier) \in Nat /\ Len(hier') = Len(hier) + 1
        /\ DOMAIN hier = 1..Len(hier) /\ DOMAIN hier' = 1..(Len(hier) + 1)
        /\ \A k \in 1..Len(hier) : hier'[k] = hier[k]
    BY <1>1, OneMore
  <2>2. hier' \in Seq(ToSet(hier')) /\ hier'[Len(hier) + 1] = r
    BY <1>1, OneMore
  <2> QED
    BY <1>1, <2>1, <2>2
<1>3. /\ told' \in Seq(ToSet(told')) /\ Len(told') = n + 1
      /\ \A k \in 1..n : told'[k] = told[k]
      /\ told'[n + 1] = t
  <2>1. /\ Len(told) \in Nat /\ Len(told') = Len(told) + 1
        /\ DOMAIN told = 1..Len(told) /\ DOMAIN told' = 1..(Len(told) + 1)
        /\ \A k \in 1..Len(told) : told'[k] = told[k]
    BY <1>1, OneMore
  <2>2. told' \in Seq(ToSet(told')) /\ told'[Len(told) + 1] = t
    BY <1>1, OneMore
  <2> QED
    BY <1>1, <2>1, <2>2
<1> QED
  BY <1>2, <1>3

\* What Write does with two.
LEMMA WrittenTwo ==
  ASSUME HierTypes, NEW q, NEW r, NEW u, NEW t, Write(<<q, r>>, <<u, t>>),
         NEW n, n = Len(hier)
  PROVE  /\ n \in Nat /\ DOMAIN hier = 1..n /\ DOMAIN hier' = 1..(n + 2)
         /\ hier' \in Seq(ToSet(hier')) /\ told' \in Seq(ToSet(told'))
         /\ Len(hier') = n + 2 /\ Len(told') = n + 2
         /\ \A k \in 1..n : hier'[k] = hier[k] /\ told'[k] = told[k]
         /\ hier'[n + 1] = q /\ told'[n + 1] = u
         /\ hier'[n + 2] = r /\ told'[n + 2] = t
<1>1. /\ hier' = hier \o <<q, r>> /\ told' = told \o <<u, t>>
      /\ hier \in Seq(ToSet(hier)) /\ told \in Seq(ToSet(told)) /\ Len(told) = n
  BY DEF Write, HierTypes
<1>2. /\ hier' \in Seq(ToSet(hier')) /\ n \in Nat /\ Len(hier') = n + 2
      /\ DOMAIN hier = 1..n /\ DOMAIN hier' = 1..(n + 2)
      /\ \A k \in 1..n : hier'[k] = hier[k]
      /\ hier'[n + 1] = q /\ hier'[n + 2] = r
  <2>1. /\ Len(hier) \in Nat /\ Len(hier') = Len(hier) + 2
        /\ DOMAIN hier = 1..Len(hier) /\ DOMAIN hier' = 1..(Len(hier) + 2)
        /\ \A k \in 1..Len(hier) : hier'[k] = hier[k]
    BY <1>1, TwoMore
  <2>2. hier' \in Seq(ToSet(hier'))
    BY <1>1, TwoMore
  <2>3. hier'[Len(hier) + 1] = q
    BY <1>1, TwoMore
  <2>4. hier'[Len(hier) + 2] = r
    BY <1>1, TwoMore
  <2> QED
    BY <1>1, <2>1, <2>2, <2>3, <2>4
<1>3. /\ told' \in Seq(ToSet(told')) /\ Len(told') = n + 2
      /\ \A k \in 1..n : told'[k] = told[k]
      /\ told'[n + 1] = u /\ told'[n + 2] = t
  <2>1. /\ Len(told) \in Nat /\ Len(told') = Len(told) + 2
        /\ DOMAIN told = 1..Len(told) /\ DOMAIN told' = 1..(Len(told) + 2)
        /\ \A k \in 1..Len(told) : told'[k] = told[k]
    BY <1>1, TwoMore
  <2>2. told' \in Seq(ToSet(told'))
    BY <1>1, TwoMore
  <2>3. told'[Len(told) + 1] = u
    BY <1>1, TwoMore
  <2>4. told'[Len(told) + 2] = t
    BY <1>1, TwoMore
  <2> QED
    BY <1>1, <2>1, <2>2, <2>3, <2>4
<1> QED
  BY <1>2, <1>3

\* An extension: the old records are there, and n is how many they were.
Extends(n) ==
    /\ n \in Nat /\ DOMAIN hier = 1..n /\ Len(hier) = n
    /\ Len(hier') \in Nat /\ Len(hier') >= n /\ DOMAIN hier' = 1..Len(hier')
    /\ \A k \in 1..n : hier'[k] = hier[k] /\ told'[k] = told[k]

\* Counting up to an old record gives what it gave.
LEMMA OldCounted ==
  ASSUME NEW n, Extends(n), NEW k \in 0..n
  PROVE  Counted(k)' = Counted(k)
<1>1. \A j \in 1..k : hier'[j] = hier[j]
  BY DEF Extends
<1> QED
  BY <1>1 DEF Counted

\* So does looking for paths up to one.
LEMMA OldPaths ==
  ASSUME NEW n, Extends(n), NEW k \in 0..n, NEW i
  PROVE  PathsTo(k, i)' = PathsTo(k, i)
<1>1. \A j \in 1..k : hier'[j] = hier[j]
  BY DEF Extends
<1> QED
  BY <1>1 DEF PathsTo

\* What is counted can be counted.
LEMMA CountedFinite ==
  ASSUME NEW n \in Nat
  PROVE  IsFiniteSet(Counted(n)) /\ Cardinality(Counted(n)) \in Nat
<1>1. IsFiniteSet(1..n)
  BY FS_Interval
<1>2. Counted(n) \in SUBSET (1..n)
  BY DEF Counted
<1> QED
  BY <1>1, <1>2, FS_Subset, FS_CardinalityType

\* What is right of the old records stays right.
LEMMA OldResolved ==
  ASSUME NEW n, Extends(n), Resolved, NEW k \in 1..n
  PROVE  StemRight(k)' /\ TableRight(k)'
<1>1. /\ hier'[k] = hier[k] /\ told'[k] = told[k]
      /\ \A j \in 1..k : hier'[j] = hier[j]
      /\ \A i : PathsTo(k - 1, i)' = PathsTo(k - 1, i)
      /\ StemRight(k) /\ TableRight(k)
  BY OldPaths DEF Extends, Resolved
<1>2. StemRight(k)'
  <2>1. \A i : \A j \in PathsTo(k - 1, i) : hier'[j] = hier[j]
    BY <1>1 DEF Extends, PathsTo
  <2> QED
    BY <1>1, <2>1 DEF StemRight
<1>3. TableRight(k)'
  BY <1>1 DEF TableRight, IsTable
<1> QED
  BY <1>2, <1>3

\* A step that gives no number to a table.
LEMMA TablesStay ==
  ASSUME NEW n, Extends(n), TablesNumbered, enums' = enums
  PROVE  TablesNumbered'
<1>1. \A k \in DOMAIN hier : k \in DOMAIN hier' /\ hier'[k] = hier[k]
  BY DEF Extends
<1> QED
  BY <1>1 DEF TablesNumbered, IsTable

\* A step that writes no path.
LEMMA FilesStay ==
  ASSUME NEW n, Extends(n), FilesIndexed, files' = files,
         \A k \in (n + 1)..Len(hier') : ~IsPathname(hier'[k])
  PROVE  FilesIndexed'
<1>1. \A k \in DOMAIN hier : k \in DOMAIN hier' /\ hier'[k] = hier[k]
  BY DEF Extends
<1>2. ASSUME NEW i
      PROVE  PathsTo(Len(hier), i)' = PathsTo(Len(hier), i)
  <2>1. \A j \in 1..Len(hier') : j \in 1..n \/ j \in (n + 1)..Len(hier')
    BY DEF Extends
  <2> QED
    BY <1>1, <2>1 DEF PathsTo, Extends
<1>3. \A j \in DOMAIN hier' : IsPathname(hier'[j]) => j \in DOMAIN hier
  BY DEF Extends
<1> QED
  BY <1>1, <1>2, <1>3 DEF FilesIndexed

\* A step that declares no variable.
LEMMA HandlesStay ==
  ASSUME NEW n, Extends(n), HandlesCounted, geom' = geom,
         \A k \in (n + 1)..Len(hier') : hier'[k].tag # "var"
  PROVE  HandlesCounted'
<1>1. \A k \in DOMAIN hier : k \in DOMAIN hier' /\ hier'[k] = hier[k] /\ told'[k] = told[k]
  BY DEF Extends
<1>2. \A j \in 1..Len(hier') : j \in 1..n \/ j \in (n + 1)..Len(hier')
  BY DEF Extends
<1>3. Counted(Len(hier))' = Counted(Len(hier))
  BY <1>1, <1>2 DEF Counted, Extends
<1>4. \A k \in DOMAIN hier : HandleTold(k)' = HandleTold(k)
  BY <1>1, OldCounted DEF HandleTold, Extends
<1> QED
  BY <1>1, <1>2, <1>3, <1>4 DEF HandlesCounted, Extends
------------------------------------------------------------------------------
(* The steps. *)

\* An empty hierarchy.
LEMMA HierStarts == HierInit => HierInv
<1> SUFFICES ASSUME HierInit PROVE HierInv
  OBVIOUS
<1> USE DEF HierInit
<1>1. HierTypes
  BY DEF HierTypes
<1>2. Counted(Len(hier)) = {} /\ Len(geom) = 0 /\ DOMAIN hier = {} /\ DOMAIN files = {}
  BY DEF Counted
<1>3. HandlesCounted
  BY <1>2, FS_EmptySet DEF HandlesCounted
<1>4. FilesIndexed /\ Resolved
  BY <1>2 DEF FilesIndexed, Resolved
<1>5. TablesNumbered
  BY DEF TablesNumbered
<1> QED
  BY <1>1, <1>3, <1>4, <1>5 DEF HierInv

\* One record that is no variable and no path.
LEMMA OneStep ==
  ASSUME HierInv, NEW r, NEW t, Write(<<r>>, <<t>>), r.tag # "var", ~IsPathname(r),
         geom' = geom, files' = files, enums' \in Nat, NEW n, n = Len(hier)
  PROVE  /\ HierTypes' /\ HandlesCounted' /\ FilesIndexed'
         /\ Extends(n) /\ Len(hier') = n + 1 /\ hier'[n + 1] = r /\ told'[n + 1] = t
         /\ StemRight(n + 1)' /\ TableRight(n + 1)' => Resolved'
<1>1. /\ HierTypes /\ HandlesCounted /\ FilesIndexed /\ Resolved
  BY DEF HierInv
<1>2. /\ n \in Nat /\ DOMAIN hier = 1..n /\ DOMAIN hier' = 1..(n + 1)
      /\ \A k \in 1..n : hier'[k] = hier[k] /\ told'[k] = told[k]
  BY <1>1, WrittenOne
<1>3. /\ hier' \in Seq(ToSet(hier')) /\ told' \in Seq(ToSet(told'))
      /\ Len(hier') = n + 1 /\ Len(told') = n + 1
  BY <1>1, WrittenOne
<1>4. hier'[n + 1] = r
  BY <1>1, WrittenOne
<1>5. told'[n + 1] = t
  BY <1>1, WrittenOne
<1>6. Extends(n)
  BY <1>2, <1>3 DEF Extends
<1>7. HierTypes'
  BY <1>1, <1>3 DEF HierTypes
<1>8. \A k \in (n + 1)..Len(hier') : k = n + 1
  BY <1>2, <1>3
<1>9. HandlesCounted'
  BY <1>1, <1>4, <1>6, <1>8, HandlesStay
<1>10. FilesIndexed'
  BY <1>1, <1>4, <1>6, <1>8, FilesStay
<1>11. ASSUME StemRight(n + 1)', TableRight(n + 1)'
       PROVE  Resolved'
  <2> SUFFICES ASSUME NEW k \in 1..(n + 1)
               PROVE  StemRight(k)' /\ TableRight(k)'
    BY <1>2 DEF Resolved
  <2>1. CASE k = n + 1
    BY <1>11, <2>1
  <2>2. CASE k # n + 1
    BY <1>1, <1>2, <1>6, <2>2, OldResolved
  <2> QED
    BY <2>1, <2>2
<1> QED
  BY <1>3, <1>4, <1>5, <1>6, <1>7, <1>9, <1>10, <1>11

\* One record that means no other.
LEMMA PlainStep ==
  ASSUME HierInv, NEW record, NEW knowledge, Write(<<record>>, <<knowledge>>),
         record.tag # "var",
         ~IsStem(record), ~IsPathname(record), ~IsEnumtable(record),
         UNCHANGED <<geom, files, enums>>
  PROVE  HierInv'
<1>1. PICK n : n = Len(hier)
  OBVIOUS
<1>2. enums' \in Nat /\ enums' = enums /\ TablesNumbered
  BY DEF HierInv, HierTypes
<1>3. /\ HierTypes' /\ HandlesCounted' /\ FilesIndexed' /\ Extends(n)
      /\ hier'[n + 1] = record
      /\ StemRight(n + 1)' /\ TableRight(n + 1)' => Resolved'
  BY <1>1, <1>2, OneStep
<1>4. StemRight(n + 1)' /\ TableRight(n + 1)'
  BY <1>3 DEF StemRight, TableRight
<1>5. TablesNumbered'
  BY <1>2, <1>3, TablesStay
<1> QED
  BY <1>3, <1>4, <1>5 DEF HierInv

\* Scopes, comments and ends of attributes.
LEMMA OthersStep ==
  ASSUME HierInv,
         \/ \E name \in ScopeNames : SetScope(name)
         \/ SetUpscope
         \/ SetComment(<<"\n">>)
         \/ SetAttrEnd
  PROVE  HierInv'
<1>1. ASSUME NEW name \in ScopeNames, SetScope(name)
      PROVE  HierInv'
  <2> DEFINE r == [tag |-> "scope", name |-> name]
  <2>1. /\ r.tag # "var" /\ ~IsStem(r) /\ ~IsPathname(r) /\ ~IsEnumtable(r)
    BY DEF IsStem, IsPathname, IsEnumtable
  <2>2. Write(<<r>>, <<name>>) /\ UNCHANGED <<geom, files, enums>>
    BY <1>1 DEF SetScope
  <2> HIDE DEF r
  <2> QED
    BY <2>1, <2>2, PlainStep
<1>2. ASSUME SetUpscope
      PROVE  HierInv'
  <2> DEFINE r == [tag |-> "upscope"]
  <2>1. /\ r.tag # "var" /\ ~IsStem(r) /\ ~IsPathname(r) /\ ~IsEnumtable(r)
    BY DEF IsStem, IsPathname, IsEnumtable
  <2>2. Write(<<r>>, <<Last(open)>>) /\ UNCHANGED <<geom, files, enums>>
    BY <1>2 DEF SetUpscope
  <2> HIDE DEF r
  <2> QED
    BY <2>1, <2>2, PlainStep
<1>3. ASSUME SetComment(<<"\n">>)
      PROVE  HierInv'
  <2> DEFINE r == Attr("comment", Spaced(<<"\n">>), 0)
  <2>1. /\ r.tag # "var" /\ ~IsStem(r) /\ ~IsPathname(r) /\ ~IsEnumtable(r)
    BY DEF IsStem, IsPathname, IsEnumtable, Attr
  <2>2. Write(<<r>>, <<<<"\n">>>>) /\ UNCHANGED <<geom, files, enums>>
    BY <1>3 DEF SetComment
  <2> HIDE DEF r
  <2> QED
    BY <2>1, <2>2, PlainStep
<1>4. ASSUME SetAttrEnd
      PROVE  HierInv'
  <2> DEFINE r == [tag |-> "attrend"]
  <2>1. /\ r.tag # "var" /\ ~IsStem(r) /\ ~IsPathname(r) /\ ~IsEnumtable(r)
    BY DEF IsStem, IsPathname, IsEnumtable
  <2>2. Write(<<r>>, <<"end">>) /\ UNCHANGED <<geom, files, enums>>
    BY <1>4 DEF SetAttrEnd
  <2> HIDE DEF r
  <2> QED
    BY <2>1, <2>2, PlainStep
<1> QED
  BY <1>1, <1>2, <1>3, <1>4


\* A variable at the end of the hierarchy, with or without an attribute before it:
\* if it is no alias, both the count and the geometry grow by one.
LEMMA VarStep ==
  ASSUME HierInv, NEW n, Extends(n), HierTypes',
         NEW v, NEW alias \in 0..(MaxHandle + 1), Geometry(v, alias),
         files' = files, enums' = enums,
         NEW N, N = Len(hier'), N \in {n + 1, n + 2},
         hier'[N] = VarRecord(v, alias), told'[N] = Declared(v, alias),
         \A k \in (n + 1)..(N - 1) : hier'[k] = Attr("supvar", <<"t">>, 0)
  PROVE  HierInv'
<1> DEFINE a == AliasOf(alias)
<1>1. /\ HandlesCounted /\ FilesIndexed /\ TablesNumbered /\ Resolved
      /\ geom \in Seq(ToSet(geom)) /\ Len(geom) \in Nat
  BY DEF HierInv, HierTypes
<1>2. /\ n \in Nat /\ N \in Nat /\ N > n /\ DOMAIN hier' = 1..N /\ DOMAIN hier = 1..n
      /\ Len(hier) = n /\ \A k \in 1..n : hier'[k] = hier[k] /\ told'[k] = told[k]
  <2>1. n \in Nat /\ DOMAIN hier' = 1..N /\ DOMAIN hier = 1..n /\ Len(hier) = n
    BY DEF Extends
  <2>2. \A k \in 1..n : hier'[k] = hier[k] /\ told'[k] = told[k]
    BY DEF Extends
  <2>3. N \in Nat /\ N > n
    BY <2>1
  <2> QED
    BY <2>1, <2>2, <2>3
<1>3. /\ hier'[N].tag = "var" /\ hier'[N].alias = a
      /\ told'[N].handle = ReturnedHandle(alias)
  BY DEF VarRecord, Declared
<1>4. ASSUME NEW k \in (n + 1)..N
      PROVE  /\ ~IsStem(hier'[k]) /\ ~IsPathname(hier'[k]) /\ ~IsEnumtable(hier'[k])
             /\ k # N => hier'[k].tag # "var"
  <2>1. CASE k = N
    BY <1>3, <2>1 DEF IsStem, IsPathname, IsEnumtable
  <2>2. CASE k # N
    <3>1. k \in (n + 1)..(N - 1)
      BY <1>2, <2>2
    <3>2. hier'[k] = Attr("supvar", <<"t">>, 0)
      BY <3>1
    <3>3. hier'[k].tag = "attr" /\ hier'[k].subtype = "supvar"
      BY <3>2 DEF Attr
    <3> QED
      BY <2>2, <3>3 DEF IsStem, IsPathname, IsEnumtable
  <2> QED
    BY <2>1, <2>2
<1> HIDE DEF a
<1>5. FilesIndexed' /\ TablesNumbered'
  <2>1. \A k \in (n + 1)..Len(hier') : ~IsPathname(hier'[k])
    BY <1>4
  <2> QED
    BY <1>1, <2>1, FilesStay, TablesStay
<1>6. Resolved'
  <2> SUFFICES ASSUME NEW k \in 1..N
               PROVE  StemRight(k)' /\ TableRight(k)'
    BY <1>2 DEF Resolved
  <2>1. CASE k \in 1..n
    BY <1>1, <2>1, OldResolved
  <2>2. CASE k \in (n + 1)..N
    BY <1>4, <2>2 DEF StemRight, TableRight
  <2> QED
    BY <1>2, <2>1, <2>2
<1>7. HandlesCounted'
  <2>1. Counted(n)' = Counted(n) /\ IsFiniteSet(Counted(n)) /\ N \notin Counted(n)
    BY <1>2, OldCounted, CountedFinite DEF Counted
  <2>2. \A k \in 1..N : IsNew(hier'[k]) <=> k \in Counted(n) \/ (k = N /\ a = 0)
    <3> TAKE k \in 1..N
    <3>1. CASE k \in 1..n
      BY <1>2, <3>1 DEF IsNew, Counted
    <3>2. CASE k \in (n + 1)..(N - 1)
      BY <1>2, <1>4, <3>2 DEF IsNew, Counted
    <3>3. CASE k = N
      BY <1>2, <1>3, <3>3 DEF IsNew, Counted
    <3> QED
      BY <1>2, <3>1, <3>2, <3>3
  <2>3. Counted(N)' = IF a = 0 THEN Counted(n) \cup {N} ELSE Counted(n)
    <3>1. Counted(N)' = {k \in 1..N : IsNew(hier'[k])}
      BY DEF Counted, IsNew
    <3>2. Counted(n) \subseteq 1..N
      BY <1>2 DEF Counted
    <3> QED
      BY <1>2, <2>2, <3>1, <3>2
  <2>4. /\ Cardinality(Counted(n)) = Len(geom)
        /\ Cardinality(Counted(N)') = IF a = 0 THEN Len(geom) + 1 ELSE Len(geom)
    <3>1. Cardinality(Counted(n)) = Len(geom)
      BY <1>1, <1>2 DEF HandlesCounted
    <3>2. Cardinality(Counted(n) \cup {N}) = Cardinality(Counted(n)) + 1
      BY <2>1, FS_AddElement
    <3> QED
      BY <2>3, <3>1, <3>2
  <2>5. Len(geom') = Cardinality(Counted(N)')
    <3>1. geom' = IF a = 0 THEN Append(geom, GeomCode(v.type, LenOf(v))) ELSE geom
      BY DEF Geometry, a
    <3>2. Len(Append(geom, GeomCode(v.type, LenOf(v)))) = Len(geom) + 1
      BY <1>1, AppendIs
    <3> QED
      BY <2>4, <3>1, <3>2
  <2>6. told'[N].handle = HandleTold(N)'
    <3>1. HandleTold(N)' = IF a = 0 THEN Cardinality(Counted(N)') ELSE a
      BY <1>3 DEF HandleTold
    <3>2. told'[N].handle = IF a = 0 THEN Len(geom) + 1 ELSE a
      BY <1>3 DEF ReturnedHandle, MaxHandle, a
    <3> QED
      BY <2>4, <3>1, <3>2
  <2>7. ASSUME NEW k \in 1..N, hier'[k].tag = "var"
        PROVE  told'[k].handle = HandleTold(k)'
    <3>1. CASE k \in 1..n
      <4>1. HandleTold(k)' = HandleTold(k)
        BY <1>2, <3>1, OldCounted DEF HandleTold
      <4> QED
        BY <1>1, <1>2, <2>7, <3>1, <4>1 DEF HandlesCounted
    <3>2. CASE k = N
      BY <2>6, <3>2
    <3> QED
      BY <1>2, <1>4, <2>7, <3>1, <3>2
  <2> QED
    BY <1>2, <2>5, <2>7 DEF HandlesCounted
<1> QED
  BY <1>5, <1>6, <1>7 DEF HierInv

\* fstWriterCreateVar and fstWriterCreateVar2.
LEMMA CreateVarStep ==
  ASSUME HierInv, NEW v, NEW alias \in 0..(MaxHandle + 1),
         CreateVar(v, alias) \/ CreateVar2(v, alias)
  PROVE  HierInv'
<1> DEFINE r == VarRecord(v, alias)
           d == Declared(v, alias)
           q == Attr("supvar", <<"t">>, 0)
<1>1. HierTypes
  BY DEF HierInv
<1>2. /\ Geometry(v, alias) /\ files' = files /\ enums' = enums
      /\ Write(<<r>>, <<d>>) \/ Write(<<q, r>>, <<v.name, d>>)
  BY DEF CreateVar, CreateVar2
<1>3. geom' \in Seq(ToSet(geom')) /\ files' \in Seq(ToSet(files')) /\ enums' \in Nat
  <2>1. Append(geom, GeomCode(v.type, LenOf(v)))
          \in Seq(ToSet(Append(geom, GeomCode(v.type, LenOf(v)))))
    BY <1>1, AppendIs DEF HierTypes
  <2> QED
    BY <1>1, <1>2, <2>1 DEF HierTypes, Geometry
<1> HIDE DEF r, d, q
<1>n. PICK n : n = Len(hier)
  OBVIOUS
<1>4. CASE Write(<<r>>, <<d>>)
  <2>1. /\ n \in Nat /\ DOMAIN hier = 1..n /\ DOMAIN hier' = 1..(n + 1)
        /\ \A k \in 1..n : hier'[k] = hier[k] /\ told'[k] = told[k]
    BY <1>1, <1>4, <1>n, WrittenOne
  <2>2. /\ hier' \in Seq(ToSet(hier')) /\ told' \in Seq(ToSet(told'))
        /\ Len(hier') = n + 1 /\ Len(told') = n + 1
    BY <1>1, <1>4, <1>n, WrittenOne
  <2>3. hier'[n + 1] = r /\ told'[n + 1] = d
    <3>1. hier'[n + 1] = r
      BY <1>1, <1>4, <1>n, WrittenOne
    <3>2. told'[n + 1] = d
      BY <1>1, <1>4, <1>n, WrittenOne
    <3> QED
      BY <3>1, <3>2
  <2>4. HierTypes'
    BY <1>3, <2>2 DEF HierTypes
  <2>5. Extends(n)
    BY <1>n, <2>1, <2>2 DEF Extends
  <2>6. \A k \in (n + 1)..((n + 1) - 1) : FALSE
    BY <2>1
  <2>7. PICK N : N = n + 1
    OBVIOUS
  <2>8. /\ N = Len(hier') /\ N \in {n + 1, n + 2} /\ hier'[N] = r /\ told'[N] = d
        /\ \A k \in (n + 1)..(N - 1) : hier'[k] = q
    BY <2>2, <2>3, <2>6, <2>7
  <2> QED
    BY <1>2, <2>4, <2>5, <2>8, VarStep DEF r, d, q
<1>5. CASE Write(<<q, r>>, <<v.name, d>>)
  <2>1. /\ n \in Nat /\ DOMAIN hier = 1..n /\ DOMAIN hier' = 1..(n + 2)
        /\ \A k \in 1..n : hier'[k] = hier[k] /\ told'[k] = told[k]
    BY <1>1, <1>5, <1>n, WrittenTwo
  <2>2. /\ hier' \in Seq(ToSet(hier')) /\ told' \in Seq(ToSet(told'))
        /\ Len(hier') = n + 2 /\ Len(told') = n + 2
    BY <1>1, <1>5, <1>n, WrittenTwo
  <2>3. hier'[n + 1] = q /\ hier'[n + 2] = r /\ told'[n + 2] = d
    BY SMTT(60), <1>1, <1>5, <1>n, WrittenTwo
  <2>4. HierTypes'
    BY <1>3, <2>2 DEF HierTypes
  <2>5. Extends(n)
    BY <1>n, <2>1, <2>2 DEF Extends
  <2>6. \A k \in (n + 1)..((n + 2) - 1) : k = n + 1
    BY <2>1
  <2>7. PICK N : N = n + 2
    OBVIOUS
  <2>8. /\ N = Len(hier') /\ N \in {n + 1, n + 2} /\ hier'[N] = r /\ told'[N] = d
        /\ \A k \in (n + 1)..(N - 1) : hier'[k] = q
    BY <2>2, <2>3, <2>6, <2>7
  <2> QED
    BY <1>2, <2>4, <2>5, <2>8, VarStep DEF r, d, q
<1> QED
  BY <1>2, <1>4, <1>5

\* The index of a file that has one.
LEMMA FilesKnown ==
  ASSUME HierTypes, NEW file, file \in ToSet(files)
  PROVE  IndexOfFile(file) \in DOMAIN files /\ files[IndexOfFile(file)] = file
<1>1. \E k \in DOMAIN files : files[k] = file
  BY DEF ToSet
<1> QED
  BY <1>1 DEF IndexOfFile

\* fstWriterSetSourceStem for a file that has an index.
LEMMA KnownFileStep ==
  ASSUME HierInv, NEW file, NEW line, file \in ToSet(files), SetSourceStem(file, line)
  PROVE  HierInv'
<1> DEFINE r == Attr("stem", IndexOfFile(file), line)
<1>1. Write(<<r>>, <<file>>) /\ geom' = geom /\ files' = files /\ enums' = enums
  BY DEF SetSourceStem
<1>2. /\ r.tag # "var" /\ ~IsPathname(r) /\ ~IsEnumtable(r) /\ r.name = IndexOfFile(file)
  BY DEF Attr, IsPathname, IsEnumtable
<1> HIDE DEF r
<1>3. PICK n : n = Len(hier)
  OBVIOUS
<1>4. enums' \in Nat /\ TablesNumbered /\ FilesIndexed /\ HierTypes
  BY <1>1 DEF HierInv, HierTypes
<1>5. /\ HierTypes' /\ HandlesCounted' /\ FilesIndexed' /\ Extends(n)
      /\ hier'[n + 1] = r /\ told'[n + 1] = file
      /\ StemRight(n + 1)' /\ TableRight(n + 1)' => Resolved'
  BY <1>1, <1>2, <1>3, <1>4, OneStep
<1>6. TableRight(n + 1)'
  BY <1>2, <1>5 DEF TableRight
<1>7. StemRight(n + 1)'
  <2>1. PICK i : i = IndexOfFile(file)
    OBVIOUS
  <2>2. i \in DOMAIN files /\ files[i] = file
    BY <1>4, <2>1, FilesKnown
  <2>3. PICK j \in DOMAIN hier : PathsTo(n, i) = {j} /\ hier[j].name = Spaced(file)
    BY <1>3, <1>4, <2>2 DEF FilesIndexed
  <2>4. n \in 0..n /\ (n + 1) - 1 = n /\ hier'[j] = hier[j]
    BY <1>5 DEF Extends
  <2>5. PathsTo(n, i)' = {j}
    BY <1>5, <2>3, <2>4, OldPaths
  <2> QED
    BY <1>2, <1>5, <2>1, <2>3, <2>4, <2>5 DEF StemRight
<1>8. TablesNumbered'
  BY <1>1, <1>4, <1>5, TablesStay
<1> QED
  BY <1>5, <1>6, <1>7, <1>8 DEF HierInv

\* fstWriterCreateEnumTable gives its table the next number.
LEMMA CreateEnumTableStep ==
  ASSUME HierInv, CreateEnumTable
  PROVE  HierInv'
<1> DEFINE r == Attr("enumtable", <<"t">>, enums + 1)
<1>1. /\ Write(<<r>>, <<enums + 1>>) /\ geom' = geom /\ files' = files /\ enums' = enums + 1
  BY DEF CreateEnumTable
<1>2. /\ r.tag # "var" /\ ~IsPathname(r) /\ ~IsStem(r) /\ IsEnumtable(r)
      /\ r.name # <<>> /\ r.arg = enums + 1
  BY DEF Attr, IsPathname, IsEnumtable, IsStem
<1> HIDE DEF r
<1>3. PICK n : n = Len(hier)
  OBVIOUS
<1>4. enums \in Nat /\ enums' \in Nat /\ TablesNumbered
  BY <1>1 DEF HierInv, HierTypes
<1>5. /\ HierTypes' /\ HandlesCounted' /\ FilesIndexed' /\ Extends(n)
      /\ hier'[n + 1] = r /\ told'[n + 1] = enums + 1 /\ Len(hier') = n + 1
      /\ StemRight(n + 1)' /\ TableRight(n + 1)' => Resolved'
  BY <1>1, <1>2, <1>3, <1>4, OneStep
<1>6. /\ n + 1 \in DOMAIN hier' /\ n + 1 \in 1..(n + 1)
       /\ \A k \in DOMAIN hier : k \in DOMAIN hier' /\ hier'[k] = hier[k]
  BY <1>5 DEF Extends
<1>7. TableRight(n + 1)' /\ StemRight(n + 1)'
  <2>1. hier'[n + 1].name # <<>> /\ hier'[n + 1].arg = enums + 1 /\ IsEnumtable(hier'[n + 1])
    BY <1>2, <1>5
  <2> QED
    BY <1>2, <1>5, <1>6, <2>1 DEF TableRight, StemRight, IsTable
<1>8. TablesNumbered'
  <2> SUFFICES ASSUME NEW e \in 1..(enums + 1)
               PROVE  \E j \in DOMAIN hier' : IsTable(j, e)'
    BY <1>1 DEF TablesNumbered
  <2>1. CASE e = enums + 1
    <3>1. IsTable(n + 1, e)'
      BY <1>2, <1>5, <2>1 DEF IsTable
    <3> QED
      BY <1>6, <3>1
  <2>2. CASE e # enums + 1
    <3>1. e \in 1..enums
      BY <1>4, <2>2
    <3>2. PICK j \in DOMAIN hier : IsTable(j, e)
      BY <1>4, <3>1 DEF TablesNumbered
    <3>3. IsTable(j, e)'
      BY <1>6, <3>2 DEF IsTable
    <3> QED
      BY <1>6, <3>3
  <2> QED
    BY <2>1, <2>2
<1> QED
  BY <1>5, <1>7, <1>8 DEF HierInv

\* fstWriterEmitEnumTableRef refers to a number that was given out.
LEMMA EmitEnumTableRefStep ==
  ASSUME HierInv, NEW table \in 1..enums, EmitEnumTableRef(table)
  PROVE  HierInv'
<1> DEFINE r == Attr("enumtable", <<>>, table)
<1>1. /\ Write(<<r>>, <<table>>) /\ geom' = geom /\ files' = files /\ enums' = enums
  BY DEF EmitEnumTableRef
<1>2. /\ r.tag # "var" /\ ~IsPathname(r) /\ ~IsStem(r)
  BY DEF Attr, IsPathname, IsStem
<1> HIDE DEF r
<1>3. PICK n : n = Len(hier)
  OBVIOUS
<1>4. enums' \in Nat /\ TablesNumbered
  BY <1>1 DEF HierInv, HierTypes
<1>5. /\ HierTypes' /\ HandlesCounted' /\ FilesIndexed' /\ Extends(n)
      /\ hier'[n + 1] = r /\ told'[n + 1] = table
      /\ StemRight(n + 1)' /\ TableRight(n + 1)' => Resolved'
  BY <1>1, <1>2, <1>3, <1>4, OneStep
<1>6. StemRight(n + 1)'
  BY <1>2, <1>5 DEF StemRight
<1>7. TableRight(n + 1)'
  <2>1. PICK j \in DOMAIN hier : IsTable(j, table)
    BY <1>4 DEF TablesNumbered
  <2>2. j \in 1..(n + 1) /\ hier'[j] = hier[j]
    BY <1>5 DEF Extends
  <2>3. IsTable(j, table)'
    BY <2>1, <2>2 DEF IsTable
  <2> QED
    BY <1>5, <2>2, <2>3 DEF TableRight
<1>8. TablesNumbered'
  BY <1>1, <1>4, <1>5, TablesStay
<1> QED
  BY <1>5, <1>6, <1>7, <1>8 DEF HierInv

\* fstWriterSetSourceStem for a new file: its index belonged to no path, and the
\* path stands right in front of the first use.
LEMMA NewFileStep ==
  ASSUME HierInv, NEW file, NEW line, file \notin ToSet(files), SetSourceStem(file, line)
  PROVE  HierInv'
<1>1. PICK n, i, q, r :
        /\ n = Len(hier) /\ i = Len(files) + 1
        /\ q = Attr("pathname", Spaced(file), i) /\ r = Attr("stem", i, line)
  OBVIOUS
<1>2. /\ Write(<<q, r>>, <<file, file>>)
      /\ geom' = geom /\ files' = Append(files, file) /\ enums' = enums
  BY <1>1 DEF SetSourceStem, IndexOfFile
<1>3. /\ HierTypes /\ HandlesCounted /\ FilesIndexed /\ TablesNumbered /\ Resolved
  BY DEF HierInv
<1>4. /\ q.tag # "var" /\ ~IsStem(q) /\ ~IsEnumtable(q) /\ IsPathname(q)
      /\ q.arg = i /\ q.name = Spaced(file)
      /\ r.tag # "var" /\ ~IsPathname(r) /\ ~IsEnumtable(r) /\ IsStem(r) /\ r.name = i
  BY <1>1 DEF Attr, IsPathname, IsEnumtable, IsStem
<1>5. /\ n \in Nat /\ DOMAIN hier = 1..n /\ DOMAIN hier' = 1..(n + 2)
      /\ \A k \in 1..n : hier'[k] = hier[k] /\ told'[k] = told[k]
  BY <1>1, <1>2, <1>3, WrittenTwo
<1>6. /\ hier' \in Seq(ToSet(hier')) /\ told' \in Seq(ToSet(told'))
      /\ Len(hier') = n + 2 /\ Len(told') = n + 2
  BY <1>1, <1>2, <1>3, WrittenTwo
<1>7. hier'[n + 1] = q /\ hier'[n + 2] = r /\ told'[n + 2] = file
  <2> DEFINE W(u, t) == Write(<<q, r>>, <<u, t>>)
  <2>1. HierTypes /\ W(file, file) /\ n = Len(hier)
    BY <1>1, <1>2, <1>3
  <2>2. ASSUME NEW u, NEW t, W(u, t)
        PROVE  hier'[n + 1] = q /\ hier'[n + 2] = r /\ told'[n + 2] = t
    BY <2>1, <2>2, WrittenTwo
  <2> HIDE DEF W
  <2> QED
    BY <2>1, <2>2
<1>8. Extends(n)
  BY <1>1, <1>5, <1>6 DEF Extends
<1>9. /\ DOMAIN files = 1..(i - 1) /\ DOMAIN files' = 1..i /\ i \in Nat /\ files'[i] = file
      /\ \A k \in DOMAIN files : files'[k] = files[k]
      /\ files' \in Seq(ToSet(files'))
  BY <1>1, <1>2, <1>3, AppendIs DEF HierTypes
<1>10. HierTypes'
  BY <1>2, <1>3, <1>6, <1>9 DEF HierTypes
<1>11. \A k \in (n + 1)..Len(hier') : k = n + 1 \/ k = n + 2
  BY <1>5, <1>6
<1>12. HandlesCounted'
  BY <1>2, <1>3, <1>4, <1>7, <1>8, <1>11, HandlesStay
<1>13. TablesNumbered'
  BY <1>2, <1>3, <1>8, TablesStay
\* The new path is the only one of its index, which was not in use.
<1>14. \A j \in 1..n : IsPathname(hier'[j]) => hier'[j].arg \in DOMAIN files /\ hier'[j].arg # i
  BY <1>3, <1>5, <1>9 DEF FilesIndexed
<1>15. ASSUME NEW m, m = n + 1 \/ m = n + 2
       PROVE  PathsTo(m, i)' = {n + 1}
  <2>1. \A j \in 1..m : j \in 1..n \/ j = n + 1 \/ j = n + 2
    BY <1>5, <1>15
  <2>2. n + 1 \in 1..m
    BY <1>5, <1>15
  <2> QED
    BY <1>4, <1>7, <1>14, <2>1, <2>2 DEF PathsTo
<1>16. FilesIndexed'
  <2>1. ASSUME NEW k \in DOMAIN files'
        PROVE  \E j \in DOMAIN hier' : PathsTo(n + 2, k)' = {j} /\ hier'[j].name = Spaced(files'[k])
    <3>1. CASE k = i
      BY <1>4, <1>5, <1>7, <1>9, <1>15, <3>1
    <3>2. CASE k # i
      <4>1. k \in DOMAIN files
        BY <1>9, <3>2
      <4>2. PICK j \in DOMAIN hier : PathsTo(n, k) = {j} /\ hier[j].name = Spaced(files[k])
        BY <1>1, <1>3, <4>1 DEF FilesIndexed
      <4>3. \A m \in 1..(n + 2) : m \in 1..n \/ m = n + 1 \/ m = n + 2
        BY <1>5
      <4>4. PathsTo(n + 2, k)' = PathsTo(n, k)
        BY <1>4, <1>5, <1>7, <3>2, <4>3 DEF PathsTo
      <4> QED
        BY <1>5, <1>9, <4>1, <4>2, <4>4
    <3> QED
      BY <3>1, <3>2
  <2>2. \A j \in DOMAIN hier' : IsPathname(hier'[j]) => hier'[j].arg \in DOMAIN files'
    <3>1. \A j \in DOMAIN hier' : j \in 1..n \/ j = n + 1 \/ j = n + 2
      BY <1>5
    <3>2. DOMAIN files \subseteq DOMAIN files' /\ i \in DOMAIN files'
      BY <1>1, <1>3, <1>9 DEF HierTypes
    <3> QED
      BY <1>4, <1>7, <1>14, <3>1, <3>2
  <2> QED
    BY <1>6, <2>1, <2>2 DEF FilesIndexed
<1>17. Resolved'
  <2> SUFFICES ASSUME NEW k \in 1..(n + 2)
               PROVE  StemRight(k)' /\ TableRight(k)'
    BY <1>5 DEF Resolved
  <2>1. CASE k \in 1..n
    BY <1>3, <1>8, <2>1, OldResolved
  <2>2. CASE k = n + 1
    BY <1>4, <1>7, <2>2 DEF StemRight, TableRight
  <2>3. CASE k = n + 2
    <3>1. TableRight(k)'
      BY <1>4, <1>7, <2>3 DEF TableRight
    <3>2. k - 1 = n + 1
      BY <1>5, <2>3
    <3>3. PathsTo(k - 1, i)' = {n + 1}
      BY <1>15, <3>2
    <3> QED
      BY <1>4, <1>7, <2>3, <3>1, <3>3 DEF StemRight
  <2> QED
    BY <1>5, <2>1, <2>2, <2>3
<1> QED
  BY <1>10, <1>12, <1>13, <1>16, <1>17 DEF HierInv

\* The reader changes nothing of this, and the writer keeps it.
LEMMA HierSteps == HierInv /\ [HierNext]_hierVars => HierInv'
<1> SUFFICES ASSUME HierInv, [HierNext]_hierVars
             PROVE  HierInv'
  OBVIOUS
<1>1. CASE UNCHANGED writerVars
  <2> USE <1>1 DEF writerVars
  <2>1. HierTypes => HierTypes'
    BY DEF HierTypes
  <2>2. HandlesCounted => HandlesCounted'
    BY DEF HandlesCounted, HandleTold, Counted
  <2>3. FilesIndexed => FilesIndexed'
    BY DEF FilesIndexed, PathsTo
  <2>4. TablesNumbered => TablesNumbered'
    BY DEF TablesNumbered, IsTable
  <2>5. Resolved => Resolved'
    BY DEF Resolved, StemRight, TableRight, PathsTo, IsTable
  <2> QED
    BY <2>1, <2>2, <2>3, <2>4, <2>5 DEF HierInv
<1>2. CASE Declare
  <2>1. CASE \E v \in Variables, alias \in 0..(MaxHandle + 1) :
               CreateVar(v, alias) \/ CreateVar2(v, alias)
    BY <2>1, CreateVarStep
  <2>2. CASE \E file \in FileNames : SetSourceStem(file, 1)
    BY <2>2, KnownFileStep, NewFileStep
  <2>3. CASE CreateEnumTable
    BY <2>3, CreateEnumTableStep
  <2>4. CASE \E table \in 1..enums : EmitEnumTableRef(table)
    BY <2>4, EmitEnumTableRefStep
  <2> QED
    BY <1>2, <2>1, <2>2, <2>3, <2>4, OthersStep DEF Declare
<1>3. CASE AssignHandles
  BY <1>1, <1>3 DEF AssignHandles
<1> QED
  BY <1>1, <1>2, <1>3 DEF HierNext, hierVars

\* The invariant holds in every state.
THEOREM HierInvariance == HierSpec => []HierInv
  BY HierStarts, HierSteps, PTL DEF HierSpec

\* fstReaderIterateHier, counting from zero after a rewind, gives each variable
\* the handle that fstWriterCreateVar returned for it, whatever aliases and
\* attributes are in between.
THEOREM HandlesKnown == HierSpec => []HandlesAgree
<1>1. HierInv => HandlesAgree
  <2> SUFFICES ASSUME HierInv, NEW k \in DOMAIN hier, hier[k].tag = "var"
               PROVE  Pass.items[k].handle = told[k].handle
    BY DEF HandlesAgree
  <2>1. told[k].handle = HandleTold(k)
    BY DEF HierInv, HandlesCounted
  <2>2. k \in Nat
    BY DEF HierInv, HierTypes
  <2>3. CurrentHandle(k) = Cardinality(Counted(k))
    BY <2>2, CountedFinite DEF CurrentHandle, RewoundHandle
  <2>4. Pass.items[k].handle = HandleTold(k)
    BY <2>3 DEF Pass, IterateItem, HandleTold
  <2> QED
    BY <2>1, <2>4
<1> QED
  BY <1>1, HierInvariance, PTL

\* An index that fstWriterSetSourceStem wrote belongs to exactly one path in front
\* of it, with the text of the file; an enumeration that a variable refers to has
\* its table in front.
THEOREM ReferencesRight == HierSpec => []ReferencesResolve
<1>1. HierInv => ReferencesResolve
  BY DEF HierInv, Resolved, StemRight, TableRight, PathsTo, IsTable, IsStem, IsPathname,
     IsEnumtable, ReferencesResolve
<1> QED
  BY <1>1, HierInvariance, PTL

------------------------------------------------------------------------------
(* Lengths: what is read from the geometry, and what the scan of the       *)
(* hierarchy finds.                                                        *)

\* f has what fstReaderProcessHier knows after each of the records h.
Scans(f, h) ==
    f = [k \in 0..Len(h) |->
            IF k = 0 THEN [lens |-> <<>>, reals |-> {}] ELSE ProcessVar(f[k - 1], h[k])]

\* What is known says the same as the codes g of a geometry.
Fits(s, g) ==
    /\ s.lens \in Seq(Nat) /\ DOMAIN s.lens = DOMAIN g
    /\ \A i \in DOMAIN g : LenOfCode(g[i]) = [len |-> s.lens[i], real |-> i \in s.reals]

\* The scan of records h ends with the lengths of the geometry g.
ScanFits(h, g) == \E f : Scans(f, h) /\ Fits(f[Len(h)], g)

\* A scan goes on with the next record.
LEMMA ScanGoesOn ==
  ASSUME NEW h, Len(h) \in Nat, NEW f, Scans(f, h),
         NEW q, Len(q) = Len(h) + 1, \A k \in 1..Len(h) : q[k] = h[k]
  PROVE  \E e : Scans(e, q) /\ e[Len(q)] = ProcessVar(f[Len(h)], q[Len(q)])
<1>n. PICK n \in Nat : n = Len(h)
  OBVIOUS
<1> DEFINE g == [k \in 0..(n + 1) |-> IF k <= n THEN f[k] ELSE ProcessVar(f[n], q[n + 1])]
<1>1. ASSUME NEW k \in 0..(n + 1)
      PROVE  g[k] = IF k = 0 THEN [lens |-> <<>>, reals |-> {}] ELSE ProcessVar(g[k - 1], q[k])
  <2>1. \A j \in 0..n : f[j] = IF j = 0 THEN [lens |-> <<>>, reals |-> {}]
                             ELSE ProcessVar(f[j - 1], h[j])
    BY <1>n DEF Scans
  <2>2. CASE k = 0
    BY <2>1, <2>2
  <2>3. CASE k \in 1..n
    <3>1. g[k] = f[k] /\ g[k - 1] = f[k - 1] /\ q[k] = h[k]
      BY <1>n, <2>3
    <3>2. f[k] = ProcessVar(f[k - 1], h[k])
      <4>1. k \in 0..n /\ k # 0
        BY <2>3
      <4> QED
        BY <2>1, <4>1
    <3> QED
      BY <2>3, <3>1, <3>2
  <2>4. CASE k = n + 1
    <3>1. g[k] = ProcessVar(f[n], q[k]) /\ g[k - 1] = f[n]
      BY <2>4
    <3> QED
      BY <2>4, <3>1
  <2> QED
    BY <2>2, <2>3, <2>4
<1>2. g[n + 1] = ProcessVar(f[n], q[n + 1])
  OBVIOUS
<1>3. g = [k \in 0..(n + 1) |-> g[k]]
  OBVIOUS
<1> HIDE DEF g
<1>4. g = [k \in 0..(n + 1) |->
             IF k = 0 THEN [lens |-> <<>>, reals |-> {}] ELSE ProcessVar(g[k - 1], q[k])]
  BY <1>1, <1>3
<1>5. Scans(g, q)
  BY <1>n, <1>4 DEF Scans
<1> QED
  BY <1>n, <1>2, <1>5

\* There is one scan only.
LEMMA OneScan ==
  ASSUME NEW h, Len(h) \in Nat, NEW f, Scans(f, h), NEW g, Scans(g, h)
  PROVE  f[Len(h)] = g[Len(h)]
<1> DEFINE S == {k \in 0..Len(h) : f[k] = g[k]}
<1>1. \A k \in 0..Len(h) :
         /\ f[k] = IF k = 0 THEN [lens |-> <<>>, reals |-> {}] ELSE ProcessVar(f[k - 1], h[k])
         /\ g[k] = IF k = 0 THEN [lens |-> <<>>, reals |-> {}] ELSE ProcessVar(g[k - 1], h[k])
  BY DEF Scans
<1>2. 0 \in S
  BY <1>1
<1>3. \A k \in 0..(Len(h) - 1) : k \in S => k + 1 \in S
  <2> SUFFICES ASSUME NEW k \in 0..(Len(h) - 1), f[k] = g[k]
               PROVE  f[k + 1] = g[k + 1]
    OBVIOUS
  <2>1. k + 1 \in 0..Len(h) /\ k + 1 # 0 /\ (k + 1) - 1 = k
    OBVIOUS
  <2>2. f[k + 1] = ProcessVar(f[k], h[k + 1]) /\ g[k + 1] = ProcessVar(g[k], h[k + 1])
    BY <1>1, <2>1
  <2> QED
    BY <2>2
<1> HIDE DEF S
<1>4. 0..Len(h) \subseteq S
  BY <1>2, <1>3, Facts!SetInductionUpTo
<1> QED
  BY <1>4 DEF S

\* LensOfHier is what the scan ends with.
LEMMA LensOfHierIs ==
  ASSUME NEW f, Scans(f, hier), Len(hier) \in Nat
  PROVE  LensOfHier = LET s == f[Len(hier)]
                      IN  [i \in DOMAIN s.lens |-> [len |-> s.lens[i], real |-> i \in s.reals]]
<1> DEFINE g == CHOOSE u : u = [k \in 0..Len(hier) |->
                 IF k = 0 THEN [lens |-> <<>>, reals |-> {}] ELSE ProcessVar(u[k - 1], hier[k])]
<1>1. LensOfHier = [i \in DOMAIN g[Len(hier)].lens |->
                      [len |-> g[Len(hier)].lens[i], real |-> i \in g[Len(hier)].reals]]
  BY DEF LensOfHier
<1>2. Scans(g, hier)
  BY DEF Scans
<1> HIDE DEF g
<1>3. g[Len(hier)] = f[Len(hier)]
  BY <1>2, OneScan
<1> QED
  BY <1>1, <1>3

\* A record that is no variable is passed over.
LEMMA FitsOther ==
  ASSUME NEW h, Len(h) \in Nat, NEW g, ScanFits(h, g),
         NEW q, Len(q) = Len(h) + 1, \A k \in 1..Len(h) : q[k] = h[k],
         q[Len(q)].tag # "var"
  PROVE  ScanFits(q, g)
<1>1. PICK f : Scans(f, h) /\ Fits(f[Len(h)], g)
  BY DEF ScanFits
<1>2. PICK e : Scans(e, q) /\ e[Len(q)] = ProcessVar(f[Len(h)], q[Len(q)])
  BY <1>1, ScanGoesOn
<1>3. e[Len(q)] = f[Len(h)]
  BY <1>2 DEF ProcessVar
<1> QED
  BY <1>1, <1>2, <1>3 DEF ScanFits

\* The code of a length gives the length back.
LEMMA CodeRight ==
  ASSUME NEW v \in Variables
  PROVE  /\ LenOf(v) \in Nat
         /\ LenOfCode(GeomCode(v.type, LenOf(v))) = [len |-> LenOf(v), real |-> IsReal(v.type)]
<1>1. LenOf(v) \in Nat /\ (IsReal(v.type) => LenOf(v) = 8)
  BY VariablesAssumption DEF LenOf
<1>2. CASE IsReal(v.type)
  BY <1>1, <1>2 DEF LenOfCode, GeomCode
<1>3. CASE ~IsReal(v.type)
  <2>1. IsReal(v.type) = FALSE
    BY <1>3 DEF IsReal
  <2>2. GeomCode(v.type, LenOf(v)) = IF LenOf(v) = 0 THEN -1 ELSE LenOf(v)
    BY <1>3 DEF GeomCode, AllOnes
  <2>3. LenOfCode(-1) = [len |-> 0, real |-> FALSE]
    BY DEF LenOfCode, AllOnes
  <2>4. \A n \in Nat \ {0} : LenOfCode(n) = [len |-> n, real |-> FALSE]
    <3>1. \A n \in Nat \ {0} : n # 0 /\ n # AllOnes
      BY DEF AllOnes
    <3> QED
      BY <3>1 DEF LenOfCode
  <2>5. CASE LenOf(v) = 0
    BY <1>1, <2>1, <2>2, <2>3, <2>5
  <2>6. CASE LenOf(v) # 0
    BY <1>1, <2>1, <2>2, <2>4, <2>6
  <2> QED
    BY <2>5, <2>6
<1> QED
  BY <1>1, <1>2, <1>3

\* A variable gets its code and its length, an alias none.  The mark that the
\* alias of a real leaves is on a handle that is not yet there.
LEMMA FitsVar ==
  ASSUME NEW h, Len(h) \in Nat, NEW S, NEW g \in Seq(S), ScanFits(h, g),
         NEW q, Len(q) = Len(h) + 1, \A k \in 1..Len(h) : q[k] = h[k],
         NEW v \in Variables, q[Len(q)].tag = "var", q[Len(q)].type = v.type,
         q[Len(q)].len = LenOf(v)
  PROVE  ScanFits(q, IF q[Len(q)].alias = 0 THEN Append(g, GeomCode(v.type, LenOf(v))) ELSE g)
<1>1. PICK f : Scans(f, h) /\ Fits(f[Len(h)], g)
  BY DEF ScanFits
<1>2. PICK e : Scans(e, q) /\ e[Len(q)] = ProcessVar(f[Len(h)], q[Len(q)])
  BY <1>1, ScanGoesOn
<1> DEFINE r == q[Len(q)]
           s == f[Len(h)]
           t == ProcessVar(s, r)
           m == Len(g)
<1>3. /\ s.lens \in Seq(Nat) /\ m \in Nat /\ Len(s.lens) = m
      /\ DOMAIN s.lens = 1..m /\ DOMAIN g = 1..m
      /\ \A i \in 1..m : LenOfCode(g[i]) = [len |-> s.lens[i], real |-> i \in s.reals]
  BY <1>1 DEF Fits
<1>n. r.tag = "var" /\ r.type = v.type /\ r.len = LenOf(v)
  OBVIOUS
<1> HIDE DEF r, s, m
<1>4. /\ t.lens = IF r.alias = 0 THEN Append(s.lens, r.len) ELSE s.lens
      /\ t.reals = IF IsReal(r.type) THEN s.reals \cup {m + 1}
                   ELSE IF r.alias = 0 THEN s.reals \ {m + 1} ELSE s.reals
  BY <1>3, <1>n DEF ProcessVar
<1> HIDE DEF t
<1>5. \A i \in 1..m : (i \in t.reals) = (i \in s.reals)
  <2> SUFFICES ASSUME NEW i \in 1..m
               PROVE  (i \in t.reals) = (i \in s.reals)
    OBVIOUS
  <2>1. i # m + 1
    BY <1>3
  <2> QED
    BY <1>4, <2>1
<1>6. CASE r.alias # 0
  <2>1. t.lens = s.lens
    BY <1>4, <1>6
  <2>2. Fits(t, g)
    BY <1>3, <1>5, <2>1 DEF Fits
  <2> QED
    BY <1>2, <1>6, <2>2 DEF ScanFits, r, s, t
<1>7. CASE r.alias = 0
  <2> DEFINE c == GeomCode(v.type, LenOf(v))
             gg == Append(g, c)
  <2>1. r.len \in Nat /\ LenOfCode(c) = [len |-> r.len, real |-> IsReal(r.type)]
    BY <1>n, CodeRight
  <2> HIDE DEF c
  <2>2. /\ t.lens \in Seq(Nat) /\ DOMAIN t.lens = 1..(m + 1)
        /\ \A i \in 1..m : t.lens[i] = s.lens[i]
        /\ t.lens[m + 1] = r.len
    BY <1>3, <1>4, <1>7, <2>1
  <2>3. /\ DOMAIN gg = 1..(m + 1) /\ \A i \in 1..m : gg[i] = g[i]
        /\ gg[m + 1] = c
    BY <1>3, AppendIs DEF m
  <2> HIDE DEF gg
  <2>4. (m + 1 \in t.reals) = IsReal(r.type)
    BY <1>4, <1>7 DEF IsReal
  <2>5. ASSUME NEW i \in 1..(m + 1)
        PROVE  LenOfCode(gg[i]) = [len |-> t.lens[i], real |-> i \in t.reals]
    <3>1. CASE i = m + 1
      BY <2>1, <2>2, <2>3, <2>4, <3>1
    <3>2. CASE i # m + 1
      <4>1. i \in 1..m
        BY <1>3, <3>2
      <4> QED
        BY <1>3, <1>5, <2>2, <2>3, <4>1
    <3> QED
      BY <3>1, <3>2
  <2>6. Fits(t, gg)
    BY <2>2, <2>3, <2>5 DEF Fits
  <2> QED
    BY <1>2, <1>7, <2>6 DEF ScanFits, r, s, t, gg, c
<1> QED
  BY <1>6, <1>7

------------------------------------------------------------------------------
(* Full names. *)

\* u[k] is the full name of the first k of names, given that of one less.
IsJoined(u, names, k) ==
    u[k] = IF k = 0 THEN <<>> ELSE IF k = 1 THEN names[1] ELSE u[k - 1] \o <<Dot>> \o names[k]

\* u has the full names of the first 0 to n scopes of names.
Joins(u, names, n) ==
    u = [k \in 0..n |-> IF k = 0 THEN <<>> ELSE IF k = 1 THEN names[1]
                        ELSE u[k - 1] \o <<Dot>> \o names[k]]

\* The same, name by name.
LEMMA JoinsEach ==
  ASSUME NEW names, NEW n \in Nat, NEW u, Joins(u, names, n), NEW k \in 0..n
  PROVE  IsJoined(u, names, k)
  BY DEF Joins, IsJoined

\* The three cases.
LEMMA JoinedIs ==
  ASSUME NEW names, NEW u, NEW k \in Nat, IsJoined(u, names, k)
  PROVE  /\ k = 0 => u[0] = <<>>
         /\ k = 1 => u[1] = names[1]
         /\ k > 1 => u[k] = u[k - 1] \o <<Dot>> \o names[k]
<1>1. k > 1 => k # 0 /\ k # 1
  OBVIOUS
<1>2. CASE k > 1
  <2>1. k # 0 /\ k # 1
    BY <1>2
  <2>2. u[k] = u[k - 1] \o <<Dot>> \o names[k]
    BY Zenon, <2>1 DEF IsJoined
  <2> QED
    BY Zenon, <1>1, <2>1, <2>2
<1>3. CASE k = 0
  BY <1>3 DEF IsJoined
<1>4. CASE k = 1
  BY <1>4 DEF IsJoined
<1> QED
  BY <1>2, <1>3, <1>4

\* The full names of n + 1 scopes, from those of n.
LEMMA JoinsOneMore ==
  ASSUME NEW names, NEW n \in Nat, NEW u, Joins(u, names, n)
  PROVE  \E w : Joins(w, names, n + 1)
<1> DEFINE w == [k \in 0..(n + 1) |->
                   IF k <= n THEN u[k] ELSE IF k = 1 THEN names[1]
                   ELSE u[n] \o <<Dot>> \o names[k]]
<1>1. ASSUME NEW k \in 0..(n + 1)
      PROVE  w[k] = IF k = 0 THEN <<>> ELSE IF k = 1 THEN names[1]
                    ELSE w[k - 1] \o <<Dot>> \o names[k]
  <2>1. \A j \in 0..n : u[j] = IF j = 0 THEN <<>> ELSE IF j = 1 THEN names[1]
                               ELSE u[j - 1] \o <<Dot>> \o names[j]
    BY DEF Joins
  <2>2. CASE k = 0
    BY <2>1, <2>2
  <2>3. CASE k \in 1..n
    <3>1. w[k] = u[k] /\ w[k - 1] = u[k - 1] /\ k \in 0..n /\ k # 0
      BY <2>3
    <3> QED
      BY <2>1, <3>1
  <2>4. CASE k = n + 1
    <3>1. k # 0 /\ w[k - 1] = u[n] /\ w[k] = IF k = 1 THEN names[1] ELSE u[n] \o <<Dot>> \o names[k]
      BY <2>4
    <3> QED
      BY <3>1
  <2> QED
    BY <2>2, <2>3, <2>4
<1>2. w = [k \in 0..(n + 1) |-> w[k]]
  OBVIOUS
<1> HIDE DEF w
<1>3. w = [k \in 0..(n + 1) |-> IF k = 0 THEN <<>> ELSE IF k = 1 THEN names[1]
                                ELSE w[k - 1] \o <<Dot>> \o names[k]]
  BY <1>1, <1>2
<1> QED
  BY <1>3 DEF Joins

\* There are full names for any number of scopes.
LEMMA JoinsExist ==
  ASSUME NEW names, NEW n \in Nat
  PROVE  \E u : Joins(u, names, n)
<1> DEFINE S == {m \in Nat : \E u : Joins(u, names, m)}
<1>1. 0 \in S
  <2> DEFINE z == [k \in 0..0 |-> <<>>]
  <2>1. z = [k \in 0..0 |-> IF k = 0 THEN <<>> ELSE IF k = 1 THEN names[1]
                            ELSE z[k - 1] \o <<Dot>> \o names[k]]
    OBVIOUS
  <2> HIDE DEF z
  <2> QED
    BY <2>1 DEF Joins
<1>2. \A m \in Nat : m \in S => m + 1 \in S
  BY JoinsOneMore
<1> HIDE DEF S
<1>3. Nat \subseteq S
  BY <1>1, <1>2, Facts!SetInduction
<1> QED
  BY <1>3 DEF S

\* The first n names are the same.
SameUpTo(a, b, n) == \A k \in 1..n : a[k] = b[k]

\* They do not depend on the names behind.
LEMMA JoinsAgree ==
  ASSUME NEW a, NEW b, NEW n \in Nat, NEW m \in Nat, NEW u, NEW w,
         Joins(u, a, n), Joins(w, b, m),
         n <= m, SameUpTo(a, b, n)
  PROVE  u[n] = w[n]
<1> DEFINE S == {k \in 0..n : u[k] = w[k]}
<1>1. 0 \in S
  <2>1. IsJoined(u, a, 0) /\ IsJoined(w, b, 0)
    BY JoinsEach
  <2> QED
    BY <2>1 DEF IsJoined
<1>2. ASSUME NEW k \in 0..(n - 1), u[k] = w[k]
      PROVE  u[k + 1] = w[k + 1]
  <2>1. PICK j \in Nat : j = k + 1
    OBVIOUS
  <2>2. j \in 0..n /\ j \in 0..m /\ j - 1 = k /\ j \in 1..n
    BY <2>1
  <2>3. IsJoined(u, a, j) /\ IsJoined(w, b, j)
    BY <2>2, JoinsEach
  <2>4. CASE j = 1
    <3>1. u[1] = a[1] /\ w[1] = b[1]
      BY <2>3, <2>4, JoinedIs
    <3> QED
      BY <2>1, <2>2, <2>4, <3>1 DEF SameUpTo
  <2>5. CASE j > 1
    <3>1. u[j] = u[j - 1] \o <<Dot>> \o a[j]
      BY <2>3, <2>5, JoinedIs
    <3>2. w[j] = w[j - 1] \o <<Dot>> \o b[j]
      BY <2>3, <2>5, JoinedIs
    <3> QED
      BY <1>2, <2>1, <2>2, <3>1, <3>2 DEF SameUpTo
  <2> QED
    BY <2>1, <2>4, <2>5
<1>3. \A k \in 0..(n - 1) : k \in S => k + 1 \in S
  BY <1>2
<1> HIDE DEF S
<1>4. 0..n \subseteq S
  BY <1>1, <1>3, Facts!SetInductionUpTo
<1> QED
  BY <1>4 DEF S

\* Flat is the last of them.
LEMMA FlatIs ==
  ASSUME NEW names, Len(names) \in Nat, NEW u, Joins(u, names, Len(names))
  PROVE  Flat(names) = u[Len(names)]
<1> DEFINE w == CHOOSE v : v = [k \in 0..Len(names) |->
                 IF k = 0 THEN <<>> ELSE IF k = 1 THEN names[1] ELSE v[k - 1] \o <<Dot>> \o names[k]]
<1>1. Flat(names) = w[Len(names)]
  BY DEF Flat
<1>2. Joins(w, names, Len(names))
  BY DEF Joins
<1> HIDE DEF w
<1> QED
  BY <1>1, <1>2, JoinsAgree DEF SameUpTo

\* The full name of one scope more.
LEMMA FlatAppend ==
  ASSUME NEW S, NEW names \in Seq(S), NEW name
  PROVE  /\ Flat(<<>>) = <<>>
         /\ names = <<>> => Flat(Append(names, name)) = name
         /\ names # <<>> => Flat(Append(names, name)) = Flat(names) \o <<Dot>> \o name
<1>1. PICK n \in Nat : n = Len(names)
  OBVIOUS
<1>m. PICK m \in Nat : m = n + 1
  OBVIOUS
<1> DEFINE more == Append(names, name)
<1>2. Len(more) = m /\ more[m] = name /\ \A k \in 1..n : names[k] = more[k]
  BY <1>1, <1>m
<1> HIDE DEF more
<1>3. PICK w : Joins(w, more, m)
  BY JoinsExist
<1>4. PICK u : Joins(u, names, n)
  BY JoinsExist
<1>5. Flat(more) = w[m]
  BY <1>2, <1>3, FlatIs
<1>6. Flat(names) = u[n]
  BY <1>1, <1>4, FlatIs
<1>7. u[n] = w[n]
  <2>1. n <= m /\ SameUpTo(names, more, n)
    BY <1>m, <1>2 DEF SameUpTo
  <2> QED
    BY <1>3, <1>4, <2>1, JoinsAgree
<1>w. IsJoined(w, more, m)
  <2>1. m \in 0..m
    OBVIOUS
  <2> QED
    BY <1>3, <2>1, JoinsEach
<1>8. n = 0 => Flat(more) = name
  <2> SUFFICES ASSUME n = 0 PROVE w[m] = more[m]
    BY <1>2, <1>5
  <2>1. m = 1
    BY <1>m
  <2> QED
    BY <1>w, <2>1, JoinedIs
<1>9. n > 0 => Flat(more) = Flat(names) \o <<Dot>> \o name
  <2> SUFFICES ASSUME n > 0 PROVE w[m] = w[n] \o <<Dot>> \o more[m]
    BY <1>2, <1>5, <1>6, <1>7
  <2>1. m > 1 /\ m - 1 = n
    BY <1>m
  <2>2. w[m] = w[m - 1] \o <<Dot>> \o more[m]
    BY <1>w, <2>1, JoinedIs
  <2> QED
    BY <2>1, <2>2
<1>10. Flat(<<>>) = <<>>
  <2>1. PICK z : Joins(z, <<>>, 0)
    BY JoinsExist
  <2>2. IsJoined(z, <<>>, 0)
    BY <2>1, JoinsEach
  <2>3. z[0] = <<>>
    BY <2>2, JoinedIs
  <2>4. Len(<<>>) = 0 /\ Len(<<>>) \in Nat
    OBVIOUS
  <2>5. Flat(<<>>) = z[0]
    BY <2>1, <2>4, FlatIs
  <2> QED
    BY <2>3, <2>5
<1>11. (names = <<>> => n = 0) /\ (names # <<>> => n > 0)
  BY <1>1
<1>12. /\ names = <<>> => Flat(more) = name
       /\ names # <<>> => Flat(more) = Flat(names) \o <<Dot>> \o name
  BY Zenon, <1>8, <1>9, <1>11
<1> QED
  BY Zenon, <1>10, <1>12 DEF more

------------------------------------------------------------------------------
(* The records that a step adds. *)

\* q is h with one more, r.
Grows(h, q, r) ==
    /\ Len(h) \in Nat /\ Len(q) = Len(h) + 1 /\ q[Len(q)] = r
    /\ \A k \in 1..Len(h) : q[k] = h[k]

\* One record r more, known as t, with what it does to the geometry and to
\* the scopes.
IsPlain(r) == r.tag \notin {"var", "scope", "upscope"}
IsVariable(r, v) == r.tag = "var" /\ r.type = v.type /\ r.name = v.name /\ r.len = LenOf(v)

Plain(r, g, o, gg, oo) == IsPlain(r) /\ gg = g /\ oo = o
Enters(r, g, o, gg, oo) ==
    r.tag = "scope" /\ r.name \in ScopeNames /\ gg = g /\ oo = Append(o, r.name)
Leaves(r, g, o, gg, oo) ==
    r.tag = "upscope" /\ gg = g /\ o # <<>> /\ oo = Front(o)
Declares(r, t, g, o, gg, oo) ==
    \E v \in Variables :
        /\ IsVariable(r, v) /\ t.path = Flat(Append(o, v.name)) /\ oo = o
        /\ gg = IF r.alias = 0 THEN Append(g, GeomCode(v.type, LenOf(v))) ELSE g

Does(r, t, g, o, gg, oo) ==
    \/ Plain(r, g, o, gg, oo)
    \/ Enters(r, g, o, gg, oo)
    \/ Leaves(r, g, o, gg, oo)
    \/ Declares(r, t, g, o, gg, oo)

Adds(h, k, g, o, hh, kk, gg, oo) ==
    \E r, t : Grows(h, hh, r) /\ Grows(k, kk, t) /\ Does(r, t, g, o, gg, oo)

\* A sequence with one element more grows.
LEMMA AppendGrows ==
  ASSUME NEW s, s \in Seq(ToSet(s)), NEW e
  PROVE  Grows(s, s \o <<e>>, e)
<1>1. /\ Len(s) \in Nat /\ Len(s \o <<e>>) = Len(s) + 1
      /\ \A k \in 1..Len(s) : (s \o <<e>>)[k] = s[k]
      /\ (s \o <<e>>)[Len(s) + 1] = e
  BY OneMore
<1> QED
  BY <1>1 DEF Grows

\* With two, it grows twice.
LEMMA AppendGrowsTwice ==
  ASSUME NEW s, s \in Seq(ToSet(s)), NEW d, NEW e
  PROVE  Grows(s, s \o <<d>>, d) /\ Grows(s \o <<d>>, s \o <<d, e>>, e)
<1>1. Grows(s, s \o <<d>>, d)
  BY AppendGrows
<1>2. PICK n, q, u : n = Len(s) /\ q = s \o <<d>> /\ u = s \o <<d, e>>
  OBVIOUS
<1>3. n \in Nat /\ Len(q) = n + 1 /\ (\A k \in 1..n : q[k] = s[k]) /\ q[n + 1] = d
  BY <1>1, <1>2 DEF Grows
<1>4. Len(u) = n + 2 /\ \A k \in 1..n : u[k] = s[k]
  BY <1>2, TwoMore
<1>5. u[n + 1] = d /\ u[n + 2] = e
  BY <1>2, TwoMore
<1>6. \A k \in 1..(n + 1) : u[k] = q[k]
  <2>1. \A k \in 1..(n + 1) : k \in 1..n \/ k = n + 1
    BY <1>3
  <2> QED
    BY <1>3, <1>4, <1>5, <2>1
<1>7. Grows(q, u, e)
  <2>1. n + 2 = (n + 1) + 1
    BY <1>3
  <2> QED
    BY <1>3, <1>4, <1>5, <1>6, <2>1 DEF Grows
<1> QED
  BY <1>1, <1>2, <1>7

\* What Write does with one record.
LEMMA WriteAdds ==
  ASSUME HierTypes, NEW r, NEW t, Write(<<r>>, <<t>>),
         Does(r, t, geom, open, geom', open')
  PROVE  Adds(hier, told, geom, open, hier', told', geom', open')
<1>1. Grows(hier, hier', r) /\ Grows(told, told', t)
  BY AppendGrows DEF Write, HierTypes
<1> QED
  BY <1>1 DEF Adds

\* What it does with two.
LEMMA WriteAddsTwo ==
  ASSUME HierTypes, NEW q, NEW r, NEW u, NEW t, Write(<<q, r>>, <<u, t>>), IsPlain(q),
         Does(r, t, geom, open, geom', open')
  PROVE  \E h, k : /\ Adds(hier, told, geom, open, h, k, geom, open)
                   /\ Adds(h, k, geom, open, hier', told', geom', open')
<1>1. PICK h, k : h = hier \o <<q>> /\ k = told \o <<u>>
  OBVIOUS
<1>2. hier' = hier \o <<q, r>> /\ told' = told \o <<u, t>>
  BY DEF Write
<1>3. hier \in Seq(ToSet(hier)) /\ told \in Seq(ToSet(told))
  BY DEF HierTypes
<1>4. Grows(hier, h, q) /\ Grows(h, hier', r)
  BY <1>1, <1>2, <1>3, AppendGrowsTwice
<1>5. Grows(told, k, u) /\ Grows(k, told', t)
  BY <1>1, <1>2, <1>3, AppendGrowsTwice
<1>6. Does(q, u, geom, open, geom, open)
  BY DEF Does, Plain
<1> QED
  BY <1>4, <1>5, <1>6 DEF Adds

\* The operations of the writer add one record, or a plain one and one more.
LEMMA DeclareAdds ==
  ASSUME HierTypes, Declare
  PROVE  \/ Adds(hier, told, geom, open, hier', told', geom', open')
         \/ \E h, k : /\ Adds(hier, told, geom, open, h, k, geom, open)
                      /\ Adds(h, k, geom, open, hier', told', geom', open')
<1>1. ASSUME NEW name \in ScopeNames, SetScope(name)
      PROVE  Adds(hier, told, geom, open, hier', told', geom', open')
  <2>1. Does([tag |-> "scope", name |-> name], name, geom, open, geom', open')
    BY <1>1 DEF SetScope, Does, Enters
  <2> QED
    BY <1>1, <2>1, WriteAdds DEF SetScope
<1>2. ASSUME SetUpscope
      PROVE  Adds(hier, told, geom, open, hier', told', geom', open')
  <2>1. Does([tag |-> "upscope"], Last(open), geom, open, geom', open')
    BY <1>2 DEF SetUpscope, Does, Leaves
  <2> QED
    BY <1>2, <2>1, WriteAdds DEF SetUpscope
<1>3. ASSUME NEW v \in Variables, NEW alias
      PROVE  /\ CreateVar(v, alias) => Adds(hier, told, geom, open, hier', told', geom', open')
             /\ CreateVar2(v, alias) =>
                  \E h, k : /\ Adds(hier, told, geom, open, h, k, geom, open)
                            /\ Adds(h, k, geom, open, hier', told', geom', open')
  <2> DEFINE r == VarRecord(v, alias)
             t == Declared(v, alias)
             q == Attr("supvar", <<"t">>, 0)
  <2>1. IsVariable(r, v) /\ r.alias = AliasOf(alias) /\ t.path = Flat(Append(open, v.name)) /\ IsPlain(q)
    BY DEF IsVariable, VarRecord, Declared, Attr, IsPlain
  <2>2. /\ CreateVar(v, alias) => Write(<<r>>, <<t>>)
        /\ CreateVar2(v, alias) => Write(<<q, r>>, <<v.name, t>>)
        /\ CreateVar(v, alias) \/ CreateVar2(v, alias) => open' = open /\ Geometry(v, alias)
    BY DEF CreateVar, CreateVar2
  <2> HIDE DEF r, t, q
  <2>3. CreateVar(v, alias) \/ CreateVar2(v, alias) => Does(r, t, geom, open, geom', open')
    BY <2>1, <2>2 DEF Does, Declares, Geometry
  <2> QED
    BY <2>1, <2>2, <2>3, WriteAdds, WriteAddsTwo
<1>4. ASSUME NEW file, NEW line, SetSourceStem(file, line)
      PROVE  \/ Adds(hier, told, geom, open, hier', told', geom', open')
             \/ \E h, k : /\ Adds(hier, told, geom, open, h, k, geom, open)
                          /\ Adds(h, k, geom, open, hier', told', geom', open')
  <2> DEFINE r == Attr("stem", IndexOfFile(file), line)
             q == Attr("pathname", Spaced(file), Len(files) + 1)
  <2>1. IsPlain(r) /\ IsPlain(q)
    BY DEF Attr, IsPlain
  <2>2. /\ Write(<<r>>, <<file>>) \/ Write(<<q, r>>, <<file, file>>)
        /\ geom' = geom /\ open' = open
    BY <1>4 DEF SetSourceStem
  <2> HIDE DEF r, q
  <2>3. Does(r, file, geom, open, geom', open')
    BY <2>1, <2>2 DEF Does, Plain
  <2> QED
    BY <2>1, <2>2, <2>3, WriteAdds, WriteAddsTwo
<1>5. ASSUME NEW r, NEW t, Write(<<r>>, <<t>>), IsPlain(r), geom' = geom, open' = open
      PROVE  Adds(hier, told, geom, open, hier', told', geom', open')
  BY <1>5, WriteAdds DEF Does, Plain
<1>6. CreateEnumTable => Adds(hier, told, geom, open, hier', told', geom', open')
  <2>1. IsPlain(Attr("enumtable", <<"t">>, enums + 1))
    BY DEF IsPlain, Attr
  <2> QED
    BY <1>5, <2>1 DEF CreateEnumTable
<1>7. ASSUME NEW table, EmitEnumTableRef(table)
      PROVE  Adds(hier, told, geom, open, hier', told', geom', open')
  <2>1. IsPlain(Attr("enumtable", <<>>, table))
    BY DEF IsPlain, Attr
  <2> QED
    BY <1>5, <1>7, <2>1 DEF EmitEnumTableRef
<1>8. ASSUME NEW text, SetComment(text)
      PROVE  Adds(hier, told, geom, open, hier', told', geom', open')
  <2>1. IsPlain(Attr("comment", Spaced(text), 0))
    BY DEF IsPlain, Attr
  <2> QED
    BY <1>5, <1>8, <2>1 DEF SetComment
<1>9. SetAttrEnd => Adds(hier, told, geom, open, hier', told', geom', open')
  <2>1. IsPlain([tag |-> "attrend"])
    BY DEF IsPlain
  <2> QED
    BY <1>5, <2>1 DEF SetAttrEnd
<1> QED
  BY <1>1, <1>2, <1>3, <1>4, <1>6, <1>7, <1>8, <1>9 DEF Declare

------------------------------------------------------------------------------
(* The lengths of the handles. *)

\* A record more fits the geometry.
LEMMA FitsAdds ==
  ASSUME NEW h, NEW k, NEW S, NEW g \in Seq(S), NEW o, NEW hh, NEW kk, NEW gg, NEW oo,
         Adds(h, k, g, o, hh, kk, gg, oo), ScanFits(h, g)
  PROVE  ScanFits(hh, gg)
<1>1. PICK r, t : Grows(h, hh, r) /\ Grows(k, kk, t) /\ Does(r, t, g, o, gg, oo)
  BY DEF Adds
<1>2. /\ Len(h) \in Nat /\ Len(hh) = Len(h) + 1 /\ hh[Len(hh)] = r
      /\ \A i \in 1..Len(h) : hh[i] = h[i]
  BY <1>1 DEF Grows
<1>3. CASE r.tag # "var"
  <2>1. gg = g
    BY <1>1, <1>3 DEF Does, Plain, Enters, Leaves, Declares, IsVariable
  <2> QED
    BY <1>2, <1>3, <2>1, FitsOther
<1>4. CASE r.tag = "var"
  <2>1. PICK v \in Variables :
          /\ IsVariable(r, v)
          /\ gg = IF r.alias = 0 THEN Append(g, GeomCode(v.type, LenOf(v))) ELSE g
    BY <1>1, <1>4 DEF Does, Plain, Enters, Leaves, Declares, IsPlain
  <2>2. /\ hh[Len(hh)].tag = "var" /\ hh[Len(hh)].type = v.type
        /\ hh[Len(hh)].len = LenOf(v)
    BY <1>2, <2>1 DEF IsVariable
  <2> QED
    BY <1>2, <2>1, <2>2, FitsVar
<1> QED
  BY <1>3, <1>4

------------------------------------------------------------------------------
(* Scopes: the stack a reader has after each record, and the scopes that   *)
(* the simulator has open.                                                 *)

\* What names are made of.
Letters == STRING \cup {Dot}

\* Names as the model has them.
LEMMA Lettered == Dot \in Letters /\ Seq(STRING) \subseteq Seq(Letters)
  BY DEF Letters

Names == Seq(Letters) \ {<<>>}

\* The stack after record r.
StackAfter(s, r) ==
    IF r.tag = "scope" THEN PushScope(s, r.name) ELSE IF r.tag = "upscope" THEN Front(s) ELSE s

\* The full name of a variable under a stack.
Under(s, name) == IF s = <<>> THEN name ELSE Last(s) \o <<Dot>> \o name

\* s has the full names of the scopes o.
Mirrors(s, o) ==
    /\ s \in Seq(Names) /\ o \in Seq(ScopeNames) /\ Len(s) = Len(o)
    /\ \A i \in 1..Len(o) : s[i] = Flat(SubSeq(o, 1, i))

\* f[k] is the stack after record k; a variable has its name under the one before.
StackRight(f, h, t, k) ==
    /\ f[k] = StackAfter(f[k - 1], h[k]) /\ f[k] \in Seq(Names)
    /\ h[k].tag = "var" => /\ t[k].path = Under(f[k - 1], h[k].name)
                           /\ h[k].name \in Seq(Letters)

ScopesRight(h, t, o) ==
    \E f : /\ f[0] = <<>> /\ \A k \in 1..Len(h) : StackRight(f, h, t, k)
           /\ Mirrors(f[Len(h)], o)

\* Top of the stack is the full name of the scopes.
LEMMA TopIsFlat ==
  ASSUME NEW s, NEW o, Mirrors(s, o)
  PROVE  /\ o \in Seq(Seq(Letters)) /\ Len(s) \in Nat /\ Len(s) = Len(o)
         /\ (s = <<>>) = (o = <<>>)
         /\ s # <<>> => Last(s) = Flat(o) /\ Last(s) \in Names
<1>1. /\ s \in Seq(Names) /\ o \in Seq(ScopeNames) /\ Len(s) = Len(o)
      /\ \A i \in 1..Len(o) : s[i] = Flat(SubSeq(o, 1, i))
  BY DEF Mirrors
<1>2. o \in Seq(Seq(Letters))
  BY <1>1, NamesAssumption, Lettered
<1>3. (s = <<>>) = (o = <<>>)
  BY <1>1
<1>4. ASSUME s # <<>>
      PROVE  Last(s) = Flat(o) /\ Last(s) \in Names
  <2>1. Len(o) \in 1..Len(o) /\ Len(s) \in 1..Len(s)
    BY <1>1, <1>4
  <2>2. SubSeq(o, 1, Len(o)) = o
    BY <1>1
  <2>3. s[Len(s)] \in Names
    BY <1>1, <2>1
  <2>4. s[Len(s)] = Flat(SubSeq(o, 1, Len(o)))
    BY <1>1, <2>1
  <2> QED
    BY <2>2, <2>3, <2>4 DEF Last
<1> QED
  BY <1>1, <1>2, <1>3, <1>4

\* One sequence behind another.
LEMMA ConcatIs ==
  ASSUME NEW S, NEW a \in Seq(S), NEW b \in Seq(S), NEW c, c = a \o b
  PROVE  /\ c \in Seq(S) /\ Len(c) = Len(a) + Len(b)
         /\ \A i \in 1..Len(a) : c[i] = a[i]
         /\ \A i \in 1..Len(b) : c[Len(a) + i] = b[i]
  OBVIOUS

\* A name with a dot and another behind.
LEMMA Dotted ==
  ASSUME NEW a \in Seq(Letters), NEW b \in Seq(Letters)
  PROVE  /\ a \o <<Dot>> \o b \in Seq(Letters) /\ a \o <<Dot>> \o b # <<>>
         /\ Len(a \o <<Dot>> \o b) = Len(a) + 1 + Len(b)
         /\ \A i \in 1..Len(a) : (a \o <<Dot>> \o b)[i] = a[i]
         /\ (a \o <<Dot>> \o b)[Len(a) + 1] = Dot
         /\ \A i \in 1..Len(b) : (a \o <<Dot>> \o b)[Len(a) + 1 + i] = b[i]
<1>1. Dot \in Letters
  BY Lettered
<1>2. PICK c : c = a \o <<Dot>>
  OBVIOUS
<1>3. /\ c \in Seq(Letters)
      /\ Len(c) = Len(a) + 1 /\ c[Len(a) + 1] = Dot /\ Len(a) \in Nat /\ Len(b) \in Nat
      /\ \A i \in 1..Len(a) : c[i] = a[i]
  BY <1>1, <1>2
<1>4. PICK e : e = c \o b
  OBVIOUS
<1>5. /\ e \in Seq(Letters) /\ Len(e) = Len(c) + Len(b)
      /\ \A i \in 1..Len(c) : e[i] = c[i]
      /\ \A i \in 1..Len(b) : e[Len(c) + i] = b[i]
  <2>1. c \in Seq(Letters)
    BY <1>3
  <2> QED
    BY <1>4, <2>1, ConcatIs
<1>6. e = a \o <<Dot>> \o b
  BY <1>2, <1>4
<1>7. /\ \A i \in 1..Len(a) : i \in 1..Len(c)
      /\ Len(a) + 1 \in 1..Len(c)
  BY <1>3
<1>8. /\ \A i \in 1..Len(a) : e[i] = a[i]
      /\ e[Len(a) + 1] = Dot
      /\ \A i \in 1..Len(b) : e[Len(a) + 1 + i] = b[i]
      /\ Len(e) = Len(a) + 1 + Len(b)
  BY <1>1, <1>3, <1>5, <1>7
<1>9. e # <<>>
  BY <1>3, <1>8
<1> QED
  BY <1>5, <1>6, <1>8, <1>9

\* Entering a scope.
LEMMA MirrorsPush ==
  ASSUME NEW s, NEW o, Mirrors(s, o), NEW name \in ScopeNames
  PROVE  Mirrors(PushScope(s, name), Append(o, name))
<1>1. /\ s \in Seq(Names) /\ o \in Seq(ScopeNames) /\ Len(s) = Len(o)
      /\ \A i \in 1..Len(o) : s[i] = Flat(SubSeq(o, 1, i))
  BY DEF Mirrors
<1>2. /\ o \in Seq(Seq(Letters)) /\ (s = <<>>) = (o = <<>>)
      /\ s # <<>> => Last(s) = Flat(o) /\ Last(s) \in Names
  BY TopIsFlat
<1>3. name \in Names /\ name \in Seq(Letters)
  BY NamesAssumption, Lettered DEF Names
<1> DEFINE top == Under(s, name)
<1>4. PushScope(s, name) = Append(s, top)
  BY <1>2 DEF PushScope, Under, Names
<1>5. top = Flat(Append(o, name))
  <2>1. Flat(Append(o, name)) = IF o = <<>> THEN name ELSE Flat(o) \o <<Dot>> \o name
    BY <1>2, <1>3, FlatAppend
  <2> QED
    BY <1>2, <2>1 DEF Under
<1>6. top \in Names
  <2>1. CASE s = <<>>
    BY <1>3, <2>1 DEF Under
  <2>2. CASE s # <<>>
    <3>1. Last(s) \in Seq(Letters)
      BY <1>2, <2>2 DEF Names
    <3>2. top = Last(s) \o <<Dot>> \o name
      BY <2>2 DEF Under
    <3> QED
      BY <1>3, <3>1, <3>2, Dotted DEF Names
  <2> QED
    BY <2>1, <2>2
<1> HIDE DEF top
<1>7. PICK n, p, q : n = Len(o) /\ p = Append(o, name) /\ q = Append(s, top)
  OBVIOUS
<1>8. /\ p \in Seq(ScopeNames) /\ q \in Seq(Names) /\ n \in Nat
      /\ Len(p) = n + 1 /\ Len(q) = n + 1 /\ q[n + 1] = top
  BY <1>1, <1>6, <1>7
<1>9. \A i \in 1..n : q[i] = s[i] /\ SubSeq(p, 1, i) = SubSeq(o, 1, i)
  BY <1>1, <1>7
<1>10. SubSeq(p, 1, n + 1) = p
  BY <1>8
<1>11. \A i \in 1..(n + 1) : q[i] = Flat(SubSeq(p, 1, i))
  <2>1. \A i \in 1..(n + 1) : i \in 1..n \/ i = n + 1
    BY <1>8
  <2> QED
    BY <1>1, <1>5, <1>7, <1>8, <1>9, <1>10, <2>1
<1> QED
  BY <1>4, <1>7, <1>8, <1>11 DEF Mirrors

\* Leaving one.
LEMMA MirrorsPop ==
  ASSUME NEW s, NEW o, Mirrors(s, o), o # <<>>
  PROVE  Mirrors(Front(s), Front(o))
<1>1. /\ s \in Seq(Names) /\ o \in Seq(ScopeNames) /\ Len(s) = Len(o)
      /\ \A i \in 1..Len(o) : s[i] = Flat(SubSeq(o, 1, i))
  BY DEF Mirrors
<1>2. PICK n \in Nat : Len(o) = n + 1
  <2>1. Len(o) \in Nat /\ Len(o) # 0
    BY <1>1
  <2>2. Len(o) - 1 \in Nat /\ Len(o) = (Len(o) - 1) + 1
    BY <2>1
  <2> QED
    BY <2>2
<1>3. PICK p, q : p = Front(o) /\ q = Front(s)
  OBVIOUS
<1>4. /\ p \in Seq(ScopeNames) /\ q \in Seq(Names) /\ Len(p) = n /\ Len(q) = n
      /\ \A i \in 1..n : p[i] = o[i] /\ q[i] = s[i]
  BY <1>1, <1>2, <1>3 DEF Front
<1>5. \A i \in 1..n : SubSeq(p, 1, i) = SubSeq(o, 1, i)
  BY <1>1, <1>2, <1>4
<1>6. \A i \in 1..n : q[i] = Flat(SubSeq(p, 1, i))
  <2>1. \A i \in 1..n : i \in 1..Len(o)
    BY <1>2
  <2> QED
    BY <1>1, <1>4, <1>5, <2>1
<1> QED
  BY <1>3, <1>4, <1>6 DEF Mirrors

\* One record more.
LEMMA ScopesAdd ==
  ASSUME NEW h, NEW k, NEW g, NEW o, NEW hh, NEW kk, NEW gg, NEW oo,
         Adds(h, k, g, o, hh, kk, gg, oo), Len(h) = Len(k), ScopesRight(h, k, o)
  PROVE  ScopesRight(hh, kk, oo)
<1>1. PICK r, t : Grows(h, hh, r) /\ Grows(k, kk, t) /\ Does(r, t, g, o, gg, oo)
  BY DEF Adds
<1>n. PICK n \in Nat : n = Len(h)
  BY <1>1 DEF Grows
<1>2. /\ Len(h) = n /\ Len(k) = n /\ Len(hh) = n + 1 /\ Len(kk) = n + 1
      /\ hh[n + 1] = r /\ kk[n + 1] = t
      /\ \A i \in 1..n : hh[i] = h[i] /\ kk[i] = k[i]
  BY <1>1, <1>n DEF Grows
<1>3. PICK f : /\ f[0] = <<>> /\ \A i \in 1..n : StackRight(f, h, k, i)
               /\ Mirrors(f[n], o)
  BY <1>n DEF ScopesRight
<1> DEFINE top == StackAfter(f[n], r)
<1>4. Mirrors(top, oo)
  <2>1. CASE Plain(r, g, o, gg, oo)
    BY <1>3, <2>1 DEF Plain, IsPlain, StackAfter
  <2>2. CASE Enters(r, g, o, gg, oo)
    BY <1>3, <2>2, MirrorsPush DEF Enters, StackAfter
  <2>3. CASE Leaves(r, g, o, gg, oo)
    BY <1>3, <2>3, MirrorsPop DEF Leaves, StackAfter
  <2>4. CASE Declares(r, t, g, o, gg, oo)
    BY <1>3, <2>4 DEF Declares, IsVariable, StackAfter
  <2> QED
    BY <1>1, <2>1, <2>2, <2>3, <2>4 DEF Does
<1>5. r.tag = "var" => t.path = Under(f[n], r.name) /\ r.name \in Seq(Letters)
  <2> SUFFICES ASSUME r.tag = "var"
               PROVE  t.path = Under(f[n], r.name) /\ r.name \in Seq(Letters)
    OBVIOUS
  <2>1. PICK v \in Variables : r.name = v.name /\ t.path = Flat(Append(o, v.name))
    BY <1>1 DEF Does, Plain, IsPlain, Enters, Leaves, Declares, IsVariable
  <2>2. v.name \in Seq(Letters)
    BY VariablesAssumption, Lettered
  <2>3. /\ o \in Seq(Seq(Letters)) /\ (f[n] = <<>>) = (o = <<>>)
        /\ f[n] # <<>> => Last(f[n]) = Flat(o)
    BY <1>3, TopIsFlat
  <2>4. Flat(Append(o, r.name)) = IF o = <<>> THEN r.name ELSE Flat(o) \o <<Dot>> \o r.name
    BY <2>3, FlatAppend
  <2> QED
    BY <2>1, <2>2, <2>3, <2>4 DEF Under
<1>6. top \in Seq(Names)
  BY <1>4 DEF Mirrors
<1> DEFINE e == [i \in 0..(n + 1) |-> IF i <= n THEN f[i] ELSE top]
<1>7. /\ e[0] = <<>> /\ e[n + 1] = top /\ e[n] = f[n]
      /\ \A i \in 1..n : e[i] = f[i] /\ e[i - 1] = f[i - 1]
  BY <1>3
<1> HIDE DEF e
<1>8. ASSUME NEW i \in 1..(n + 1)
      PROVE  StackRight(e, hh, kk, i)
  <2>1. CASE i = n + 1
    <3>1. i - 1 = n
      BY <2>1
    <3> QED
      BY <1>2, <1>5, <1>6, <1>7, <2>1, <3>1 DEF StackRight
  <2>2. CASE i # n + 1
    <3>1. i \in 1..n
      BY <2>2
    <3> QED
      BY <1>2, <1>3, <1>7, <3>1 DEF StackRight
  <2> QED
    BY <2>1, <2>2
<1> HIDE DEF top
<1> QED
  BY <1>2, <1>4, <1>7, <1>8 DEF ScopesRight

------------------------------------------------------------------------------
(* A call of assignHandles. *)

\* What is known before the first record.
Begin(stack, garbage, paths) ==
    [stack |-> stack, flat |-> <<>>, missing |-> garbage, found |-> [path \in paths |-> 0]]

\* u[k] is what the call knows after record k, given what it knew before.
IsVisited(u, stack, garbage, paths, k) ==
    u[k] = IF k = 0 THEN Begin(stack, garbage, paths) ELSE Visit(u[k - 1], Pass.items[k])

\* u has it for the first 0 to n records.
Visits(u, stack, garbage, paths, n) ==
    u = [k \in 0..n |-> IF k = 0 THEN [stack |-> stack, flat |-> <<>>, missing |-> garbage,
                                       found |-> [path \in paths |-> 0]]
                        ELSE Visit(u[k - 1], Pass.items[k])]

\* One record more.
LEMMA VisitsOneMore ==
  ASSUME NEW stack, NEW garbage, NEW paths, NEW n \in Nat, NEW u,
         Visits(u, stack, garbage, paths, n)
  PROVE  \E w : Visits(w, stack, garbage, paths, n + 1)
<1> DEFINE b == [stack |-> stack, flat |-> <<>>, missing |-> garbage,
                 found |-> [path \in paths |-> 0]]
           w == [k \in 0..(n + 1) |-> IF k <= n THEN u[k] ELSE Visit(u[n], Pass.items[k])]
<1> HIDE DEF b
<1>1. ASSUME NEW k \in 0..(n + 1)
      PROVE  w[k] = IF k = 0 THEN b ELSE Visit(w[k - 1], Pass.items[k])
  <2>1. \A j \in 0..n : u[j] = IF j = 0 THEN b ELSE Visit(u[j - 1], Pass.items[j])
    BY DEF Visits, b
  <2>2. CASE k = 0
    BY <2>1, <2>2
  <2>3. CASE k \in 1..n
    <3>1. w[k] = u[k] /\ w[k - 1] = u[k - 1] /\ k \in 0..n /\ k # 0
      BY <2>3
    <3> QED
      BY <2>1, <3>1
  <2>4. CASE k = n + 1
    <3>1. k # 0 /\ w[k - 1] = u[n] /\ w[k] = Visit(u[n], Pass.items[k])
      BY <2>4
    <3> QED
      BY <3>1
  <2> QED
    BY <2>2, <2>3, <2>4
<1>2. w = [k \in 0..(n + 1) |-> w[k]]
  OBVIOUS
<1> HIDE DEF w
<1>3. w = [k \in 0..(n + 1) |-> IF k = 0 THEN b ELSE Visit(w[k - 1], Pass.items[k])]
  BY <1>1, <1>2
<1> QED
  BY <1>3 DEF Visits, b

\* It is defined for any number of records.
LEMMA VisitsExist ==
  ASSUME NEW stack, NEW garbage, NEW paths, NEW n \in Nat
  PROVE  \E u : Visits(u, stack, garbage, paths, n)
<1> DEFINE S == {m \in Nat : \E u : Visits(u, stack, garbage, paths, m)}
           b == [stack |-> stack, flat |-> <<>>, missing |-> garbage,
                 found |-> [path \in paths |-> 0]]
<1>1. 0 \in S
  <2> HIDE DEF b
  <2> DEFINE z == [k \in 0..0 |-> b]
  <2>1. z = [k \in 0..0 |-> IF k = 0 THEN b ELSE Visit(z[k - 1], Pass.items[k])]
    OBVIOUS
  <2> HIDE DEF z
  <2> QED
    BY <2>1 DEF Visits, b
<1>2. \A m \in Nat : m \in S => m + 1 \in S
  BY VisitsOneMore
<1> HIDE DEF S
<1>3. Nat \subseteq S
  BY <1>1, <1>2, Facts!SetInduction
<1> QED
  BY <1>3 DEF S

\* What the model of the call computes.
LEMMA VisitedIs ==
  ASSUME NEW stack, NEW garbage, NEW paths, NEW n \in Nat, n = Len(hier), NEW k \in 0..n
  PROVE  IsVisited(Visited(stack, garbage, paths), stack, garbage, paths, k)
<1> DEFINE b == [stack |-> stack, flat |-> <<>>, missing |-> garbage,
                 found |-> [path \in paths |-> 0]]
           w == CHOOSE v : v = [i \in 0..Len(hier) |->
                                  IF i = 0 THEN b ELSE Visit(v[i - 1], Pass.items[i])]
<1>1. Visited(stack, garbage, paths) = w
  BY DEF Visited
<1>2. \E v : v = [i \in 0..Len(hier) |-> IF i = 0 THEN b ELSE Visit(v[i - 1], Pass.items[i])]
  <2>1. PICK u : Visits(u, stack, garbage, paths, n)
    BY VisitsExist
  <2> QED
    BY <2>1 DEF Visits, b
<1>3. w = [i \in 0..n |-> IF i = 0 THEN b ELSE Visit(w[i - 1], Pass.items[i])]
  BY <1>2
<1> HIDE DEF w
<1>4. w[k] = IF k = 0 THEN b ELSE Visit(w[k - 1], Pass.items[k])
  BY <1>3
<1> QED
  BY <1>1, <1>4 DEF IsVisited, Begin

------------------------------------------------------------------------------
(* One record. *)

\* What assignHandles knows.
IsState(s, paths) ==
    /\ s = [stack |-> s.stack, flat |-> s.flat, missing |-> s.missing, found |-> s.found]
    /\ s.found = [path \in paths |-> s.found[path]]

\* How a record leads from s to t.
Scoped(s, t, item) ==
    /\ item.tag = "scope" => /\ t.stack = PushScope(s.stack, item.name)
                             /\ t.flat = Last(PushScope(s.stack, item.name))
    /\ item.tag = "upscope" => /\ t.stack = Front(s.stack)
                               /\ t.flat = FlatScope(Front(s.stack))
    /\ item.tag \notin {"scope", "upscope"} => t.stack = s.stack /\ t.flat = s.flat
Looked(s, t, paths, item) ==
    /\ item.tag = "var" =>
         /\ t.missing = AnyMissing(s)
         /\ \A path \in paths :
              t.found[path] = IF Matches(s, path, item) THEN item.handle ELSE s.found[path]
    /\ item.tag # "var" => t.missing = s.missing /\ t.found = s.found

\* Visit does this, whatever the call knew before.
LEMMA VisitDoes ==
  ASSUME NEW s, NEW paths, NEW item, IsState(s, paths), NEW t, t = Visit(s, item)
  PROVE  IsState(t, paths) /\ Scoped(s, t, item) /\ Looked(s, t, paths, item)
<1>1. CASE item.tag = "scope"
  <2>1. PICK stack, flat : stack = PushScope(s.stack, item.name) /\ flat = Last(stack)
    OBVIOUS
  <2>2. t = [s EXCEPT !.stack = stack, !.flat = flat]
    BY <1>1, <2>1 DEF Visit
  <2>3. t = [stack |-> stack, flat |-> flat, missing |-> s.missing, found |-> s.found]
    BY <2>2 DEF IsState
  <2> QED
    BY <1>1, <2>1, <2>3 DEF IsState, Scoped, Looked
<1>2. CASE item.tag = "upscope"
  <2>1. PICK stack, flat : stack = Front(s.stack) /\ flat = FlatScope(stack)
    OBVIOUS
  <2>2. t = [s EXCEPT !.stack = stack, !.flat = flat]
    BY <1>2, <2>1 DEF Visit
  <2>3. t = [stack |-> stack, flat |-> flat, missing |-> s.missing, found |-> s.found]
    BY <2>2 DEF IsState
  <2> QED
    BY <1>2, <2>1, <2>3 DEF IsState, Scoped, Looked
<1>3. CASE item.tag = "var"
  <2>1. PICK missing : missing = AnyMissing(s)
    OBVIOUS
  <2>2. PICK found : found = [path \in paths |-> IF Matches(s, path, item) THEN item.handle
                                                 ELSE s.found[path]]
    OBVIOUS
  <2>3. DOMAIN s.found = paths
    BY DEF IsState
  <2>4. t = [s EXCEPT !.missing = missing, !.found = found]
    BY <1>3, <2>1, <2>2, <2>3 DEF Visit, VisitVar
  <2>5. t = [stack |-> s.stack, flat |-> s.flat, missing |-> missing, found |-> found]
    BY <2>4 DEF IsState
  <2> QED
    BY <1>3, <2>1, <2>2, <2>5 DEF IsState, Scoped, Looked
<1>4. CASE item.tag \notin {"scope", "upscope", "var"}
  <2>1. t = s
    BY <1>4 DEF Visit
  <2> QED
    BY <1>4, <2>1 DEF Scoped, Looked
<1> QED
  BY <1>1, <1>2, <1>3, <1>4

\* What is visited.
LEMMA ItemIs ==
  ASSUME NEW k \in DOMAIN hier
  PROVE  /\ Pass.items[k].tag = hier[k].tag
         /\ hier[k].tag \in {"scope", "var"} => Pass.items[k].name = hier[k].name
  BY DEF Pass, IterateItem

------------------------------------------------------------------------------
(* Full names and their parts. *)

\* The dot that divides a full name.
LEMMA PathSplits ==
  ASSUME NEW path \in Seq(Letters), NEW d \in LastDot(path)
  PROVE  /\ d \in 1..Len(path) /\ LastDot(path) = {d}
         /\ ScopeName(path) = SubSeq(path, 1, d - 1)
         /\ LocalName(path) = SubSeq(path, d + 1, Len(path))
<1>1. d \in 1..Len(path) /\ path[d] = Dot /\ \A j \in 1..Len(path) : j > d => path[j] # Dot
  BY DEF LastDot
<1>2. ASSUME NEW e \in LastDot(path)
      PROVE  e = d
  <2>1. e \in 1..Len(path) /\ path[e] = Dot /\ \A j \in 1..Len(path) : j > e => path[j] # Dot
    BY DEF LastDot
  <2>2. ~(d > e) /\ ~(e > d)
    BY <1>1, <2>1
  <2> QED
    BY <1>1, <2>1, <2>2
<1>3. LastDot(path) = {d}
  BY <1>2
<1>4. (CHOOSE k \in LastDot(path) : TRUE) = d
  BY <1>2
<1> QED
  BY <1>1, <1>3, <1>4 DEF ScopeName, LocalName

\* A full name is its scope, a dot, and its last part.
LEMMA PathIs ==
  ASSUME NEW path \in Seq(Letters), NEW d \in LastDot(path)
  PROVE  /\ path = ScopeName(path) \o <<Dot>> \o LocalName(path)
         /\ Len(ScopeName(path)) = d - 1
         /\ ScopeName(path) \in Seq(Letters) /\ LocalName(path) \in Seq(Letters)
<1>1. PICK n \in Nat : n = Len(path)
  OBVIOUS
<1>2. PICK a, b : a = SubSeq(path, 1, d - 1) /\ b = SubSeq(path, d + 1, n)
  OBVIOUS
<1>3. d \in 1..n /\ ScopeName(path) = a /\ LocalName(path) = b
  BY <1>1, <1>2, PathSplits
<1>4. /\ a \in Seq(Letters) /\ Len(a) = d - 1
      /\ \A i \in 1..(d - 1) : a[i] = path[i]
  BY <1>1, <1>2, <1>3
<1>5. /\ b \in Seq(Letters) /\ Len(b) = n - d
      /\ \A i \in 1..(n - d) : b[i] = path[d + i]
  BY <1>1, <1>2, <1>3
<1>6. PICK c : c = a \o <<Dot>> \o b
  OBVIOUS
<1>7. /\ c \in Seq(Letters) /\ Len(c) = Len(a) + 1 + Len(b)
      /\ \A i \in 1..Len(a) : c[i] = a[i]
      /\ c[Len(a) + 1] = Dot
      /\ \A i \in 1..Len(b) : c[Len(a) + 1 + i] = b[i]
  BY <1>4, <1>5, <1>6, Dotted
<1>8. Len(c) = n
  BY <1>1, <1>3, <1>4, <1>5, <1>7
<1>9. path[d] = Dot
  BY DEF LastDot
<1>10. ASSUME NEW i \in 1..n
       PROVE  c[i] = path[i]
  <2>1. CASE i < d
    <3>1. i \in 1..(d - 1)
      BY <1>3, <2>1
    <3> QED
      BY <1>4, <1>7, <3>1
  <2>2. CASE i = d
    <3>1. c[d] = Dot
      BY <1>3, <1>4, <1>7
    <3> QED
      BY <1>9, <2>2, <3>1
  <2>3. CASE i > d
    <3>1. PICK j \in 1..(n - d) : i = d + j
      <4>1. i - d \in 1..(n - d) /\ i = d + (i - d)
        BY <1>1, <1>3, <2>3
      <4> QED
        BY <4>1
    <3>2. c[d + j] = b[j]
      <4>1. Len(a) + 1 + j = d + j /\ j \in 1..Len(b)
        BY <1>3, <1>4, <1>5, <3>1
      <4> QED
        BY <1>7, <4>1
    <3> QED
      BY <1>5, <3>1, <3>2
  <2> QED
    BY <1>3, <2>1, <2>2, <2>3
<1>11. c = path
  BY <1>1, <1>7, <1>8, <1>10
<1> QED
  BY <1>3, <1>4, <1>5, <1>6, <1>11

\* The parts of a name with a dot in it and none behind.
LEMMA PartsOf ==
  ASSUME NEW a \in Seq(Letters), NEW b \in Seq(Letters), Dot \notin ToSet(b),
         NEW path, path = a \o <<Dot>> \o b
  PROVE  ScopeName(path) = a /\ LocalName(path) = b
<1>1. /\ path \in Seq(Letters) /\ Len(path) = Len(a) + 1 + Len(b)
      /\ \A i \in 1..Len(a) : path[i] = a[i]
      /\ path[Len(a) + 1] = Dot
      /\ \A i \in 1..Len(b) : path[Len(a) + 1 + i] = b[i]
  BY Dotted
<1>2. PICK d \in Nat, m \in Nat : d = Len(a) + 1 /\ m = Len(b)
  OBVIOUS
<1>3. d \in 1..Len(path) /\ Len(path) = d + m
  BY <1>1, <1>2
<1>4. ASSUME NEW j \in 1..Len(path), j > d
      PROVE  path[j] # Dot
  <2>1. PICK i \in 1..m : j = d + i
    <3>1. j - d \in 1..m /\ j = d + (j - d)
      BY <1>3, <1>4
    <3> QED
      BY <3>1
  <2>2. path[j] = b[i] /\ i \in DOMAIN b
    BY <1>1, <1>2, <2>1
  <2> QED
    BY <2>2 DEF ToSet
<1>5. d \in LastDot(path)
  BY <1>1, <1>2, <1>3, <1>4 DEF LastDot
<1>6. ScopeName(path) = SubSeq(path, 1, d - 1) /\ LocalName(path) = SubSeq(path, d + 1, Len(path))
  BY <1>1, <1>5, PathSplits
<1>7. SubSeq(path, 1, d - 1) = a
  <2>1. PICK s : s = SubSeq(path, 1, d - 1)
    OBVIOUS
  <2>2. s \in Seq(Letters) /\ Len(s) = d - 1 /\ \A i \in 1..(d - 1) : s[i] = path[i]
    BY <1>1, <1>2, <1>3, <2>1
  <2>3. Len(s) = Len(a) /\ \A i \in 1..Len(a) : s[i] = a[i]
    BY <1>1, <1>2, <2>2
  <2> QED
    BY <2>1, <2>2, <2>3
<1>8. SubSeq(path, d + 1, Len(path)) = b
  <2>1. PICK s : s = SubSeq(path, d + 1, Len(path))
    OBVIOUS
  <2>2. s \in Seq(Letters) /\ Len(s) = m /\ \A i \in 1..m : s[i] = path[d + i]
    BY <1>1, <1>2, <1>3, <2>1
  <2>3. Len(s) = Len(b) /\ \A i \in 1..Len(b) : s[i] = b[i]
    BY <1>1, <1>2, <2>2
  <2> QED
    BY <2>1, <2>2, <2>3
<1> QED
  BY <1>6, <1>7, <1>8

\* What assignHandles compares tells whether the full names are the same.
LEMMA PartsMatch ==
  ASSUME NEW s \in Seq(Names), NEW name \in Seq(Letters), NEW path \in Seq(Letters),
         NEW d \in LastDot(path), d > 1,
         Under(s, name) = path => Dot \notin ToSet(name)
  PROVE  ScopeName(path) = FlatScope(s) /\ LocalName(path) = name <=> Under(s, name) = path
<1>1. /\ path = ScopeName(path) \o <<Dot>> \o LocalName(path)
      /\ Len(ScopeName(path)) = d - 1 /\ d - 1 > 0
  <2>1. d \in 1..Len(path)
    BY DEF LastDot
  <2>2. d - 1 > 0
    BY <2>1
  <2>3. path = ScopeName(path) \o <<Dot>> \o LocalName(path)
    BY Zenon, PathIs
  <2>4. Len(ScopeName(path)) = d - 1
    BY PathIs
  <2> QED
    BY Zenon, <2>2, <2>3, <2>4
<1>2. ASSUME ScopeName(path) = FlatScope(s), LocalName(path) = name
      PROVE  Under(s, name) = path
  <2>1. s # <<>>
    BY <1>1, <1>2 DEF FlatScope
  <2>2. Under(s, name) = Last(s) \o <<Dot>> \o name /\ Last(s) = ScopeName(path)
    BY <1>2, <2>1 DEF FlatScope, Under
  <2> QED
    BY Zenon, <1>1, <1>2, <2>2
<1>3. ASSUME Under(s, name) = path
      PROVE  ScopeName(path) = FlatScope(s) /\ LocalName(path) = name
  <2>1. s # <<>>
    <3> SUFFICES ASSUME s = <<>> PROVE FALSE
      OBVIOUS
    <3>1. path = name
      BY <1>3 DEF Under
    <3>2. Dot \in ToSet(path)
      BY DEF LastDot, ToSet
    <3> QED
      BY <1>3, <3>1, <3>2
  <2>2. Last(s) \in Seq(Letters) /\ FlatScope(s) = Last(s)
    <3>1. Len(s) \in 1..Len(s) /\ FlatScope(s) = Last(s)
      BY <2>1 DEF FlatScope
    <3> QED
      BY <3>1 DEF Last, Names
  <2>3. path = Last(s) \o <<Dot>> \o name
    BY <1>3, <2>1 DEF Under
  <2> QED
    BY <1>3, <2>2, <2>3, PartsOf
<1> QED
  BY <1>2, <1>3

------------------------------------------------------------------------------
(* What a call finds. *)

\* x is the handle of the first variable of that full name among k records.
FirstFound(x, path, k) ==
    \/ x = 0 /\ \A j \in 1..k : j \notin DeclaredAs(path)
    \/ \E j \in 1..k : /\ j \in DeclaredAs(path) /\ \A i \in 1..(j - 1) : i \notin DeclaredAs(path)
                       /\ x = told[j].handle /\ x # 0

\* The call is where the stacks f say.
Follows(s, f, k) == s.stack = f[k] /\ s.flat = FlatScope(f[k])

\* No variable has the handle 0.
LEMMA HandleNotZero ==
  ASSUME HierInv, NEW k \in DOMAIN hier, hier[k].tag = "var"
  PROVE  told[k].handle # 0 /\ Pass.items[k].handle = told[k].handle
<1>1. told[k].handle = HandleTold(k)
  BY DEF HierInv, HandlesCounted
<1>2. k \in Nat /\ k \in 1..k
  BY DEF HierInv, HierTypes
<1>3. IsFiniteSet(Counted(k)) /\ Cardinality(Counted(k)) \in Nat
  BY <1>2, CountedFinite
<1>4. hier[k].alias = 0 => Cardinality(Counted(k)) # 0
  <2> SUFFICES ASSUME hier[k].alias = 0 PROVE Cardinality(Counted(k)) # 0
    OBVIOUS
  <2>1. k \in Counted(k)
    BY <1>2 DEF Counted
  <2> QED
    BY <1>3, <2>1, FS_EmptySet
<1>5. HandleTold(k) # 0
  BY <1>4 DEF HandleTold
<1>6. CurrentHandle(k) = Cardinality(Counted(k))
  BY <1>3 DEF CurrentHandle, RewoundHandle
<1>7. Pass.items[k].handle = HandleTold(k)
  BY <1>6 DEF Pass, IterateItem, HandleTold
<1> QED
  BY <1>1, <1>5, <1>7

\* The first variable of a name does not depend on the records behind it.
LEMMA FoundStays ==
  ASSUME NEW n \in Nat, NEW k \in 1..n, NEW x, NEW path, FirstFound(x, path, k - 1),
         k \notin DeclaredAs(path) \/ x # 0
  PROVE  FirstFound(x, path, k)
<1>1. CASE x = 0
  <2>1. \A j \in 1..(k - 1) : j \notin DeclaredAs(path)
    BY <1>1 DEF FirstFound
  <2>2. \A j \in 1..k : j \in 1..(k - 1) \/ j = k
    OBVIOUS
  <2> QED
    BY <1>1, <2>1, <2>2 DEF FirstFound
<1>2. CASE x # 0
  <2>1. PICK j \in 1..(k - 1) :
          /\ j \in DeclaredAs(path) /\ \A i \in 1..(j - 1) : i \notin DeclaredAs(path)
          /\ x = told[j].handle
    BY <1>2 DEF FirstFound
  <2>2. j \in 1..k
    BY <2>1
  <2> QED
    BY <1>2, <2>1, <2>2 DEF FirstFound
<1> QED
  BY <1>1, <1>2

\* A record keeps the call where the stacks are, and the handles right.
LEMMA VisitRight ==
  ASSUME HierInv, NEW n \in Nat, n = Len(hier), NEW f, NEW k \in 1..n,
         StackRight(f, hier, told, k), f[k - 1] \in Seq(Names),
         NEW paths \in SUBSET Seq(Letters), NEW s, NEW t,
         IsState(s, paths), Follows(s, f, k - 1), t = Visit(s, Pass.items[k])
  PROVE  /\ IsState(t, paths) /\ Follows(t, f, k)
         /\ \A path \in paths : Findable(path) /\ FirstFound(s.found[path], path, k - 1) =>
                FirstFound(t.found[path], path, k)
<1> DEFINE item == Pass.items[k]
<1>1. /\ f[k] = StackAfter(f[k - 1], hier[k])
      /\ hier[k].tag = "var" => /\ told[k].path = Under(f[k - 1], hier[k].name)
                                /\ hier[k].name \in Seq(Letters)
  BY DEF StackRight
<1>2. k \in DOMAIN hier /\ DOMAIN hier = 1..n
  BY DEF HierInv, HierTypes
<1>3. /\ item.tag = hier[k].tag
      /\ hier[k].tag \in {"scope", "var"} => item.name = hier[k].name
  BY <1>2, ItemIs
<1>4. hier[k].tag = "var" => item.handle = told[k].handle /\ told[k].handle # 0
  BY <1>2, HandleNotZero
<1> HIDE DEF item
<1>5. IsState(t, paths) /\ Scoped(s, t, item) /\ Looked(s, t, paths, item)
  BY VisitDoes DEF item
<1>6. s.stack = f[k - 1] /\ s.flat = FlatScope(f[k - 1])
  BY DEF Follows
<1>7. Follows(t, f, k)
  <2>1. CASE hier[k].tag = "scope"
    <3>1. f[k] = PushScope(f[k - 1], hier[k].name) /\ PushScope(f[k - 1], hier[k].name) # <<>>
      BY <1>1, <2>1 DEF StackAfter, PushScope
    <3> QED
      BY <1>3, <1>5, <1>6, <2>1, <3>1 DEF Scoped, Follows, FlatScope
  <2>2. CASE hier[k].tag = "upscope"
    BY <1>1, <1>3, <1>5, <1>6, <2>2 DEF Scoped, Follows, StackAfter
  <2>3. CASE hier[k].tag \notin {"scope", "upscope"}
    BY <1>1, <1>3, <1>5, <1>6, <2>3 DEF Scoped, Follows, StackAfter
  <2> QED
    BY <2>1, <2>2, <2>3
<1>8. ASSUME NEW path \in paths, Findable(path), FirstFound(s.found[path], path, k - 1)
      PROVE  FirstFound(t.found[path], path, k)
  <2>1. CASE hier[k].tag # "var"
    <3>1. k \notin DeclaredAs(path)
      BY <2>1 DEF DeclaredAs
    <3>2. t.found[path] = s.found[path]
      BY <1>3, <1>5, <2>1 DEF Looked
    <3> QED
      BY <1>8, <3>1, <3>2, FoundStays
  <2>2. CASE hier[k].tag = "var"
    <3>1. t.found[path] = IF Matches(s, path, item) THEN item.handle ELSE s.found[path]
      BY <1>3, <1>5, <2>2 DEF Looked
    <3>2. k \in DeclaredAs(path) <=> told[k].path = path
      BY <1>2, <2>2 DEF DeclaredAs
    <3>3. Matches(s, path, item) <=> s.found[path] = 0 /\ k \in DeclaredAs(path)
      <4>1. PICK d \in LastDot(path) : d > 1
        BY <1>8 DEF Findable
      <4>2. told[k].path = path => Dot \notin ToSet(hier[k].name)
        BY <1>8, <3>2 DEF Findable
      <4>3. PICK stack, name : stack = f[k - 1] /\ name = hier[k].name
        OBVIOUS
      <4>4. stack \in Seq(Names) /\ name \in Seq(Letters) /\ path \in Seq(Letters)
        BY <1>1, <2>2, <4>3
      <4>5. Under(stack, name) = path => Dot \notin ToSet(name)
        BY <1>1, <2>2, <4>2, <4>3
      <4>6. ScopeName(path) = FlatScope(stack) /\ LocalName(path) = name
              <=> Under(stack, name) = path
        BY <4>1, <4>4, <4>5, PartsMatch
      <4> QED
        BY <1>1, <1>3, <1>6, <2>2, <3>2, <4>3, <4>6 DEF Matches
    <3>4. CASE Matches(s, path, item)
      <4>1. s.found[path] = 0 /\ k \in DeclaredAs(path)
        BY <3>3, <3>4
      <4>2. \A j \in 1..(k - 1) : j \notin DeclaredAs(path)
        BY <1>8, <4>1 DEF FirstFound
      <4>3. k \in 1..k /\ t.found[path] = told[k].handle /\ told[k].handle # 0
        BY <1>4, <2>2, <3>1, <3>4
      <4> QED
        BY <4>1, <4>2, <4>3 DEF FirstFound
    <3>5. CASE ~Matches(s, path, item)
      <4>1. k \notin DeclaredAs(path) \/ s.found[path] # 0
        BY <3>3, <3>5
      <4>2. t.found[path] = s.found[path]
        BY <3>1, <3>5
      <4> QED
        BY <1>8, <4>1, <4>2, FoundStays
    <3> QED
      BY <3>4, <3>5
  <2> QED
    BY <2>1, <2>2
<1> QED
  BY <1>5, <1>7, <1>8

\* A call that starts outside all scopes.
LEMMA CallRight ==
  ASSUME HierInv, ScopesRight(hier, told, open), NEW garbage,
         NEW paths \in SUBSET Seq(Letters),
         NEW s, s = Visited(<<>>, garbage, paths)[Len(hier)]
  PROVE  /\ Mirrors(s.stack, open)
         /\ \A path \in paths : Findable(path) => FirstFound(s.found[path], path, Len(hier))
<1>1. PICK n \in Nat : n = Len(hier)
  BY DEF HierInv, HierTypes
<1>2. PICK f : /\ f[0] = <<>> /\ \A k \in 1..n : StackRight(f, hier, told, k)
               /\ Mirrors(f[n], open)
  BY <1>1 DEF ScopesRight
<1>3. PICK u : u = Visited(<<>>, garbage, paths)
  OBVIOUS
<1>4. \A k \in 0..n : IsVisited(u, <<>>, garbage, paths, k)
  BY <1>1, <1>3, VisitedIs
<1> DEFINE Right(k) == /\ IsState(u[k], paths) /\ Follows(u[k], f, k) /\ f[k] \in Seq(Names)
                       /\ \A path \in paths :
                            Findable(path) => FirstFound(u[k].found[path], path, k)
           S == {k \in 0..n : Right(k)}
<1>5. 0 \in S
  <2>1. u[0] = Begin(<<>>, garbage, paths)
    BY <1>4 DEF IsVisited
  <2>2. /\ u[0] = [stack |-> <<>>, flat |-> <<>>, missing |-> garbage,
                   found |-> [path \in paths |-> 0]]
    BY <2>1 DEF Begin
  <2>3. IsState(u[0], paths) /\ \A path \in paths : u[0].found[path] = 0
    BY <2>2 DEF IsState
  <2>4. Follows(u[0], f, 0) /\ f[0] \in Seq(Names)
    BY <1>2, <2>2 DEF Follows, FlatScope
  <2>5. \A path \in paths : FirstFound(u[0].found[path], path, 0)
    BY <2>3 DEF FirstFound
  <2> QED
    BY <2>3, <2>4, <2>5
<1>6. ASSUME NEW k \in 0..(n - 1), Right(k)
      PROVE  Right(k + 1)
  <2>1. PICK j \in 1..n : j = k + 1 /\ j - 1 = k
    <3>1. k + 1 \in 1..n /\ (k + 1) - 1 = k
      OBVIOUS
    <3> QED
      BY <3>1
  <2>2. u[j] = Visit(u[k], Pass.items[j])
    <3>1. j \in 0..n /\ j # 0
      BY <2>1
    <3> QED
      BY <1>4, <2>1, <3>1 DEF IsVisited
  <2>3. StackRight(f, hier, told, j) /\ f[j] \in Seq(Names)
    BY <1>2 DEF StackRight
  <2>4. /\ f[j - 1] \in Seq(Names) /\ IsState(u[k], paths) /\ Follows(u[k], f, j - 1)
        /\ \A path \in paths : Findable(path) => FirstFound(u[k].found[path], path, j - 1)
    BY <1>6, <2>1
  <2>5. /\ IsState(u[j], paths) /\ Follows(u[j], f, j)
        /\ \A path \in paths : Findable(path) /\ FirstFound(u[k].found[path], path, j - 1) =>
                FirstFound(u[j].found[path], path, j)
    BY <1>1, <2>2, <2>3, <2>4, VisitRight
  <2>6. Right(j)
    BY <2>3, <2>4, <2>5
  <2> QED
    BY <2>1, <2>6
<1>7. \A k \in 0..(n - 1) : k \in S => k + 1 \in S
  <2>1. \A k \in 0..(n - 1) : k + 1 \in 0..n
    OBVIOUS
  <2> HIDE DEF Right
  <2> QED
    BY <1>6, <2>1
<1> HIDE DEF S
<1>8. 0..n \subseteq S
  BY <1>5, <1>7, Facts!SetInductionUpTo
<1>9. Right(n)
  <2> HIDE DEF Right
  <2>1. n \in S
    BY <1>8
  <2> QED
    BY <2>1 DEF S
<1>10. s = u[n]
  BY <1>1, <1>3
<1> QED
  BY <1>1, <1>2, <1>9, <1>10 DEF Follows

\* That is what a signal's handle should be.
LEMMA HandleOfIs ==
  ASSUME HierInv, NEW x, NEW path, FirstFound(x, path, Len(hier))
  PROVE  x = HandleOf(path)
<1>1. PICK n \in Nat : n = Len(hier) /\ DOMAIN hier = 1..n
  BY DEF HierInv, HierTypes
<1>2. DeclaredAs(path) \subseteq 1..n
  BY <1>1 DEF DeclaredAs
<1>3. CASE DeclaredAs(path) = {}
  BY <1>1, <1>3 DEF FirstFound, HandleOf
<1>4. CASE DeclaredAs(path) # {}
  <2>1. PICK m \in 1..n :
          /\ m \in DeclaredAs(path) /\ \A i \in 1..(m - 1) : i \notin DeclaredAs(path)
          /\ x = told[m].handle
    BY <1>1, <1>2, <1>4 DEF FirstFound
  <2>2. \A j \in DeclaredAs(path) : m <= j
    <3> SUFFICES ASSUME NEW j \in DeclaredAs(path), ~(m <= j) PROVE FALSE
      OBVIOUS
    <3>1. j \in 1..(m - 1)
      BY <1>2, <2>1
    <3> QED
      BY <2>1, <3>1
  <2>3. ASSUME NEW k \in DeclaredAs(path), \A j \in DeclaredAs(path) : k <= j
        PROVE  k = m
    <3>1. k <= m /\ m <= k /\ k \in Int
      BY <1>2, <2>1, <2>2, <2>3
    <3> QED
      BY <3>1
  <2>4. (CHOOSE k \in DeclaredAs(path) : \A j \in DeclaredAs(path) : k <= j) = m
    BY <2>1, <2>2, <2>3
  <2>5. HandleOf(path)
          = told[CHOOSE k \in DeclaredAs(path) : \A j \in DeclaredAs(path) : k <= j].handle
    BY Zenon, <1>4 DEF HandleOf
  <2> QED
    BY Zenon, <2>1, <2>4, <2>5
<1> QED
  BY <1>3, <1>4

------------------------------------------------------------------------------
(* What a call returns. *)

\* After a variable that found no signal without a handle, none is.
Sound(s, paths, k) ==
    (\E j \in 1..k : hier[j].tag = "var") /\ ~s.missing => \A path \in paths : s.found[path] # 0

\* A record keeps it so, wherever the call started.
LEMMA VisitSound ==
  ASSUME NEW n \in Nat, DOMAIN hier = 1..n, NEW k \in 1..n, NEW paths, NEW s, NEW t,
         IsState(s, paths), Sound(s, paths, k - 1), t = Visit(s, Pass.items[k])
  PROVE  IsState(t, paths) /\ Sound(t, paths, k)
<1> DEFINE item == Pass.items[k]
<1>1. item.tag = hier[k].tag
  BY ItemIs
<1> HIDE DEF item
<1>2. IsState(t, paths) /\ Looked(s, t, paths, item)
  BY VisitDoes DEF item
<1>3. CASE hier[k].tag = "var"
  <2> SUFFICES ASSUME ~t.missing, NEW path \in paths
               PROVE  t.found[path] # 0
    BY <1>2 DEF Sound
  <2>1. /\ t.missing = AnyMissing(s)
        /\ t.found[path] = IF Matches(s, path, item) THEN item.handle ELSE s.found[path]
    BY <1>1, <1>2, <1>3 DEF Looked
  <2>2. DOMAIN s.found = paths
    BY DEF IsState
  <2>3. s.found[path] # 0
    BY <2>1, <2>2 DEF AnyMissing
  <2> QED
    BY <2>1, <2>3 DEF Matches
<1>4. CASE hier[k].tag # "var"
  <2>1. t.missing = s.missing /\ t.found = s.found
    BY <1>1, <1>2, <1>4 DEF Looked
  <2>2. \A j \in 1..k : j \in 1..(k - 1) \/ j = k
    OBVIOUS
  <2>3. (\E j \in 1..k : hier[j].tag = "var") => \E j \in 1..(k - 1) : hier[j].tag = "var"
    BY <1>4, <2>2
  <2> QED
    BY <1>2, <2>1, <2>3 DEF Sound
<1> QED
  BY <1>3, <1>4

\* So it is at the end.
LEMMA CallSound ==
  ASSUME HierInv, NEW stack, NEW garbage, NEW paths,
         NEW s, s = Visited(stack, garbage, paths)[Len(hier)]
  PROVE  Sound(s, paths, Len(hier))
<1>1. PICK n \in Nat : n = Len(hier) /\ DOMAIN hier = 1..n
  BY DEF HierInv, HierTypes
<1>2. PICK u : u = Visited(stack, garbage, paths)
  OBVIOUS
<1>3. \A k \in 0..n : IsVisited(u, stack, garbage, paths, k)
  BY <1>1, <1>2, VisitedIs
<1> DEFINE S == {k \in 0..n : IsState(u[k], paths) /\ Sound(u[k], paths, k)}
<1>4. 0 \in S
  <2>1. u[0] = Begin(stack, garbage, paths)
    BY <1>3 DEF IsVisited
  <2>2. u[0] = [stack |-> stack, flat |-> <<>>, missing |-> garbage,
                found |-> [path \in paths |-> 0]]
    BY <2>1 DEF Begin
  <2>3. IsState(u[0], paths)
    BY <2>2 DEF IsState
  <2>4. Sound(u[0], paths, 0)
    BY DEF Sound
  <2> QED
    BY <2>3, <2>4
<1>5. ASSUME NEW k \in 0..(n - 1), IsState(u[k], paths) /\ Sound(u[k], paths, k)
      PROVE  IsState(u[k + 1], paths) /\ Sound(u[k + 1], paths, k + 1)
  <2>1. PICK j \in 1..n : j = k + 1 /\ j - 1 = k
    <3>1. k + 1 \in 1..n /\ (k + 1) - 1 = k
      OBVIOUS
    <3> QED
      BY <3>1
  <2>2. u[j] = Visit(u[k], Pass.items[j])
    <3>1. j \in 0..n /\ j # 0
      BY <2>1
    <3> QED
      BY <1>3, <2>1, <3>1 DEF IsVisited
  <2>3. IsState(u[k], paths) /\ Sound(u[k], paths, j - 1)
    BY <1>5, <2>1
  <2> QED
    BY <1>1, <2>1, <2>2, <2>3, VisitSound
<1>6. \A k \in 0..(n - 1) : k \in S => k + 1 \in S
  <2>1. \A k \in 0..(n - 1) : k + 1 \in 0..n
    OBVIOUS
  <2> QED
    BY <1>5, <2>1
<1> HIDE DEF S
<1>7. 0..n \subseteq S
  BY <1>4, <1>6, Facts!SetInductionUpTo
<1>8. Sound(u[n], paths, n)
  <2>1. n \in S
    BY <1>7
  <2> QED
    BY <2>1 DEF S
<1> QED
  BY <1>1, <1>2, <1>8

------------------------------------------------------------------------------
(* The steps of writer and reader. *)

\* The first call starts outside all scopes; so does a later one when the
\* simulator left all of them.
ReaderInv ==
    /\ results \in Seq(ToSet(results))
    /\ results = <<>> \/ open = <<>> => scopes = <<>>
    /\ FoundRight /\ TrueMeansFound

\* The inductive invariant of the hierarchy with its reader.
FoundInv ==
    HierInv /\ ScanFits(hier, geom) /\ ScopesRight(hier, told, open) /\ ReaderInv

\* Nothing is declared, nothing was looked for.
LEMMA FoundStarts == HierInit => FoundInv
<1> SUFFICES ASSUME HierInit PROVE FoundInv
  OBVIOUS
<1>1. HierInv
  BY HierStarts
<1>2. hier = <<>> /\ geom = <<>> /\ told = <<>> /\ open = <<>> /\ scopes = <<>> /\ results = <<>>
  BY DEF HierInit
<1>3. ScanFits(<<>>, <<>>)
  <2> DEFINE z == [lens |-> <<>>, reals |-> {}]
             f == [k \in 0..0 |-> z]
  <2>1. Len(<<>>) = 0 /\ DOMAIN <<>> = {}
    OBVIOUS
  <2>2. Fits(z, <<>>)
    BY <2>1 DEF Fits
  <2> HIDE DEF z
  <2>3. f = [k \in 0..Len(<<>>) |-> IF k = 0 THEN z ELSE ProcessVar(f[k - 1], <<>>[k])]
    BY <2>1
  <2>4. f[Len(<<>>)] = z
    BY <2>1
  <2> HIDE DEF f
  <2>5. Scans(f, <<>>)
    BY <2>3 DEF Scans, z
  <2> QED
    BY <2>2, <2>4, <2>5 DEF ScanFits
<1>4. ScopesRight(<<>>, <<>>, <<>>)
  <2>1. PICK f : f = [k \in 0..0 |-> <<>>]
    OBVIOUS
  <2>2. f[0] = <<>> /\ Len(<<>>) = 0
    BY <2>1
  <2>3. Mirrors(<<>>, <<>>)
    BY DEF Mirrors
  <2> QED
    BY <2>2, <2>3 DEF ScopesRight
<1>5. ReaderInv
  BY <1>2 DEF ReaderInv, FoundRight, TrueMeansFound
<1> QED
  BY <1>1, <1>2, <1>3, <1>4, <1>5 DEF FoundInv

\* The writer, before anything was looked for.
LEMMA DeclareKeeps ==
  ASSUME FoundInv, HierInv', Declare
  PROVE  FoundInv'
<1>1. /\ HierTypes /\ geom \in Seq(ToSet(geom)) /\ Len(hier) = Len(told)
      /\ ScanFits(hier, geom) /\ ScopesRight(hier, told, open)
  BY DEF FoundInv, HierInv, HierTypes
<1>2. results = <<>> /\ UNCHANGED readerVars
  BY DEF Declare, SetScope, SetUpscope, CreateVar, CreateVar2, SetSourceStem, CreateEnumTable,
     EmitEnumTableRef, SetComment, SetAttrEnd, Write
<1>3. ReaderInv'
  BY <1>2 DEF ReaderInv, FoundInv, FoundRight, TrueMeansFound, readerVars
<1>4. CASE Adds(hier, told, geom, open, hier', told', geom', open')
  BY <1>1, <1>3, <1>4, FitsAdds, ScopesAdd DEF FoundInv
<1>5. CASE \E h, k : /\ Adds(hier, told, geom, open, h, k, geom, open)
                     /\ Adds(h, k, geom, open, hier', told', geom', open')
  <2>1. PICK h, k : /\ Adds(hier, told, geom, open, h, k, geom, open)
                    /\ Adds(h, k, geom, open, hier', told', geom', open')
    BY <1>5
  <2>2. Len(h) = Len(k)
    BY <1>1, <2>1 DEF Adds, Grows
  <2>3. ScanFits(h, geom) /\ ScopesRight(h, k, open)
    BY <1>1, <2>1, FitsAdds, ScopesAdd
  <2>4. ScanFits(hier', geom')
    BY <1>1, <2>1, <2>3, FitsAdds
  <2>5. ScopesRight(hier', told', open')
    BY <2>1, <2>2, <2>3, ScopesAdd
  <2> QED
    BY <1>3, <2>4, <2>5 DEF FoundInv
<1> QED
  BY <1>1, <1>4, <1>5, DeclareAdds

\* The reader.
LEMMA AssignKeeps ==
  ASSUME FoundInv, HierInv', AssignHandles
  PROVE  FoundInv'
<1>1. /\ HierInv /\ ScanFits(hier, geom) /\ ScopesRight(hier, told, open) /\ ReaderInv
      /\ UNCHANGED writerVars
  BY DEF FoundInv, AssignHandles
<1>2. PICK n : n = Len(results) + 1
  OBVIOUS
<1>3. PICK garbage, s :
        /\ garbage \in BOOLEAN /\ n \in DOMAIN Lists
        /\ s = Visited(scopes, garbage, Lists[n])[Len(hier)]
        /\ results' = Append(results, [found |-> s.found, returned |-> ~s.missing])
        /\ scopes' = s.stack
  BY <1>2 DEF AssignHandles
<1>4. /\ results' \in Seq(ToSet(results'))
      /\ DOMAIN results' = 1..n /\ n \in Nat /\ n >= 1
      /\ \A k \in 1..(n - 1) : k \in DOMAIN results /\ results'[k] = results[k]
      /\ results'[n] = [found |-> s.found, returned |-> ~s.missing]
  BY <1>1, <1>2, <1>3, AppendIs DEF ReaderInv
<1>5. Lists[n] \in SUBSET Seq(Letters)
  BY <1>3, ListsAssumption, Lettered
<1>6. \A k \in 1..n : k \in 1..(n - 1) \/ k = n
  BY <1>4
\* The call starts where all scopes are left.
<1>7. n = 1 \/ open = <<>> =>
        /\ Mirrors(s.stack, open)
        /\ \A path \in Lists[n] : Findable(path) => s.found[path] = HandleOf(path)
  <2> SUFFICES ASSUME n = 1 \/ open = <<>>
               PROVE  /\ Mirrors(s.stack, open)
                      /\ \A path \in Lists[n] : Findable(path) => s.found[path] = HandleOf(path)
    OBVIOUS
  <2>1. n = 1 => results = <<>>
    BY <1>1, <1>2 DEF ReaderInv
  <2>2. scopes = <<>>
    BY <1>1, <2>1 DEF ReaderInv
  <2>3. /\ Mirrors(s.stack, open)
        /\ \A path \in Lists[n] : Findable(path) => FirstFound(s.found[path], path, Len(hier))
    BY <1>1, <1>3, <1>5, <2>2, CallRight
  <2> QED
    BY <1>1, <2>3, HandleOfIs
<1>8. Sound(s, Lists[n], Len(hier))
  BY <1>1, <1>3, CallSound
<1>9. /\ hier' = hier /\ told' = told /\ open' = open
      /\ \A path : Findable(path)' = Findable(path) /\ HandleOf(path)' = HandleOf(path)
  BY <1>1 DEF writerVars, Findable, HandleOf, DeclaredAs
<1>10. FoundRight'
  <2> SUFFICES ASSUME NEW k \in 1..n, k = 1 \/ open = <<>>,
                      NEW path \in Lists[k], Findable(path)
               PROVE  results'[k].found[path] = HandleOf(path)
    BY <1>4, <1>9 DEF FoundRight
  <2>1. CASE k = n
    BY <1>4, <1>7, <2>1
  <2>2. CASE k # n
    BY <1>1, <1>4, <1>6, <2>2 DEF ReaderInv, FoundRight
  <2> QED
    BY <2>1, <2>2
<1>11. TrueMeansFound'
  <2> SUFFICES ASSUME \E k \in DOMAIN hier : hier[k].tag = "var",
                      NEW k \in 1..n, results'[k].returned, NEW path \in Lists[k]
               PROVE  results'[k].found[path] # 0
    BY <1>4, <1>9 DEF TrueMeansFound, AllFound
  <2>1. CASE k = n
    <3>1. ~s.missing /\ results'[k].found = s.found
      <4>1. PICK r : r = ~s.missing
        OBVIOUS
      <4>2. results'[n] = [found |-> s.found, returned |-> r]
        BY Zenon, <1>4, <4>1
      <4>3. results'[n].returned = r /\ results'[n].found = s.found
        BY <4>2
      <4>4. r
        BY Zenon, <2>1, <4>3
      <4> QED
        BY Zenon, <2>1, <4>1, <4>3, <4>4
    <3>2. DOMAIN hier = 1..Len(hier)
      BY <1>1 DEF HierInv, HierTypes
    <3> QED
      BY <1>8, <2>1, <3>1, <3>2 DEF Sound
  <2>2. CASE k # n
    BY <1>1, <1>4, <1>6, <2>2 DEF ReaderInv, TrueMeansFound, AllFound
  <2> QED
    BY <2>1, <2>2
<1>12. results' = <<>> \/ open' = <<>> => scopes' = <<>>
  <2>1. results' # <<>>
    BY <1>4
  <2>2. open = <<>> => s.stack = <<>>
    BY <1>7, TopIsFlat
  <2> QED
    BY <1>3, <1>9, <2>1, <2>2
<1>13. ReaderInv'
  BY <1>4, <1>10, <1>11, <1>12 DEF ReaderInv
<1> QED
  BY <1>1, <1>13 DEF FoundInv, writerVars

\* Every step keeps the invariant.
LEMMA FoundSteps == FoundInv /\ [HierNext]_hierVars => FoundInv'
<1> SUFFICES ASSUME FoundInv, [HierNext]_hierVars
             PROVE  FoundInv'
  OBVIOUS
<1>1. HierInv'
  BY HierSteps DEF FoundInv
<1>2. CASE Declare
  BY <1>1, <1>2, DeclareKeeps
<1>3. CASE AssignHandles
  BY <1>1, <1>3, AssignKeeps
<1>4. CASE UNCHANGED hierVars
  <2>1. /\ ScanFits(hier, geom)' = ScanFits(hier, geom)
        /\ ScopesRight(hier, told, open)' = ScopesRight(hier, told, open)
    BY <1>4 DEF hierVars, writerVars
  <2>2. ReaderInv => ReaderInv'
    BY <1>4 DEF ReaderInv, FoundRight, TrueMeansFound, AllFound, Findable, HandleOf, DeclaredAs,
       hierVars, writerVars, readerVars
  <2> QED
    BY <1>1, <2>1, <2>2 DEF FoundInv
<1> QED
  BY <1>2, <1>3, <1>4 DEF HierNext

\* The invariant holds in every state.
THEOREM FoundInvariance == HierSpec => []FoundInv
  BY FoundStarts, FoundSteps, PTL DEF HierSpec

\* The lengths and the kinds that fstReaderInit takes from the geometry of a
\* finished file are those that fstReaderProcessHier counts in the hierarchy of
\* an unfinished one.
THEOREM GeometryRight == HierSpec => []GeometryAgrees
<1>1. FoundInv => GeometryAgrees
  <2> SUFFICES ASSUME FoundInv PROVE LensOfGeom = LensOfHier
    BY DEF GeometryAgrees
  <2>1. PICK f : Scans(f, hier) /\ Fits(f[Len(hier)], geom)
    BY DEF FoundInv, ScanFits
  <2>2. PICK s : s = f[Len(hier)]
    OBVIOUS
  <2>3. LensOfHier = [i \in DOMAIN s.lens |-> [len |-> s.lens[i], real |-> i \in s.reals]]
    BY <2>1, <2>2, LensOfHierIs DEF FoundInv, HierInv, HierTypes
  <2>4. /\ DOMAIN s.lens = DOMAIN geom
        /\ \A i \in DOMAIN geom : LenOfCode(geom[i]) = [len |-> s.lens[i], real |-> i \in s.reals]
    BY <2>1, <2>2 DEF Fits
  <2> QED
    BY <2>3, <2>4 DEF LensOfGeom
<1> QED
  BY <1>1, FoundInvariance, PTL

\* FstProcess::assignHandles gives a signal the handle of the first variable
\* declared under its full name, and none to one that was not declared: in the
\* first call always, in a later one when all scopes were left.
THEOREM SignalsFound == HierSpec => []FoundRight
<1>1. FoundInv => FoundRight
  BY DEF FoundInv, ReaderInv
<1> QED
  BY <1>1, FoundInvariance, PTL

\* When assignHandles returns true over at least one variable, every signal has
\* a handle, whatever scopes and names were declared.
THEOREM TrueIsFound == HierSpec => []TrueMeansFound
<1>1. FoundInv => TrueMeansFound
  BY DEF FoundInv, ReaderInv
<1> QED
  BY <1>1, FoundInvariance, PTL

=============================================================================

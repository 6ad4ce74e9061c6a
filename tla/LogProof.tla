------------------------------ MODULE LogProof ------------------------------
(***************************************************************************)
(* Proofs about LogFile, for files and views of any size and any number of *)
(* lines: no file outgrows the limit, the view skips nothing it could have *)
(* read, and it is told of every line.                                     *)
(***************************************************************************)
EXTENDS LogFile, SequenceTheorems, FiniteSetTheorems, TLAPS

---------------------------------------------------------------------------
(* Types *)

LineNumbers == 0..MaxLines

\* A writer that is about to write has a position behind the lines so far.
PosInv ==
  /\ pos <= written
  /\ writer \in {"rename", "reopen", "truncate", "write"} => pos < written

FilesTyped ==
  /\ data \in [Names -> Seq(LineNumbers) \cup {NoFile}]
  /\ handle \in Names /\ data[handle] # NoFile
  /\ data["gone"] # NoFile => handle = "gone"

WriterTyped ==
  /\ append \in BOOLEAN /\ pos \in LineNumbers
  /\ writer \in {"idle", "rename", "reopen", "truncate", "write", "notify"}
  /\ written \in LineNumbers
  /\ PosInv

ViewTyped ==
  /\ shown \in Seq(LineNumbers) /\ Len(shown) <= MaxShown
  /\ offset \in Nat /\ len \in Nat
  /\ viewer \in {"idle", "stat", "read"}
  /\ task \in {"off", "waiting", "delay"}
  /\ unseen \in BOOLEAN /\ (unseen => task # "off")

HistoryTyped == news \in BOOLEAN /\ replaced \in BOOLEAN

TypeInv == FilesTyped /\ WriterTyped /\ ViewTyped /\ HistoryTyped

\* The parts make up TypeOK.
LEMMA TypesImplied == TypeInv => TypeOK
BY DEF TypeInv, TypeOK, FilesTyped, WriterTyped, ViewTyped, HistoryTyped, LineNumbers

\* NoFile is not the content of a file.
LEMMA FilesAreSequences ==
  /\ <<>> \in Seq(LineNumbers) /\ NoFile \notin Seq(LineNumbers) /\ <<>> # NoFile
  /\ \A d \in Seq(LineNumbers) : d \in Seq(Nat) /\ Len(d) \in Nat
<1>1. LineNumbers \subseteq Nat
  BY LogAssumption DEF LineNumbers
<1>2. <<>> \in Seq(LineNumbers)
  BY EmptySeq
<1>3. \A d \in Seq(LineNumbers) : d \in Seq(Nat) /\ Len(d) \in Nat
  BY <1>1, SeqMonotonic, LenProperties
<1> QED
  BY <1>2, <1>3, LogAssumption

\* The hole a writer leaves that does not append.
Gap(n) == [i \in 1..n |-> Hole]

\* A hole is a sequence, also one of no length or less.
LEMMA GapType ==
  ASSUME NEW n \in Int
  PROVE  /\ Gap(n) \in Seq(LineNumbers)
         /\ \A i \in 1..Len(Gap(n)) : Gap(n)[i] = Hole
<1>1. Hole \in LineNumbers
  BY LogAssumption DEF Hole, LineNumbers
<1>2. CASE n >= 0
  <2>1. n \in Nat /\ Gap(n) \in [1..n -> LineNumbers]
    BY <1>1, <1>2 DEF Gap
  <2>2. Gap(n) \in Seq(LineNumbers)
    BY <2>1, SeqDef
  <2> QED
    BY <2>2, LenProperties DEF Gap
<1>3. CASE n < 0
  <2>1. 1..n = 1..0
    BY <1>3
  <2>2. Gap(n) \in [1..0 -> LineNumbers]
    BY <1>1, <2>1 DEF Gap
  <2>3. Gap(n) \in Seq(LineNumbers)
    BY <2>2, SeqDef
  <2> QED
    BY <2>3, LenProperties DEF Gap
<1> QED
  BY <1>2, <1>3

\* What Put makes of a file.
Extended(d) == d \o (IF append THEN <<>> ELSE Gap(pos - Len(d))) \o <<written>>

\* Its three parts: what was there, the hole if any, and the line.
LEMMA ExtendedType ==
  ASSUME TypeOK, NEW d \in Seq(LineNumbers)
  PROVE  \E g \in Seq(LineNumbers) :
           /\ \A i \in 1..Len(g) : g[i] = Hole
           /\ Extended(d) \in Seq(LineNumbers)
           /\ Len(Extended(d)) = Len(d) + Len(g) + 1
           /\ \A i \in 1..Len(Extended(d)) :
                Extended(d)[i] = IF i <= Len(d) THEN d[i]
                                 ELSE IF i <= Len(d) + Len(g) THEN Hole ELSE written
<1> DEFINE g == IF append THEN <<>> ELSE Gap(pos - Len(d))
<1>1. Len(d) \in Nat /\ pos - Len(d) \in Int
  BY LenProperties DEF TypeOK
<1>2. g \in Seq(LineNumbers) /\ \A i \in 1..Len(g) : g[i] = Hole
  <2>1. CASE append
    <3>1. g = <<>> /\ Len(<<>>) = 0 /\ <<>> \in Seq(LineNumbers)
      BY <2>1, EmptySeq
    <3>2. ASSUME NEW i \in 1..Len(g) PROVE FALSE
      BY <3>1
    <3> QED
      BY <3>1, <3>2
  <2>2. CASE ~append
    BY <2>2, <1>1, GapType
  <2> QED
    BY <2>1, <2>2
<1>3. <<written>> \in Seq(LineNumbers) /\ Len(<<written>>) = 1 /\ <<written>>[1] = written
  BY DEF TypeOK, LineNumbers
<1> HIDE DEF g
<1>4. /\ d \o g \in Seq(LineNumbers) /\ Len(g) \in Nat /\ Len(d \o g) = Len(d) + Len(g)
      /\ \A i \in 1..Len(d) + Len(g) : (d \o g)[i] = IF i <= Len(d) THEN d[i] ELSE g[i - Len(d)]
  BY <1>2, ConcatProperties, LenProperties
<1>5. /\ (d \o g) \o <<written>> \in Seq(LineNumbers)
      /\ Len((d \o g) \o <<written>>) = Len(d) + Len(g) + 1
      /\ \A i \in 1..Len(d) + Len(g) + 1 :
           ((d \o g) \o <<written>>)[i] =
             IF i <= Len(d) + Len(g) THEN (d \o g)[i] ELSE <<written>>[i - (Len(d) + Len(g))]
  BY <1>3, <1>4, ConcatProperties
<1>6. Extended(d) = (d \o g) \o <<written>>
  BY DEF Extended, g
<1>7. ASSUME NEW i \in 1..Len(Extended(d))
      PROVE  Extended(d)[i] = IF i <= Len(d) THEN d[i]
                              ELSE IF i <= Len(d) + Len(g) THEN Hole ELSE written
  <2>1. i \in 1..Len(d) + Len(g) + 1
    BY <1>5, <1>6
  <2>2. CASE i <= Len(d) + Len(g)
    <3>1. i \in 1..Len(d) + Len(g) /\ (i <= Len(d) \/ i - Len(d) \in 1..Len(g))
      BY <2>1, <2>2, <1>1, <1>4
    <3> QED
      BY <3>1, <2>1, <2>2, <1>2, <1>4, <1>5, <1>6
  <2>3. CASE i > Len(d) + Len(g)
    <3>1. Len(d) \in Nat /\ Len(g) \in Nat
      BY <1>1, <1>4
    <3>2. i = Len(d) + Len(g) + 1 /\ ~(i <= Len(d)) /\ ~(i <= Len(d) + Len(g))
      BY <3>1, <2>1, <2>3
    <3>3. i - (Len(d) + Len(g)) = 1
      BY <3>1, <3>2
    <3> QED
      BY <3>2, <3>3, <2>1, <1>3, <1>5, <1>6
  <2> QED
    BY <2>1, <2>2, <2>3, <1>1, <1>4
<1> QED
  BY <1>2, <1>5, <1>6, <1>7

\* An empty log, and nothing else.
LEMMA InitType == Init => TypeInv
<1> SUFFICES ASSUME Init PROVE TypeInv
  OBVIOUS
<1>1. <<>> \in Seq(LineNumbers) /\ <<>> # NoFile
  BY FilesAreSequences
<1>2. 0 \in LineNumbers /\ Len(<<>>) = 0 /\ 0 <= MaxShown
  BY LogAssumption, EmptySeq DEF LineNumbers
<1>3. FilesTyped
  <2>1. data \in [Names -> Seq(LineNumbers) \cup {NoFile}]
    BY <1>1 DEF Init
  <2>2. data["log"] # NoFile /\ data["gone"] = NoFile
    BY <1>1 DEF Init, Names
  <2> QED
    BY <2>1, <2>2 DEF Init, FilesTyped, Names
<1>4. WriterTyped
  BY <1>2 DEF Init, WriterTyped, PosInv
<1>5. ViewTyped
  BY <1>1, <1>2 DEF Init, ViewTyped
<1>6. HistoryTyped
  BY DEF Init, HistoryTyped
<1> QED
  BY <1>3, <1>4, <1>5, <1>6 DEF TypeInv

\* A file that is opened anew is the writer's, from its start.
LEMMA OpenedType ==
  ASSUME FilesTyped, WriterTyped, NEW content \in Seq(LineNumbers), NEW b \in BOOLEAN,
         Opened(content, b), written' = written, pos < written
  PROVE  FilesTyped' /\ WriterTyped'
<1>1. content # NoFile
  BY FilesAreSequences
<1>2. FilesTyped'
  BY <1>1 DEF FilesTyped, Opened, Names
<1>3. WriterTyped'
  BY LogAssumption DEF WriterTyped, Opened, PosInv, LineNumbers
<1> QED
  BY <1>2, <1>3

\* The writer keeps the types.
LEMMA WriteType == TypeInv /\ Write => TypeInv'
<1> SUFFICES ASSUME TypeInv, Write PROVE TypeInv'
  OBVIOUS
<1>0. FilesTyped /\ WriterTyped /\ ViewTyped /\ HistoryTyped
  BY DEF TypeInv
<1>1. CASE Check
  <2>1. FilesTyped' /\ HistoryTyped' /\ ViewTyped'
    BY <1>0, <1>1 DEF Check, FilesTyped, HistoryTyped, ViewTyped, file, view
  <2>2. WriterTyped'
    BY <1>0, <1>1, LogAssumption DEF Check, WriterTyped, PosInv, file, LineNumbers
  <2> QED
    BY <2>1, <2>2 DEF TypeInv
<1>2. CASE Rename
  <2>1. ViewTyped' /\ HistoryTyped'
    BY <1>0, <1>2 DEF Rename, HistoryTyped, ViewTyped, view
  <2>2. WriterTyped'
    BY <1>0, <1>2 DEF Rename, WriterTyped, PosInv, LineNumbers
  <2>3. FilesTyped'
    BY <1>0, <1>2 DEF Rename, FilesTyped, Unlinked, Names
  <2> QED
    BY <2>1, <2>2, <2>3 DEF TypeInv
<1>3. CASE RenameFails
  <2>1. ViewTyped' /\ HistoryTyped'
    BY <1>0, <1>3 DEF RenameFails, HistoryTyped, ViewTyped, view
  <2>2. WriterTyped'
    BY <1>0, <1>3 DEF RenameFails, WriterTyped, PosInv, LineNumbers
  <2>3. FilesTyped'
    BY <1>0, <1>3 DEF RenameFails, FilesTyped, Unlinked, Names
  <2> QED
    BY <2>1, <2>2, <2>3 DEF TypeInv
<1>4. CASE Reopen
  <2>1. ViewTyped' /\ HistoryTyped'
    BY <1>0, <1>4 DEF Reopen, HistoryTyped, ViewTyped, view
  <2>2. (IF data["log"] = NoFile THEN <<>> ELSE data["log"]) \in Seq(LineNumbers)
    BY <1>0, FilesAreSequences DEF FilesTyped, Names
  <2>3. pos < written /\ written' = written
    BY <1>0, <1>4 DEF Reopen, WriterTyped, PosInv
  <2>4. FilesTyped' /\ WriterTyped'
    BY <1>0, <1>4, <2>2, <2>3, OpenedType DEF Reopen
  <2> QED
    BY <2>1, <2>4 DEF TypeInv
<1>5. CASE Truncate
  <2>1. ViewTyped' /\ HistoryTyped'
    BY <1>0, <1>5 DEF Truncate, HistoryTyped, ViewTyped, view
  <2>2. <<>> \in Seq(LineNumbers)
    BY FilesAreSequences
  <2>3. pos < written /\ written' = written
    BY <1>0, <1>5 DEF Truncate, WriterTyped, PosInv
  <2>4. FilesTyped' /\ WriterTyped'
    BY <1>0, <1>5, <2>2, <2>3, OpenedType DEF Truncate
  <2> QED
    BY <2>1, <2>4 DEF TypeInv
<1>6. CASE Put
  <2>1. ViewTyped' /\ HistoryTyped'
    BY <1>0, <1>6 DEF Put, HistoryTyped, ViewTyped, view
  <2>2. WriterTyped'
    BY <1>0, <1>6, LogAssumption DEF Put, WriterTyped, PosInv, LineNumbers
  <2>3. data[handle] \in Seq(LineNumbers)
    BY <1>0 DEF FilesTyped
  <2>4. Extended(data[handle]) \in Seq(LineNumbers)
    BY <2>3, ExtendedType, TypesImplied
  <2>5. data' = [data EXCEPT ![handle] = Extended(data[handle])] /\ handle' = handle
    BY <1>6 DEF Put, Extended, Gap
  <2>6. FilesTyped'
    BY <1>0, <2>4, <2>5, FilesAreSequences DEF FilesTyped
  <2> QED
    BY <2>1, <2>2, <2>6 DEF TypeInv
<1>7. CASE WriteFails
  <2>1. FilesTyped' /\ HistoryTyped' /\ ViewTyped'
    BY <1>0, <1>7 DEF WriteFails, FilesTyped, HistoryTyped, ViewTyped, file, view
  <2>2. WriterTyped'
    BY <1>0, <1>7 DEF WriteFails, WriterTyped, PosInv, LineNumbers, file
  <2> QED
    BY <2>1, <2>2 DEF TypeInv
<1>8. CASE Notify
  <2>1. FilesTyped' /\ HistoryTyped' /\ ViewTyped'
    BY <1>0, <1>8 DEF Notify, FilesTyped, HistoryTyped, ViewTyped, file, view
  <2>2. WriterTyped'
    BY <1>0, <1>8 DEF Notify, WriterTyped, PosInv, LineNumbers, file
  <2> QED
    BY <2>1, <2>2 DEF TypeInv
<1> QED
  BY <1>1, <1>2, <1>3, <1>4, <1>5, <1>6, <1>7, <1>8 DEF Write

\* What push_line keeps: all of it, or as many lines as the view may have.
LEMMA PushedLines ==
  ASSUME NEW lines \in Seq(LineNumbers), shown \in Seq(LineNumbers)
  PROVE  /\ Pushed(lines) \in Seq(LineNumbers)
         /\ Len(Pushed(lines)) <= MaxShown
         /\ \/ Len(Pushed(lines)) = MaxShown
            \/ Pushed(lines) = shown \o lines /\ Len(shown) + Len(lines) < MaxShown
<1> DEFINE all == shown \o lines
           first == IF Len(all) > MaxShown THEN Len(all) - MaxShown + 1 ELSE 1
<1>1. all \in Seq(LineNumbers) /\ Len(all) = Len(shown) + Len(lines)
  BY ConcatProperties
<1>2. Len(all) \in Nat /\ DOMAIN all = 1..Len(all) /\ \A i \in 1..Len(all) : all[i] \in LineNumbers
  BY <1>1, LenProperties
<1>3. Pushed(lines) = SubSeq(all, first, Len(all))
  BY DEF Pushed
<1> HIDE DEF all
<1>4. first \in Nat \ {0} /\ \A i \in first..Len(all) : all[i] \in LineNumbers
  BY <1>2, LogAssumption
<1>5. /\ SubSeq(all, first, Len(all)) \in Seq(LineNumbers)
      /\ Len(SubSeq(all, first, Len(all))) =
           IF first <= Len(all) THEN Len(all) - first + 1 ELSE 0
  <2>1. first \in Int /\ Len(all) \in Int
    BY <1>2, <1>4
  <2> HIDE DEF first
  <2> QED
    BY <1>4, <2>1, SubSeqProperties
<1>6. CASE Len(all) >= MaxShown
  <2>1. first = Len(all) - MaxShown + 1 /\ first <= Len(all)
    BY <1>2, <1>6, LogAssumption
  <2>2. Len(all) - first + 1 = MaxShown
    BY <1>2, <2>1, LogAssumption
  <2>3. Len(Pushed(lines)) = MaxShown
    BY <1>3, <1>5, <2>1, <2>2
  <2>4. Pushed(lines) \in Seq(LineNumbers)
    BY <1>3, <1>5
  <2>5. Len(Pushed(lines)) <= MaxShown
    BY <2>3, LogAssumption
  <2> QED
    BY <2>3, <2>4, <2>5
<1>7. CASE Len(all) < MaxShown
  <2>1. first = 1
    BY <1>2, <1>7, LogAssumption
  <2>2. SubSeq(all, 1, Len(all)) = all
    BY <1>1, SubSeqFull
  <2>3. Pushed(lines) = all
    BY <1>3, <2>1, <2>2
  <2>4. Len(all) <= MaxShown
    BY <1>2, <1>7, LogAssumption
  <2>5. Pushed(lines) = shown \o lines
    BY <2>3 DEF all
  <2> QED
    BY <1>1, <1>7, <2>3, <2>4, <2>5
<1> QED
  BY <1>2, <1>6, <1>7, LogAssumption

\* What a file holds behind a position.
LEMMA TailType ==
  ASSUME NEW d \in Seq(LineNumbers), NEW n \in Nat
  PROVE  /\ SubSeq(d, n + 1, Len(d)) \in Seq(LineNumbers)
         /\ \A i \in (n + 1)..Len(d) : i - n \in 1..Len(SubSeq(d, n + 1, Len(d)))
                                       /\ SubSeq(d, n + 1, Len(d))[i - n] = d[i]
<1>1. Len(d) \in Nat /\ n + 1 \in Int /\ \A i \in (n + 1)..Len(d) : d[i] \in LineNumbers
  BY LenProperties
<1>2. /\ SubSeq(d, n + 1, Len(d)) \in Seq(LineNumbers)
      /\ Len(SubSeq(d, n + 1, Len(d))) = IF n + 1 <= Len(d) THEN Len(d) - (n + 1) + 1 ELSE 0
      /\ \A i \in 1..Len(d) - (n + 1) + 1 : SubSeq(d, n + 1, Len(d))[i] = d[(n + 1) + i - 1]
  BY <1>1, SubSeqProperties
<1>3. ASSUME NEW i \in (n + 1)..Len(d)
      PROVE  /\ i - n \in 1..Len(SubSeq(d, n + 1, Len(d)))
             /\ SubSeq(d, n + 1, Len(d))[i - n] = d[i]
  <2>1. i - n \in 1..Len(d) - (n + 1) + 1 /\ (n + 1) + (i - n) - 1 = i /\ n + 1 <= Len(d)
    BY <1>1
  <2> QED
    BY <1>2, <2>1
<1> QED
  BY <1>2, <1>3

\* The window keeps the types.
LEMMA WindowType ==
  ASSUME TypeInv, Window
  PROVE  TypeInv'
<1>0. FilesTyped /\ WriterTyped /\ ViewTyped /\ HistoryTyped
  BY DEF TypeInv
<1>1. CASE OpenLogs \/ CloseLogs \/ Changed \/ Refresh
  <2>1. FilesTyped' /\ HistoryTyped' /\ WriterTyped'
    BY <1>0, <1>1 DEF OpenLogs, CloseLogs, Changed, Refresh, FilesTyped, HistoryTyped,
                      WriterTyped, PosInv, file
  <2>2. ViewTyped'
    BY <1>0, <1>1 DEF OpenLogs, CloseLogs, Changed, Refresh, ViewTyped, view
  <2> QED
    BY <2>1, <2>2 DEF TypeInv
<1>2. CASE Stat
  <2>1. FilesTyped' /\ WriterTyped'
    BY <1>0, <1>2 DEF Stat, FilesTyped, WriterTyped, PosInv, file
  <2>2. HistoryTyped'
    BY <1>0, <1>2 DEF Stat, HistoryTyped
  <2>3. data["log"] # NoFile => Len(data["log"]) \in Nat
    BY <1>0, FilesAreSequences DEF FilesTyped, Names
  <2>4. <<>> \in Seq(LineNumbers) /\ Len(<<>>) <= MaxShown
    BY FilesAreSequences, EmptySeq, LogAssumption
  <2>5. viewer' \in {"idle", "stat", "read"} /\ UNCHANGED <<task, unseen>>
    BY <1>0, <1>2 DEF Stat
  <2>6. /\ len' \in Nat /\ offset' \in {0, offset}
        /\ shown' = <<>> \/ shown' = shown
    BY <1>0, <1>2, <2>3 DEF Stat, ViewTyped
  <2>7. shown' \in Seq(LineNumbers) /\ Len(shown') <= MaxShown
    BY <1>0, <2>4, <2>6 DEF ViewTyped
  <2>8. ViewTyped'
    BY <1>0, <2>5, <2>6, <2>7 DEF ViewTyped
  <2> QED
    BY <2>1, <2>2, <2>8 DEF TypeInv
<1>3. CASE Read
  <2>1. FilesTyped' /\ HistoryTyped' /\ WriterTyped'
    BY <1>0, <1>3 DEF Read, FilesTyped, HistoryTyped, WriterTyped, PosInv, file
  <2>2. SubSeq(data["log"], offset + 1, Len(data["log"])) \in Seq(LineNumbers)
    BY <1>0, <1>3, TailType DEF Read, FilesTyped, ViewTyped, Names
  <2>3. shown' \in Seq(LineNumbers) /\ Len(shown') <= MaxShown
    BY <1>0, <1>3, <2>2, PushedLines DEF Read, ViewTyped
  <2>4. ViewTyped'
    BY <1>0, <1>3, <2>3 DEF Read, ViewTyped
  <2> QED
    BY <2>1, <2>4 DEF TypeInv
<1>4. CASE ReadNothing \/ ReadFails
  <2>1. FilesTyped' /\ HistoryTyped' /\ WriterTyped'
    BY <1>0, <1>4 DEF ReadNothing, ReadFails, FilesTyped, HistoryTyped, WriterTyped, PosInv, file
  <2>2. offset' \in {0, offset} /\ viewer' = "idle" /\ UNCHANGED <<shown, len, task, unseen>>
    BY <1>4 DEF ReadNothing, ReadFails
  <2>3. ViewTyped'
    BY <1>0, <2>2 DEF ViewTyped
  <2> QED
    BY <2>1, <2>3 DEF TypeInv
<1>5. CASE Clear
  <2>1. <<>> \in Seq(LineNumbers) /\ <<>> # NoFile /\ Len(<<>>) <= MaxShown
    BY FilesAreSequences, EmptySeq, LogAssumption
  <2>2. HistoryTyped' /\ WriterTyped'
    BY <1>0, <1>5 DEF Clear, HistoryTyped, WriterTyped, PosInv
  <2>3. FilesTyped'
    BY <1>0, <1>5, <2>1 DEF Clear, FilesTyped, Names
  <2>4. ViewTyped'
    BY <1>0, <1>5, <2>1 DEF Clear, ViewTyped
  <2> QED
    BY <2>2, <2>3, <2>4 DEF TypeInv
<1> QED
  BY <1>1, <1>2, <1>3, <1>4, <1>5 DEF Window, ReadNew

\* A deleted file stays with the writer that has it open.
LEMMA DeleteType ==
  ASSUME TypeInv, UNCHANGED vars \/ \E f \in {"log", "old"} : Delete(f)
  PROVE  TypeInv'
<1>0. FilesTyped /\ WriterTyped /\ ViewTyped /\ HistoryTyped
  BY DEF TypeInv
<1>1. CASE UNCHANGED vars
  BY <1>0, <1>1 DEF TypeInv, vars, file, view, FilesTyped, WriterTyped, PosInv, ViewTyped,
                    HistoryTyped
<1>2. ASSUME NEW f \in {"log", "old"}, Delete(f)
      PROVE  TypeInv'
  <2>1. ViewTyped' /\ HistoryTyped' /\ WriterTyped'
    BY <1>0, <1>2 DEF Delete, HistoryTyped, WriterTyped, PosInv, ViewTyped, view
  <2>2. FilesTyped'
    BY <1>0, <1>2 DEF Delete, FilesTyped, Unlinked, Names
  <2> QED
    BY <2>1, <2>2 DEF TypeInv
<1> QED
  BY <1>1, <1>2

\* Every variable keeps its type, the view its limit, and the writer a file.
THEOREM TypeCorrect == Spec => []TypeOK
<1>1. TypeInv /\ [Next]_vars => TypeInv'
  BY WriteType, WindowType, DeleteType DEF Next
<1> QED
  BY InitType, <1>1, TypesImplied, PTL DEF Spec

---------------------------------------------------------------------------
(* The disk *)

\* A line is written only where it fits, and a log that has just been moved
\* away can only have been created again by Clear.
Fits ==
  /\ writer = "write" => Cardinality(Lines(data[handle])) < MaxSize
  /\ writer = "reopen" => data["log"] \in {NoFile, <<>>}

\* A file has at most as many lines as positions.
LEMMA LinesFinite ==
  ASSUME NEW d \in Seq(LineNumbers)
  PROVE  /\ IsFiniteSet(Lines(d)) /\ Cardinality(Lines(d)) \in Nat
         /\ Cardinality(Lines(d)) <= Len(d)
<1>1. Len(d) \in Nat /\ DOMAIN d = 1..Len(d)
  BY LenProperties
<1>2. IsFiniteSet(1..Len(d)) /\ Cardinality(1..Len(d)) = Len(d)
  <2>1. 1 \in Int /\ Len(d) \in Int
    BY <1>1
  <2>2. /\ IsFiniteSet(1..Len(d))
        /\ Cardinality(1..Len(d)) = IF 1 > Len(d) THEN 0 ELSE Len(d) - 1 + 1
    BY <2>1, FS_Interval
  <2> QED
    BY <1>1, <2>2
<1>3. Lines(d) \in SUBSET (1..Len(d))
  BY <1>1 DEF Lines
<1>4. /\ IsFiniteSet(Lines(d))
      /\ Cardinality(Lines(d)) <= Cardinality(1..Len(d))
  BY <1>2, <1>3, FS_Subset
<1>5. Cardinality(Lines(d)) \in Nat
  BY <1>4, FS_CardinalityType
<1> QED
  BY <1>2, <1>4, <1>5

\* An empty file has none.
LEMMA NoLines == Cardinality(Lines(<<>>)) = 0
<1>1. Lines(<<>>) = {}
  BY DEF Lines
<1> QED
  BY <1>1, FS_EmptySet

\* Put adds one line, whatever hole it leaves.
LEMMA OneLineMore ==
  ASSUME TypeInv, NEW d \in Seq(LineNumbers)
  PROVE  Cardinality(Lines(Extended(d))) <= Cardinality(Lines(d)) + 1
<1>1. PICK g \in Seq(LineNumbers) :
        /\ Extended(d) \in Seq(LineNumbers)
        /\ Len(Extended(d)) = Len(d) + Len(g) + 1
        /\ \A i \in 1..Len(Extended(d)) :
             Extended(d)[i] = IF i <= Len(d) THEN d[i]
                              ELSE IF i <= Len(d) + Len(g) THEN Hole ELSE written
  BY ExtendedType, TypesImplied
<1>2. /\ Len(d) \in Nat /\ Len(g) \in Nat /\ DOMAIN d = 1..Len(d)
      /\ DOMAIN Extended(d) = 1..Len(Extended(d))
  BY <1>1, LenProperties
<1> DEFINE last == Len(d) + Len(g) + 1
<1>3. ASSUME NEW i \in Lines(Extended(d)) PROVE i \in Lines(d) \cup {last}
  <2>1. i \in 1..last /\ Extended(d)[i] # Hole
    BY <1>1, <1>2 DEF Lines
  <2>2. CASE i <= Len(d)
    <3>1. i \in 1..Len(d) /\ d[i] # Hole
      BY <1>1, <1>2, <2>1, <2>2
    <3> QED
      BY <1>2, <3>1 DEF Lines
  <2>3. CASE i > Len(d)
    <3>1. ~(i <= Len(d)) /\ i \in 1..Len(Extended(d))
      BY <1>1, <1>2, <2>1, <2>3
    <3>2. ~(i <= Len(d) + Len(g))
      BY <1>1, <2>1, <3>1
    <3> QED
      BY <1>2, <2>1, <3>2
  <2> QED
    BY <1>2, <2>1, <2>2, <2>3
<1>4. IsFiniteSet(Lines(d)) /\ Cardinality(Lines(d)) \in Nat
  BY LinesFinite
<1>5. /\ IsFiniteSet(Lines(d) \cup {last})
      /\ Cardinality(Lines(d) \cup {last}) =
           IF last \in Lines(d) THEN Cardinality(Lines(d)) ELSE Cardinality(Lines(d)) + 1
  BY <1>4, FS_AddElement
<1>6. Cardinality(Lines(Extended(d))) <= Cardinality(Lines(d) \cup {last})
  <2>1. Lines(Extended(d)) \in SUBSET (Lines(d) \cup {last})
    BY <1>3
  <2> QED
    BY <1>5, <2>1, FS_Subset
<1>7. Cardinality(Lines(Extended(d))) \in Nat
  BY <1>1, LinesFinite
<1> QED
  BY <1>4, <1>5, <1>6, <1>7

\* At first nothing is written.
LEMMA InitDisk == Init => DiskIsBounded /\ Fits
<1> SUFFICES ASSUME Init PROVE DiskIsBounded /\ Fits
  OBVIOUS
<1>1. Fits
  BY DEF Init, Fits
<1>2. \A f \in Names : data[f] # NoFile => data[f] = <<>>
  BY DEF Init
<1>3. DiskIsBounded
  BY <1>2, NoLines, LogAssumption DEF DiskIsBounded
<1> QED
  BY <1>1, <1>3

\* Moving, dropping and emptying files adds no line.
LEMMA MovedFiles ==
  ASSUME DiskIsBounded,
         \A f \in Names : data'[f] = NoFile \/ data'[f] = <<>> \/ \E g \in Names : data'[f] = data[g]
  PROVE  DiskIsBounded'
BY NoLines, LogAssumption DEF DiskIsBounded

\* Every line that is written was checked against the limit.
LEMMA WriteDisk ==
  ASSUME TypeInv, DiskIsBounded, Fits, Write
  PROVE  DiskIsBounded' /\ Fits'
<1>0. /\ data \in [Names -> Seq(LineNumbers) \cup {NoFile}]
      /\ handle \in Names /\ data[handle] \in Seq(LineNumbers)
  BY DEF TypeInv, FilesTyped
<1>1. CASE Check
  <2>1. Cardinality(Lines(data[handle])) \in Nat /\ Len(data[handle]) \in Nat
        /\ Cardinality(Lines(data[handle])) <= Len(data[handle])
    BY <1>0, LinesFinite, LenProperties
  <2>2. DiskIsBounded'
    BY <1>1 DEF Check, file, DiskIsBounded
  <2>3. writer' = "write" => Len(data[handle]) + 1 <= MaxSize
    BY <1>1, <2>1, LogAssumption DEF Check
  <2>4. writer' = "write" => Cardinality(Lines(data[handle])) < MaxSize
    BY <2>1, <2>3, LogAssumption
  <2>5. writer' # "reopen" /\ data' = data /\ handle' = handle
    BY <1>1 DEF Check, file
  <2> QED
    BY <2>2, <2>4, <2>5 DEF Fits
<1>2. CASE Rename
  <2>1. \A f \in Names : data'[f] = NoFile \/ \E g \in Names : data'[f] = data[g]
    BY <1>0, <1>2 DEF Rename, Unlinked, Names
  <2>2. writer' = "reopen" /\ data'["log"] = NoFile
    BY <1>0, <1>2 DEF Rename, Unlinked, Names
  <2> QED
    BY <2>1, <2>2, MovedFiles DEF Fits
<1>3. CASE RenameFails
  <2>1. \A f \in Names : data'[f] = NoFile \/ \E g \in Names : data'[f] = data[g]
    BY <1>0, <1>3 DEF RenameFails, Unlinked, Names
  <2>2. writer' = "truncate"
    BY <1>3 DEF RenameFails
  <2> QED
    BY <2>1, <2>2, MovedFiles DEF Fits
<1>4. CASE Reopen \/ Truncate
  <2>1. \E content \in {<<>>} : data' = [data EXCEPT !["log"] = content, !["gone"] = NoFile]
    BY <1>4 DEF Reopen, Truncate, Opened, Fits
  <2>2. data' = [data EXCEPT !["log"] = <<>>, !["gone"] = NoFile]
    BY <2>1
  <2>3. \A f \in Names : data'[f] = NoFile \/ data'[f] = <<>> \/ data'[f] = data[f]
    BY <1>0, <2>2 DEF Names
  <2>4. writer' = "write" /\ data'[handle'] = <<>>
    BY <1>0, <1>4, <2>2 DEF Reopen, Truncate, Opened, Names
  <2> QED
    BY <2>3, <2>4, MovedFiles, NoLines, LogAssumption DEF Fits
<1>5. CASE Put
  <2>1. data' = [data EXCEPT ![handle] = Extended(data[handle])]
    BY <1>5 DEF Put, Extended, Gap
  <2>2. Cardinality(Lines(data[handle])) < MaxSize /\ Cardinality(Lines(data[handle])) \in Nat
    BY <1>0, <1>5, LinesFinite DEF Put, Fits
  <2>3. Extended(data[handle]) \in Seq(LineNumbers)
    BY <1>0, ExtendedType, TypesImplied
  <2>4. Cardinality(Lines(Extended(data[handle]))) <= MaxSize
    BY <1>0, <2>2, <2>3, OneLineMore, LinesFinite, LogAssumption
  <2>5. DiskIsBounded'
    BY <1>0, <2>1, <2>4 DEF DiskIsBounded
  <2>6. writer' = "notify"
    BY <1>5 DEF Put
  <2> QED
    BY <2>5, <2>6 DEF Fits
<1>6. CASE WriteFails \/ Notify
  BY <1>6 DEF WriteFails, Notify, file, DiskIsBounded, Fits
<1> QED
  BY <1>1, <1>2, <1>3, <1>4, <1>5, <1>6 DEF Write

\* The window and the user take lines away, and add none.
LEMMA OthersDisk ==
  ASSUME TypeInv, DiskIsBounded, Fits,
         \/ Window
         \/ UNCHANGED vars
         \/ \E f \in {"log", "old"} : Delete(f)
  PROVE  DiskIsBounded' /\ Fits'
<1>0. /\ data \in [Names -> Seq(LineNumbers) \cup {NoFile}]
      /\ handle \in Names /\ data[handle] # NoFile
  BY DEF TypeInv, FilesTyped
<1>1. CASE Clear
  <2>1. /\ \A f \in Names : data'[f] = <<>> \/ data'[f] = data[f]
        /\ data'["log"] = <<>> /\ data'[handle] \in {<<>>, data[handle]}
        /\ UNCHANGED <<handle, writer>>
    BY <1>0, <1>1 DEF Clear, Names
  <2> QED
    BY <2>1, MovedFiles, NoLines, LogAssumption DEF Fits
<1>2. ASSUME NEW f \in {"log", "old"}, Delete(f)
      PROVE  DiskIsBounded' /\ Fits'
  <2>1. /\ \A n \in Names : data'[n] = NoFile \/ \E g \in Names : data'[n] = data[g]
        /\ data'[handle'] = data[handle] /\ UNCHANGED writer
        /\ data'["log"] \in {data["log"], NoFile}
    BY <1>0, <1>2 DEF Delete, Unlinked, Names
  <2> QED
    BY <2>1, MovedFiles DEF Fits
<1>3. CASE (Window /\ ~Clear) \/ UNCHANGED vars
  <2>1. UNCHANGED <<data, handle, writer>>
    BY <1>3 DEF Window, ReadNew, OpenLogs, CloseLogs, Changed, Refresh, Stat, Read, ReadNothing,
                ReadFails, vars, file
  <2> QED
    BY <2>1 DEF DiskIsBounded, Fits
<1> QED
  BY <1>1, <1>2, <1>3

\* No file and no view holds more lines than its limit, for limits of any size.
THEOREM LimitsTheorem == Spec => []WithinLimits
<1>1. Init => TypeInv /\ DiskIsBounded /\ Fits
  BY InitType, InitDisk
<1>2. TypeInv /\ DiskIsBounded /\ Fits /\ [Next]_vars => (TypeInv /\ DiskIsBounded /\ Fits)'
  BY WriteType, WindowType, DeleteType, WriteDisk, OthersDisk DEF Next
<1>3. TypeInv /\ DiskIsBounded => WithinLimits
  BY DEF TypeInv, ViewTyped, WithinLimits
<1> QED
  BY <1>1, <1>2, <1>3, PTL DEF Spec

---------------------------------------------------------------------------
(* What the view has shown *)

\* What the first n positions of the log hold has been shown.
Followed(n) ==
  \A i \in 1..n : data["log"][i] # Hole =>
    data["log"][i] \in ToSet(shown) \/ Len(shown) = MaxShown

\* As long as the file the offset is about is at its path, the offset and the
\* size that was taken lie within it.
OffsetInv ==
  ~replaced =>
    /\ data["log"] = NoFile => offset = 0
    /\ viewer = "read" => data["log"] # NoFile /\ len <= Len(data["log"])
    /\ data["log"] # NoFile => offset <= Len(data["log"]) /\ Followed(offset)

\* At first nothing is shown, and nothing is there to show.
LEMMA InitOffset == Init => OffsetInv
<1> SUFFICES ASSUME Init PROVE OffsetInv
  OBVIOUS
<1>1. data["log"] = <<>> /\ offset = 0 /\ viewer = "idle" /\ Len(<<>>) = 0
  BY EmptySeq DEF Init, Names
<1> QED
  BY <1>1 DEF OffsetInv, Followed

\* A log that grows, or is left alone, keeps what lies before the offset.
LEMMA GrownLog ==
  ASSUME TypeInv, OffsetInv, data["log"] # NoFile, data'["log"] \in Seq(LineNumbers),
         Len(data'["log"]) >= Len(data["log"]),
         \A i \in 1..Len(data["log"]) : data'["log"][i] = data["log"][i],
         UNCHANGED <<view, replaced>>
  PROVE  OffsetInv'
<1> SUFFICES ASSUME ~replaced PROVE OffsetInv'
  BY DEF OffsetInv
<1>1. data["log"] \in Seq(LineNumbers) /\ offset \in Nat /\ len \in Nat
  BY DEF TypeInv, FilesTyped, ViewTyped, Names
<1>2. Len(data["log"]) \in Nat /\ Len(data'["log"]) \in Nat
  BY <1>1, LenProperties
<1>3. data'["log"] # NoFile
  BY FilesAreSequences
<1>4. offset <= Len(data["log"]) /\ Followed(offset)
  BY DEF OffsetInv
<1>5. viewer = "read" => len <= Len(data'["log"])
  BY <1>1, <1>2 DEF OffsetInv
<1>6. \A i \in 1..offset : data'["log"][i] = data["log"][i]
  BY <1>1, <1>2, <1>4
<1>7. UNCHANGED <<shown, offset, viewer, len, replaced>>
  BY DEF view
<1>8. Followed(offset)'
  BY <1>4, <1>6, <1>7 DEF Followed
<1>9. offset <= Len(data'["log"])
  BY <1>1, <1>2, <1>4
<1> QED
  BY <1>3, <1>5, <1>7, <1>8, <1>9 DEF OffsetInv

\* The writer only adds to the log, or replaces it.
LEMMA WriteOffset ==
  ASSUME TypeInv, Fits, OffsetInv, Write
  PROVE  OffsetInv'
<1>0. /\ data \in [Names -> Seq(LineNumbers) \cup {NoFile}]
      /\ handle \in Names /\ data[handle] \in Seq(LineNumbers)
  BY DEF TypeInv, FilesTyped
<1>1. CASE Check \/ WriteFails \/ Notify
  BY <1>1 DEF Check, WriteFails, Notify, file, view, OffsetInv, Followed
<1>2. CASE Rename \/ Truncate
  BY <1>2 DEF Rename, Truncate, OffsetInv
<1>3. CASE RenameFails
  <2>1. data'["log"] = data["log"]
    BY <1>0, <1>3 DEF RenameFails, Unlinked, Names
  <2> QED
    BY <1>3, <2>1 DEF RenameFails, view, OffsetInv, Followed
<1>4. CASE Reopen
  <2>1. data'["log"] = <<>>
    BY <1>0, <1>4 DEF Reopen, Opened, Fits, Names
  <2>2. UNCHANGED <<shown, offset, viewer, len, replaced>>
    BY <1>4 DEF Reopen, view
  <2>3. Len(<<>>) = 0 /\ <<>> # NoFile
    BY EmptySeq, FilesAreSequences
  <2>4. data["log"] \in {NoFile, <<>>}
    BY <1>4 DEF Reopen, Fits
  <2>5. CASE data["log"] = <<>>
    BY <2>1, <2>2, <2>5 DEF OffsetInv, Followed
  <2>6. CASE data["log"] = NoFile
    BY <2>1, <2>2, <2>3, <2>6 DEF OffsetInv, Followed
  <2> QED
    BY <2>4, <2>5, <2>6
<1>5. CASE Put
  <2>1. data' = [data EXCEPT ![handle] = Extended(data[handle])]
    BY <1>5 DEF Put, Extended, Gap
  <2>2. UNCHANGED <<view, replaced>>
    BY <1>5 DEF Put
  <2>3. CASE handle = "log"
    <3>1. data'["log"] = Extended(data["log"]) /\ data["log"] \in Seq(LineNumbers)
      BY <1>0, <2>1, <2>3
    <3>2. PICK g \in Seq(LineNumbers) :
            /\ Extended(data["log"]) \in Seq(LineNumbers)
            /\ Len(Extended(data["log"])) = Len(data["log"]) + Len(g) + 1
            /\ \A i \in 1..Len(Extended(data["log"])) :
                 Extended(data["log"])[i] =
                   IF i <= Len(data["log"]) THEN data["log"][i]
                   ELSE IF i <= Len(data["log"]) + Len(g) THEN Hole ELSE written
      BY <3>1, ExtendedType, TypesImplied
    <3>3. Len(data["log"]) \in Nat /\ Len(g) \in Nat
      BY <3>1, LenProperties
    <3>4. data["log"] # NoFile
      BY <3>1, FilesAreSequences
    <3>5. /\ Len(data'["log"]) >= Len(data["log"])
          /\ \A i \in 1..Len(data["log"]) : data'["log"][i] = data["log"][i]
      BY <3>1, <3>2, <3>3
    <3> QED
      BY <2>2, <3>1, <3>2, <3>4, <3>5, GrownLog
  <2>4. CASE handle # "log"
    <3>1. data'["log"] = data["log"]
      BY <1>0, <2>1, <2>4 DEF Names
    <3> QED
      BY <2>2, <3>1 DEF view, OffsetInv, Followed
  <2> QED
    BY <2>3, <2>4
<1> QED
  BY <1>1, <1>2, <1>3, <1>4, <1>5 DEF Write

\* A refresh shows all there is behind the offset before it moves it on.
LEMMA ReadOffset ==
  ASSUME TypeInv, OffsetInv, Read
  PROVE  OffsetInv'
<1> SUFFICES ASSUME ~replaced PROVE OffsetInv'
  BY DEF OffsetInv, Read
<1> DEFINE log == data["log"]
           lines == SubSeq(log, offset + 1, Len(log))
<1>1. log \in Seq(LineNumbers) /\ offset \in Nat /\ len \in Nat /\ shown \in Seq(LineNumbers)
  BY DEF TypeInv, FilesTyped, ViewTyped, Names, Read
<1>2. /\ data' = data /\ replaced' = replaced /\ shown' = Pushed(lines)
      /\ offset' = len /\ viewer' = "idle"
  BY DEF Read, file
<1>3. /\ lines \in Seq(LineNumbers)
      /\ \A i \in (offset + 1)..Len(log) : i - offset \in 1..Len(lines) /\ lines[i - offset] = log[i]
  BY <1>1, TailType
<1>4. len <= Len(log) /\ log # NoFile /\ Followed(offset)
  BY DEF OffsetInv, Read
<1>5. Len(log) \in Nat
  BY <1>1, LenProperties
<1> HIDE DEF lines
<1>6. CASE Len(shown') = MaxShown
  BY <1>2, <1>4, <1>6 DEF OffsetInv, Followed
<1>7. CASE Len(shown') # MaxShown
  <2>1. shown' = shown \o lines /\ Len(shown) + Len(lines) < MaxShown
    BY <1>1, <1>2, <1>3, <1>7, PushedLines
  <2>2. /\ Len(shown) \in Nat /\ Len(lines) \in Nat
        /\ DOMAIN shown = 1..Len(shown) /\ DOMAIN lines = 1..Len(lines)
    BY <1>1, <1>3, LenProperties
  <2>3. /\ shown' \in Seq(LineNumbers) /\ Len(shown') = Len(shown) + Len(lines)
        /\ \A i \in 1..Len(shown) + Len(lines) :
             shown'[i] = IF i <= Len(shown) THEN shown[i] ELSE lines[i - Len(shown)]
    BY <1>1, <1>3, <2>1, ConcatProperties
  <2>4. DOMAIN shown' = 1..Len(shown) + Len(lines)
    BY <2>3, LenProperties
  <2>5. ToSet(shown) \subseteq ToSet(shown')
    BY <2>2, <2>3, <2>4 DEF ToSet
  <2>6. ASSUME NEW j \in 1..Len(lines) PROVE lines[j] \in ToSet(shown')
    <3>1. /\ Len(shown) + j \in 1..Len(shown) + Len(lines)
          /\ ~(Len(shown) + j <= Len(shown)) /\ (Len(shown) + j) - Len(shown) = j
      BY <2>2
    <3>2. shown'[Len(shown) + j] = lines[j]
      BY <2>3, <3>1
    <3> QED
      BY <2>4, <3>1, <3>2 DEF ToSet
  <2>7. Len(shown) # MaxShown
    <3>1. MaxShown \in Nat
      BY LogAssumption
    <3>2. Len(shown) + Len(lines) < MaxShown /\ Len(shown) \in Nat /\ Len(lines) \in Nat
      BY <2>1, <2>2
    <3>3. \A x, y, z \in Nat : x + y < z => x # z
      OBVIOUS
    <3> QED
      BY <3>1, <3>2, <3>3
  <2>8. ASSUME NEW i \in 1..len, log[i] # Hole PROVE log[i] \in ToSet(shown')
    <3>1. CASE i <= offset
      <4>1. i \in 1..offset
        BY <1>1, <3>1
      <4> QED
        BY <1>4, <2>5, <2>7, <2>8, <4>1 DEF Followed
    <3>2. CASE i > offset
      <4>1. i \in (offset + 1)..Len(log)
        BY <1>1, <1>4, <1>5, <3>2
      <4> QED
        BY <1>3, <2>6, <4>1
    <3> QED
      BY <1>1, <3>1, <3>2
  <2> QED
    BY <1>2, <1>4, <2>8 DEF OffsetInv, Followed
<1> QED
  BY <1>6, <1>7

\* No other step of the window moves the offset, but to the start.
LEMMA WindowOffset ==
  ASSUME TypeInv, OffsetInv, Window
  PROVE  OffsetInv'
<1>1. CASE OpenLogs \/ CloseLogs \/ Changed \/ Refresh
  BY <1>1 DEF OpenLogs, CloseLogs, Changed, Refresh, file, view, OffsetInv, Followed
<1>2. CASE Stat
  <2>1. data["log"] # NoFile => Len(data["log"]) \in Nat
    BY FilesAreSequences DEF TypeInv, FilesTyped, Names
  <2>2. offset \in Nat /\ UNCHANGED data
    BY <1>2 DEF TypeInv, ViewTyped, Stat, file
  <2>3. CASE data["log"] = NoFile
    <3>1. offset' = 0 /\ viewer' = "idle"
      BY <1>2, <2>3 DEF Stat
    <3> QED
      BY <2>2, <2>3, <3>1 DEF OffsetInv
  <2>4. CASE data["log"] # NoFile
    <3>1. len' = Len(data["log"]) /\ replaced' = (replaced /\ offset' # 0)
      BY <1>2, <2>4 DEF Stat
    <3>2. CASE offset' = 0
      BY <2>1, <2>2, <2>4, <3>1, <3>2 DEF OffsetInv, Followed
    <3>3. CASE offset' # 0
      <4>1. offset' = offset /\ shown' = shown
        BY <1>2, <2>4, <3>3 DEF Stat
      <4>2. ~replaced' => ~replaced
        BY <3>1, <3>3
      <4> QED
        BY <2>1, <2>2, <2>4, <3>1, <4>1, <4>2 DEF OffsetInv, Followed
    <3> QED
      BY <3>2, <3>3
  <2> QED
    BY <2>3, <2>4
<1>3. CASE Read
  BY <1>3, ReadOffset
<1>4. CASE ReadNothing
  <2>1. data["log"] = NoFile /\ data' = data /\ offset' = 0 /\ viewer' = "idle"
    BY <1>4 DEF ReadNothing, file
  <2> QED
    BY <2>1 DEF OffsetInv
<1>5. CASE ReadFails
  BY <1>5 DEF ReadFails, file, OffsetInv, Followed
<1>6. CASE Clear
  <2>1. data'["log"] = <<>> /\ offset' = 0 /\ viewer' = "idle" /\ Len(<<>>) = 0 /\ <<>> # NoFile
    BY <1>6, EmptySeq, FilesAreSequences DEF Clear, TypeInv, FilesTyped, Names
  <2> QED
    BY <2>1 DEF OffsetInv, Followed
<1> QED
  BY <1>1, <1>2, <1>3, <1>4, <1>5, <1>6 DEF Window, ReadNew

\* Deleting the old log has no part in this.
LEMMA DeleteOffset ==
  ASSUME TypeInv, OffsetInv, UNCHANGED vars \/ \E f \in {"log", "old"} : Delete(f)
  PROVE  OffsetInv'
<1>1. CASE UNCHANGED vars
  BY <1>1 DEF vars, file, view, OffsetInv, Followed
<1>2. CASE Delete("log")
  BY <1>2 DEF Delete, OffsetInv
<1>3. CASE Delete("old")
  <2>1. data'["log"] = data["log"]
    BY <1>3 DEF Delete, Unlinked, TypeInv, FilesTyped, Names
  <2> QED
    BY <1>3, <2>1 DEF Delete, view, OffsetInv, Followed
<1> QED
  BY <1>1, <1>2, <1>3

\* What the offset has passed was shown, for files and views of any size,
\* unless the file has been replaced.
THEOREM NothingSkippedTheorem == Spec => []NothingSkipped
<1> DEFINE Inv == TypeInv /\ DiskIsBounded /\ Fits /\ OffsetInv
<1>1. Init => Inv
  BY InitType, InitDisk, InitOffset
<1>2. Inv /\ [Next]_vars => Inv'
  BY WriteType, WindowType, DeleteType, WriteDisk, OthersDisk, WriteOffset, WindowOffset,
     DeleteOffset DEF Next
<1>3. Inv => NothingSkipped
  BY DEF OffsetInv, Followed, NothingSkipped
<1> HIDE DEF Inv
<1> QED
  BY <1>1, <1>2, <1>3, PTL DEF Spec

---------------------------------------------------------------------------
(* The notifications *)

\* The steps of the view and its task.
Steps == viewer \in {"idle", "stat", "read"} /\ task \in {"off", "waiting", "delay"}

\* Stronger than NewsIsAnnounced: once the size has been taken, what is written
\* later is announced, although the refresh has yet to read.
Announced ==
  viewer # "stat" /\ task # "off" /\ news => unseen \/ task = "delay" \/ writer = "notify"

IInv == Steps /\ Announced

\* No line has been written.
LEMMA InitInv == Init => IInv
BY DEF Init, IInv, Steps, Announced

\* A line that is written is announced next, under the same lock.
LEMMA WriteInv == IInv /\ Write => IInv'
<1> SUFFICES ASSUME IInv, Write PROVE IInv'
  OBVIOUS
<1>1. CASE Check \/ Rename \/ RenameFails \/ Reopen \/ Truncate \/ WriteFails
  <2>1. writer # "notify" /\ UNCHANGED <<viewer, task, unseen, news>>
    BY <1>1 DEF Check, Rename, RenameFails, Reopen, Truncate, WriteFails, view
  <2> QED
    BY <2>1 DEF IInv, Steps, Announced
<1>2. CASE Put
  BY <1>2 DEF Put, view, IInv, Steps, Announced
<1>3. CASE Notify
  BY <1>3 DEF Notify, view, IInv, Steps, Announced
<1> QED
  BY <1>1, <1>2, <1>3 DEF Write

\* A refresh has seen what was written before it took the size.
LEMMA ReadNewInv == IInv /\ ReadNew => IInv'
<1> SUFFICES ASSUME IInv, ReadNew PROVE IInv'
  OBVIOUS
<1>1. CASE Stat
  <2>1. ~news' /\ task' = task /\ viewer' \in {"idle", "read"}
    BY <1>1 DEF Stat
  <2> QED
    BY <2>1 DEF IInv, Steps, Announced
<1>2. CASE Read \/ ReadNothing
  BY <1>2 DEF Read, ReadNothing, IInv, Steps, Announced
<1>3. CASE ReadFails
  BY <1>3 DEF ReadFails, IInv, Steps, Announced
<1> QED
  BY <1>1, <1>2, <1>3 DEF ReadNew

\* Notifications are marked as seen only with a refresh to follow.
LEMMA TaskInv ==
  ASSUME IInv, OpenLogs \/ CloseLogs \/ Changed \/ Refresh \/ Clear
  PROVE  IInv'
<1>1. CASE OpenLogs
  BY <1>1 DEF OpenLogs, IInv, Steps, Announced
<1>2. CASE CloseLogs
  BY <1>2 DEF CloseLogs, view, IInv, Steps, Announced
<1>3. CASE Changed
  BY <1>3 DEF Changed, view, IInv, Steps, Announced
<1>4. CASE Refresh
  BY <1>4 DEF Refresh, IInv, Steps, Announced
<1>5. CASE Clear
  BY <1>5 DEF Clear, IInv, Steps, Announced
<1> QED
  BY <1>1, <1>2, <1>3, <1>4, <1>5

\* Deleting a file, or nothing at all, has no part in this.
LEMMA DeleteInv ==
  ASSUME IInv, UNCHANGED vars \/ \E f \in {"log", "old"} : Delete(f)
  PROVE  IInv'
<1>1. UNCHANGED <<viewer, task, unseen, news, writer>>
  BY DEF vars, view, Delete
<1> QED
  BY <1>1 DEF IInv, Steps, Announced

---------------------------------------------------------------------------
\* While the Logs tab is open, no line that was written after the last refresh
\* is left without a notification the task has yet to see.
THEOREM NewsTheorem == Spec => []NewsIsAnnounced
<1>1. IInv /\ [Next]_vars => IInv'
  BY WriteInv, ReadNewInv, TaskInv, DeleteInv DEF Next, Window
<1>2. IInv => NewsIsAnnounced
  BY DEF IInv, Announced, NewsIsAnnounced
<1> QED
  BY InitInv, <1>1, <1>2, PTL DEF Spec
=============================================================================

---- MODULE DataProofs ----
(***************************************************************************)
(* Theorems about readings and rows on their way into the database and      *)
(* about what is counted there.                                             *)
(*                                                                          *)
(* Import, for any number of uploads and messages: a job has stored all     *)
(* rows it is past, so one that is recorded has stored them all; a value in *)
(* the table was the last one stored under its key, by a job that has sent  *)
(* it or is about to.                                                       *)
(*                                                                          *)
(* Dashboard, for any number of requests and messages: each stored reading  *)
(* is in the hands of a job or was the last that was said of its key, and   *)
(* an answer or a chart that follows its tag shows it already unless it is  *)
(* still to come or known to be lost.                                       *)
(*                                                                          *)
(* Startup, for any catalog and any number of overlapping starts: each task *)
(* of a start's program is fulfilled or still to be done, and no step of    *)
(* any start takes back what a task is for.  That a meter finds its tag     *)
(* needs the order of the program: tags come first.                         *)
(*                                                                          *)
(* AlarmKpis, for any number of alarms and overlapping calls and any length *)
(* of slots and window: ten minutes meet two slots at most, a slot is ten   *)
(* minutes, an alarm is cleared after its start unless its tag was set      *)
(* back, and a tag that one call at a time observes has one standing alarm  *)
(* at most, which the call under way knows of.                              *)
(***************************************************************************)
EXTENDS Dashboard, Startup, AlarmKpis, FiniteSetTheorems, SequenceTheorems, FunctionTheorems,
        WellFoundedInduction, TLAPS

----
(* Import. *)

Jobs == Uploads \cup Messages

AllRows == UNION {Range(file) : file \in Files}

JobRecords == [rows : Seq(AllRows), next : Nat \ {0},
               phase : {"idle", "row", "stored", "recording", "ended", "failed"}]

\* A row that is in the table, whoever stored the reading that is there now.
IsStored(row) == Key(row) \in Keys /\ reading[Key(row)] # Missing

\* How far a job has got: at a row of its file, all earlier ones stored, the row it
\* is at as well from Store on, and all of them when it comes to its end.
JobOK(j) ==
    /\ job[j].phase = "idle" => job[j].rows = <<>>
    /\ job[j].phase \in {"row", "stored", "recording", "ended"} =>
         job[j].next <= Len(job[j].rows)
    /\ job[j].phase \in {"recording", "ended"} => job[j].next = Len(job[j].rows)
    /\ job[j].phase = "recording" => j \in Uploads
    /\ \A i \in DOMAIN job[j].rows : i < job[j].next => IsStored(job[j].rows[i])
    /\ job[j].phase \in {"stored", "recording", "ended"} => IsStored(Row(j))

\* The reading of a key was in a row that a job has got to.
IsRead(k) ==
    \E j \in Jobs : \E i \in DOMAIN job[j].rows :
        i <= job[j].next /\ job[j].rows[i] # BadRow /\ Key(job[j].rows[i]) = k

WasSent(k) == \E i \in DOMAIN sent : Key(sent[i]) = k /\ sent[i].value = reading[k]

IsToBeSent(k) ==
    \E j \in Jobs : job[j].phase = "stored" /\ Key(Row(j)) = k /\ Row(j).value = reading[k]

EntryOK(n) ==
    /\ job[entries[n].upload].phase = "ended"
    /\ entries[n].imported = Len(job[entries[n].upload].rows)
    /\ \A o \in DOMAIN entries : entries[o].upload = entries[n].upload => o = n

ImportShape ==
    /\ reading \in [Keys -> Values \cup {Missing}]
    /\ job \in [Jobs -> JobRecords]
    /\ sent \in Seq(AllRows)
    /\ entries \in Seq([upload : Uploads, imported : Nat])

ImportInv ==
    /\ ImportShape
    /\ \A j \in Jobs : JobOK(j)
    /\ \A n \in DOMAIN entries : EntryOK(n)
    /\ \A k \in Keys : reading[k] # Missing => IsRead(k) /\ (WasSent(k) \/ IsToBeSent(k))

----
LEMMA FileRows ==
    ASSUME NEW file \in Files
    PROVE  /\ file \in Seq(AllRows)
           /\ \A i \in DOMAIN file : file[i] = BadRow \/ file[i].value \in Values
<1>1. file \in Seq(Range(file)) /\ Range(file) \subseteq AllRows
  BY FilesAssumption DEF AllRows
<1>2. \A i \in DOMAIN file : file[i] \in Range(file)
  BY DEF Range
<1> QED
  BY <1>1, <1>2, FilesAssumption DEF IsRow

\* A row with a known tag and a time was not refused and has a number.
LEMMA GoodRows ==
    ASSUME NEW row \in AllRows, Key(row) \in Keys
    PROVE  row # BadRow /\ row.value \in Values /\ row.value # Missing
<1>1. row # BadRow
  <2>1. Key(BadRow) = <<"", BadTime>>
    BY DEF Key, BadRow
  <2>2. <<"", BadTime>> \notin Keys
    BY ImportAssumption DEF Keys
  <2> QED
    BY <2>1, <2>2
<1>2. PICK file \in Files : row \in Range(file)
  BY DEF AllRows
<1> QED
  BY <1>1, <1>2, FilesAssumption, ImportAssumption DEF Missing, IsRow

LEMMA EntryShape ==
    ASSUME ImportInv, NEW n \in DOMAIN entries
    PROVE  EntryOK(n) /\ entries[n].upload \in Jobs
<1>1. entries \in Seq([upload : Uploads, imported : Nat])
  BY DEF ImportInv, ImportShape
<1>2. n \in 1..Len(entries)
  BY <1>1
<1>3. entries[n] \in [upload : Uploads, imported : Nat]
  BY <1>1, <1>2, ElementOfSeq
<1> QED
  BY <1>3 DEF ImportInv, Jobs

LEMMA ImportStarts == ImportInit => ImportInv
<1> SUFFICES ASSUME ImportInit PROVE ImportInv
  OBVIOUS
<1> USE DEF ImportInit, NoJob
<1>1. ImportShape
  BY DEF ImportShape, Jobs, JobRecords
<1>2. \A j \in Jobs : JobOK(j)
  BY DEF JobOK, Jobs
<1>3. \A n \in DOMAIN entries : EntryOK(n)
  OBVIOUS
<1>4. \A k \in Keys : reading[k] = Missing
  OBVIOUS
<1> QED
  BY <1>1, <1>2, <1>3, <1>4 DEF ImportInv

----
\* A job takes on a file, bad rows or not.
LEMMA UploadStep ==
    ASSUME ImportInv, NEW j \in Jobs, job[j].phase = "idle", NEW file \in Files,
           NEW phase \in {"row", "failed"}, phase = "row" => file # <<>>,
           job' = [job EXCEPT ![j] = [rows |-> file, next |-> 1, phase |-> phase]],
           UNCHANGED <<reading, sent, entries>>
    PROVE  ImportInv'
<1> USE DEF ImportInv
<1>1. job[j].rows = <<>>
  BY DEF JobOK
<1>2. file \in Seq(AllRows)
  BY FileRows
<1>3. ImportShape'
  BY <1>2 DEF ImportShape, JobRecords
<1>4. ASSUME NEW o \in Jobs, o # j
      PROVE  job'[o] = job[o]
  BY <1>4 DEF ImportShape
<1>5. job'[j] = [rows |-> file, next |-> 1, phase |-> phase]
  BY DEF ImportShape
<1>6. ASSUME NEW o \in Jobs PROVE JobOK(o)'
  <2>1. CASE o = j
    <3>1. phase = "row" => 1 <= Len(file)
      BY <1>2
    <3> QED
      BY <2>1, <1>2, <1>5, <3>1 DEF JobOK
  <2>2. CASE o # j
    BY <2>2, <1>4 DEF JobOK, IsStored, Row
  <2> QED
    BY <2>1, <2>2
<1>7. ASSUME NEW n \in DOMAIN entries PROVE EntryOK(n)'
  <2>1. EntryOK(n) /\ entries[n].upload \in Jobs
    BY EntryShape
  <2>2. entries[n].upload # j
    BY <2>1 DEF EntryOK
  <2> QED
    BY <2>1, <2>2, <1>4 DEF EntryOK
<1>8. ASSUME NEW k \in Keys, reading[k] # Missing
      PROVE  IsRead(k)' /\ (WasSent(k)' \/ IsToBeSent(k)')
  <2>1. IsRead(k)'
    <3>1. PICK o \in Jobs : \E i \in DOMAIN job[o].rows :
            i <= job[o].next /\ job[o].rows[i] # BadRow /\ Key(job[o].rows[i]) = k
      BY <1>8 DEF IsRead
    <3>2. o # j
      BY <3>1, <1>1
    <3> QED
      BY <3>1, <3>2, <1>4 DEF IsRead
  <2>2. WasSent(k) => WasSent(k)'
    BY DEF WasSent
  <2>3. IsToBeSent(k) => IsToBeSent(k)'
    BY <1>4 DEF IsToBeSent, Row
  <2> QED
    BY <1>8, <2>1, <2>2, <2>3
<1> QED
  BY <1>3, <1>6, <1>7, <1>8

\* The reading of the row at hand goes into the table.
LEMMA StoreStep ==
    ASSUME ImportInv, NEW j \in Jobs, Store(j)
    PROVE  ImportInv'
<1> USE DEF ImportInv
<1> DEFINE k0 == Key(Row(j))
<1>1. /\ job[j].phase = "row" /\ k0 \in Keys
      /\ reading' = [reading EXCEPT ![k0] = Row(j).value]
      /\ job' = [job EXCEPT ![j].phase = "stored"]
      /\ UNCHANGED <<sent, entries>>
  BY DEF Store
<1>2. /\ job[j] \in JobRecords /\ job[j].next \in DOMAIN job[j].rows
      /\ Row(j) \in AllRows
  BY <1>1 DEF JobOK, ImportShape, JobRecords, Row
<1>3. Row(j) # BadRow /\ Row(j).value \in Values /\ Row(j).value # Missing
  BY <1>1, <1>2, GoodRows
<1>4. /\ \A o \in Jobs : o # j => job'[o] = job[o]
      /\ job'[j] = [job[j] EXCEPT !.phase = "stored"]
      /\ \A o \in Jobs : /\ job'[o].rows = job[o].rows /\ job'[o].next = job[o].next
                         /\ Row(o)' = Row(o)
      /\ job'[j].phase = "stored"
  BY <1>1, <1>2 DEF ImportShape, Row, JobRecords
<1>5. /\ \A k \in Keys : k # k0 => reading'[k] = reading[k]
      /\ reading'[k0] = Row(j).value
  BY <1>1 DEF ImportShape
<1> HIDE DEF k0
<1>6. ImportShape'
  BY <1>1, <1>2, <1>3, <1>4 DEF ImportShape, JobRecords
<1>7. \A row : IsStored(row) => IsStored(row)'
  BY <1>3, <1>5 DEF IsStored, Key
<1>8. ASSUME NEW o \in Jobs PROVE JobOK(o)'
  <2>1. CASE o = j
    <3>1. IsStored(Row(j))'
      BY <1>1, <1>3, <1>4, <1>5 DEF IsStored, Key, k0
    <3> QED
      BY <2>1, <1>1, <1>2, <1>4, <1>7, <3>1 DEF JobOK
  <2>2. CASE o # j
    BY <2>2, <1>4, <1>7 DEF JobOK
  <2> QED
    BY <2>1, <2>2
<1>9. ASSUME NEW n \in DOMAIN entries PROVE EntryOK(n)'
  <2>1. EntryOK(n) /\ entries[n].upload \in Jobs
    BY EntryShape
  <2> QED
    BY <2>1, <1>1, <1>4 DEF EntryOK
<1>10. ASSUME NEW k \in Keys, reading'[k] # Missing
       PROVE  IsRead(k)' /\ (WasSent(k)' \/ IsToBeSent(k)')
  <2>1. CASE k = k0
    <3>1. IsRead(k)'
      BY <2>1, <1>2, <1>3, <1>4 DEF IsRead, Row, JobRecords, k0
    <3>2. IsToBeSent(k)'
      BY <2>1, <1>4, <1>5 DEF IsToBeSent, k0
    <3> QED
      BY <3>1, <3>2
  <2>2. CASE k # k0
    <3>1. reading'[k] = reading[k]
      BY <2>2, <1>5
    <3>2. IsRead(k)'
      BY <3>1, <1>4, <1>10 DEF IsRead
    <3>3. WasSent(k) => WasSent(k)'
      BY <3>1, <1>1 DEF WasSent
    <3>4. IsToBeSent(k) => IsToBeSent(k)'
      <4>1. \A o \in Jobs : job[o].phase = "stored" => job'[o].phase = "stored"
        BY <1>4
      <4> QED
        BY <3>1, <4>1, <1>4 DEF IsToBeSent
    <3> QED
      BY <1>10, <3>1, <3>2, <3>3, <3>4
  <2> QED
    BY <2>1, <2>2
<1> QED
  BY <1>1, <1>6, <1>8, <1>9, <1>10

\* The room hears of the row at hand; the job goes on to the next one or to its end.
LEMMA BroadcastStep ==
    ASSUME ImportInv, NEW j \in Jobs, Broadcast(j)
    PROVE  ImportInv'
<1> USE DEF ImportInv
<1>1. /\ job[j].phase = "stored"
      /\ sent' = Append(sent, Row(j))
      /\ job' = [job EXCEPT ![j] = Advanced(j)]
      /\ UNCHANGED <<reading, entries>>
  BY DEF Broadcast
<1>2. /\ job[j] \in JobRecords /\ job[j].next \in DOMAIN job[j].rows
      /\ job[j].next <= Len(job[j].rows)
      /\ Row(j) \in AllRows /\ IsStored(Row(j))
  BY <1>1 DEF JobOK, ImportShape, JobRecords, Row
<1>3. /\ Advanced(j) \in JobRecords /\ Advanced(j).rows = job[j].rows
      /\ job[j].next < Len(job[j].rows) =>
           Advanced(j).next = job[j].next + 1 /\ Advanced(j).phase = "row"
      /\ job[j].next = Len(job[j].rows) =>
           /\ Advanced(j).next = job[j].next
           /\ Advanced(j).phase = IF j \in Uploads THEN "recording" ELSE "ended"
  <2>1. CASE job[j].next < Len(job[j].rows)
    <3>1. Advanced(j) = [job[j] EXCEPT !.next = @ + 1, !.phase = "row"]
      BY <2>1 DEF Advanced
    <3>2. /\ Advanced(j) \in JobRecords /\ Advanced(j).rows = job[j].rows
          /\ Advanced(j).next = job[j].next + 1 /\ Advanced(j).phase = "row"
      <4>1. job[j].next + 1 \in Nat \ {0}
        BY <1>2 DEF JobRecords
      <4>2. Advanced(j) = [rows |-> job[j].rows, next |-> job[j].next + 1, phase |-> "row"]
        BY <3>1, <1>2 DEF JobRecords
      <4> QED
        BY <4>1, <4>2, <1>2 DEF JobRecords
    <3>3. job[j].next # Len(job[j].rows)
      BY <2>1, <1>2 DEF JobRecords
    <3> QED
      BY <3>2, <3>3
  <2>2. CASE job[j].next = Len(job[j].rows)
    <3>1. Advanced(j) = [job[j] EXCEPT !.phase = IF j \in Uploads THEN "recording" ELSE "ended"]
      BY <2>2, <1>2 DEF Advanced, JobRecords
    <3> QED
      BY <2>2, <3>1, <1>2 DEF JobRecords
  <2> QED
    BY <2>1, <2>2, <1>2 DEF JobRecords
<1>4. /\ \A o \in Jobs : o # j => job'[o] = job[o]
      /\ job'[j] = Advanced(j)
      /\ \A o \in Jobs : job'[o].rows = job[o].rows /\ job[o].next <= job'[o].next
  BY <1>1, <1>2, <1>3 DEF ImportShape, JobRecords
<1>5. /\ Len(sent') = Len(sent) + 1 /\ sent'[Len(sent) + 1] = Row(j)
      /\ \A i \in DOMAIN sent : i \in DOMAIN sent' /\ sent'[i] = sent[i]
      /\ sent' \in Seq(AllRows) /\ Len(sent) + 1 \in DOMAIN sent'
  BY <1>1, <1>2 DEF ImportShape
<1>6. ImportShape'
  BY <1>1, <1>3, <1>5 DEF ImportShape
<1>7. ASSUME NEW o \in Jobs PROVE JobOK(o)'
  <2>1. CASE o = j
    <3>1. \A i \in DOMAIN job[j].rows : i <= job[j].next => IsStored(job[j].rows[i])
      BY <1>2 DEF JobOK, Row, JobRecords
    <3>2. \A row : IsStored(row)' = IsStored(row)
      BY <1>1 DEF IsStored, Key
    <3>3. CASE job[j].next < Len(job[j].rows)
      BY <2>1, <3>1, <3>2, <3>3, <1>2, <1>3, <1>4 DEF JobOK, JobRecords
    <3>4. CASE job[j].next = Len(job[j].rows)
      BY <2>1, <3>1, <3>2, <3>4, <1>2, <1>3, <1>4 DEF JobOK, JobRecords, Row
    <3> QED
      BY <3>3, <3>4, <1>2 DEF JobRecords
  <2>2. CASE o # j
    BY <2>2, <1>1, <1>4 DEF JobOK, IsStored, Row, Key
  <2> QED
    BY <2>1, <2>2
<1>8. ASSUME NEW n \in DOMAIN entries PROVE EntryOK(n)'
  <2>1. EntryOK(n) /\ entries[n].upload \in Jobs
    BY EntryShape
  <2>2. entries[n].upload # j
    BY <2>1, <1>1 DEF EntryOK
  <2> QED
    BY <2>1, <2>2, <1>1, <1>4 DEF EntryOK
<1>9. ASSUME NEW k \in Keys, reading[k] # Missing
      PROVE  IsRead(k)' /\ (WasSent(k)' \/ IsToBeSent(k)')
  <2>1. IsRead(k)'
    <3>1. PICK o \in Jobs : \E i \in DOMAIN job[o].rows :
            i <= job[o].next /\ job[o].rows[i] # BadRow /\ Key(job[o].rows[i]) = k
      BY <1>9 DEF IsRead
    <3>2. PICK i \in DOMAIN job[o].rows :
            i <= job[o].next /\ job[o].rows[i] # BadRow /\ Key(job[o].rows[i]) = k
      BY <3>1
    <3>3. i \in Nat /\ i <= job'[o].next
      BY <3>1, <3>2, <1>4, <1>6 DEF ImportShape, JobRecords
    <3> QED
      BY <3>1, <3>2, <3>3, <1>4 DEF IsRead
  <2>2. WasSent(k) => WasSent(k)'
    BY <1>1, <1>5 DEF WasSent
  <2>3. IsToBeSent(k) => IsToBeSent(k)' \/ WasSent(k)'
    <3>1. SUFFICES ASSUME IsToBeSent(k) PROVE IsToBeSent(k)' \/ WasSent(k)'
      OBVIOUS
    <3>2. PICK o \in Jobs : job[o].phase = "stored" /\ Key(Row(o)) = k /\ Row(o).value = reading[k]
      BY <3>1 DEF IsToBeSent
    <3>3. CASE o = j
      BY <3>2, <3>3, <1>1, <1>5 DEF WasSent
    <3>4. CASE o # j
      BY <3>2, <3>4, <1>1, <1>4 DEF IsToBeSent, Row
    <3> QED
      BY <3>3, <3>4
  <2> QED
    BY <1>9, <2>1, <2>2, <2>3
<1> QED
  BY <1>1, <1>6, <1>7, <1>8, <1>9

\* An error at the row at hand or when the import is to be recorded.
LEMMA StopStep ==
    ASSUME ImportInv, NEW j \in Jobs, StopAtRow(j)
    PROVE  ImportInv'
<1> USE DEF ImportInv
<1>1. /\ job[j].phase \in {"row", "recording"}
      /\ job' = [job EXCEPT ![j].phase = "failed"]
      /\ UNCHANGED <<reading, sent, entries>>
  BY DEF StopAtRow
<1>2. /\ \A o \in Jobs : o # j => job'[o] = job[o]
      /\ job'[j].phase = "failed"
      /\ \A o \in Jobs : /\ job'[o].rows = job[o].rows /\ job'[o].next = job[o].next
                         /\ Row(o)' = Row(o)
  BY <1>1 DEF ImportShape, Row, JobRecords
<1>3. ImportShape'
  BY <1>1 DEF ImportShape, JobRecords
<1>4. ASSUME NEW o \in Jobs PROVE JobOK(o)'
  BY <1>1, <1>2 DEF JobOK, IsStored, Key
<1>5. ASSUME NEW n \in DOMAIN entries PROVE EntryOK(n)'
  <2>1. EntryOK(n) /\ entries[n].upload \in Jobs
    BY EntryShape
  <2>2. entries[n].upload # j
    BY <2>1, <1>1 DEF EntryOK
  <2> QED
    BY <2>1, <2>2, <1>1, <1>2 DEF EntryOK
<1>6. ASSUME NEW k \in Keys, reading[k] # Missing
      PROVE  IsRead(k)' /\ (WasSent(k)' \/ IsToBeSent(k)')
  <2>1. IsRead(k)'
    BY <1>6, <1>2 DEF IsRead
  <2>2. WasSent(k) => WasSent(k)'
    BY <1>1 DEF WasSent
  <2>3. IsToBeSent(k) => IsToBeSent(k)'
    BY <1>1, <1>2 DEF IsToBeSent
  <2> QED
    BY <1>6, <2>1, <2>2, <2>3
<1> QED
  BY <1>1, <1>3, <1>4, <1>5, <1>6

\* An import is recorded from the phase that only its last row leads to, and leaves it.
LEMMA RecordStep ==
    ASSUME ImportInv, NEW j \in Jobs, RecordImport(j)
    PROVE  ImportInv'
<1> USE DEF ImportInv
<1> DEFINE entry == [upload |-> j, imported |-> job[j].next]
<1>1. /\ job[j].phase = "recording"
      /\ entries' = Append(entries, entry)
      /\ job' = [job EXCEPT ![j].phase = "ended"]
      /\ UNCHANGED <<reading, sent>>
  BY DEF RecordImport
<1>2. j \in Uploads /\ job[j].next = Len(job[j].rows) /\ job[j].next \in Nat
  BY <1>1 DEF JobOK, ImportShape, JobRecords
<1>3. /\ \A o \in Jobs : o # j => job'[o] = job[o]
      /\ job'[j].phase = "ended"
      /\ \A o \in Jobs : /\ job'[o].rows = job[o].rows /\ job'[o].next = job[o].next
                         /\ Row(o)' = Row(o)
  BY <1>1 DEF ImportShape, Row, JobRecords
<1>4. /\ Len(entries') = Len(entries) + 1 /\ entries'[Len(entries) + 1] = entry
      /\ DOMAIN entries' = DOMAIN entries \cup {Len(entries) + 1}
      /\ \A i \in DOMAIN entries : entries'[i] = entries[i]
      /\ entries' \in Seq([upload : Uploads, imported : Nat])
  BY <1>1, <1>2 DEF ImportShape
<1>5. ImportShape'
  BY <1>1, <1>4 DEF ImportShape, JobRecords
<1>6. ASSUME NEW o \in Jobs PROVE JobOK(o)'
  BY <1>1, <1>2, <1>3 DEF JobOK, IsStored, Key
<1>7. \A n \in DOMAIN entries : EntryOK(n) /\ entries[n].upload \in Jobs /\ entries[n].upload # j
  BY <1>1, EntryShape DEF EntryOK
<1>8. ASSUME NEW n \in DOMAIN entries' PROVE EntryOK(n)'
  <2>1. CASE n \in DOMAIN entries
    BY <2>1, <1>3, <1>4, <1>7 DEF EntryOK
  <2>2. CASE n = Len(entries) + 1
    BY <2>2, <1>2, <1>3, <1>4, <1>7 DEF EntryOK
  <2> QED
    BY <2>1, <2>2, <1>4
<1>9. ASSUME NEW k \in Keys, reading[k] # Missing
      PROVE  IsRead(k)' /\ (WasSent(k)' \/ IsToBeSent(k)')
  <2>1. IsRead(k)'
    BY <1>9, <1>3 DEF IsRead
  <2>2. WasSent(k) => WasSent(k)'
    BY <1>1 DEF WasSent
  <2>3. IsToBeSent(k) => IsToBeSent(k)'
    BY <1>1, <1>3 DEF IsToBeSent
  <2> QED
    BY <1>9, <2>1, <2>2, <2>3
<1> QED
  BY <1>1, <1>5, <1>6, <1>8, <1>9

LEMMA ImportSteps == ImportInv /\ [ImportNext]_importVars => ImportInv'
<1> SUFFICES ASSUME ImportInv, [ImportNext]_importVars PROVE ImportInv'
  OBVIOUS
<1>1. CASE UNCHANGED importVars
  BY <1>1 DEF importVars, ImportInv, ImportShape, JobOK, IsStored, Row, Key, EntryOK, IsRead,
              WasSent, IsToBeSent
<1>2. ASSUME NEW j \in Jobs, Upload(j) PROVE ImportInv'
  <2>1. PICK file \in Files :
          job' = [job EXCEPT ![j] = [rows |-> file, next |-> 1,
                                     phase |-> IF Parses(file) THEN "row" ELSE "failed"]]
    BY <1>2 DEF Upload
  <2>2. Parses(file) => file # <<>>
    BY DEF Parses
  <2> QED
    BY <1>2, <2>1, <2>2, UploadStep DEF Upload
<1>3. ASSUME NEW j \in Jobs, Message(j) PROVE ImportInv'
  <2>1. PICK file \in Files :
          ParsesMessage(file) /\ job' = [job EXCEPT ![j] = [rows |-> file, next |-> 1, phase |-> "row"]]
    BY <1>3 DEF Message
  <2>2. file # <<>>
    BY <2>1 DEF ParsesMessage
  <2> QED
    BY <1>3, <2>1, <2>2, UploadStep DEF Message
<1> QED
  BY <1>1, <1>2, <1>3, StoreStep, BroadcastStep, StopStep, RecordStep DEF ImportNext, Jobs

LEMMA ImportInvSuffices == ImportInv => ImportsAddUp
<1> SUFFICES ASSUME ImportInv PROVE ImportsAddUp
  OBVIOUS
<1> USE DEF ImportInv
<1>0. DOMAIN job = Jobs
  BY DEF ImportShape
<1>1. ASSUME NEW n \in DOMAIN entries
      PROVE  /\ \A o \in DOMAIN entries : entries[o].upload = entries[n].upload => o = n
             /\ entries[n].imported = Len(job[entries[n].upload].rows)
             /\ \A r \in DOMAIN job[entries[n].upload].rows : IsStored(job[entries[n].upload].rows[r])
  <2>1. EntryOK(n) /\ entries[n].upload \in Jobs
    BY EntryShape
  <2>2. /\ JobOK(entries[n].upload) /\ job[entries[n].upload].phase = "ended"
        /\ job[entries[n].upload] \in JobRecords
    BY <2>1 DEF EntryOK, ImportShape
  <2> QED
    BY <2>1, <2>2 DEF EntryOK, JobOK, Row, JobRecords
<1>2. ASSUME NEW k \in Keys, reading[k] # Missing
      PROVE  /\ \E j \in Jobs : \E i \in Reached(j) :
                  job[j].rows[i] # BadRow /\ Key(job[j].rows[i]) = k
             /\ WasSent(k) \/ IsToBeSent(k)
  <2>1. PICK j \in Jobs : \E i \in DOMAIN job[j].rows :
          i <= job[j].next /\ job[j].rows[i] # BadRow /\ Key(job[j].rows[i]) = k
    BY <1>2 DEF IsRead
  <2>2. \A i \in DOMAIN job[j].rows : i <= job[j].next => i \in Reached(j)
    BY <2>1 DEF Reached
  <2> QED
    BY <1>2, <2>1, <2>2
<1> QED
  BY <1>0, <1>1, <1>2 DEF ImportsAddUp, IsStored, WasSent, IsToBeSent

\* importCsv (telemetry.service.ts) and onMessage (mqtt-ingest.service.ts), any number of
\* uploads and messages at once, each of which may fail at any row: an import is recorded
\* once and only with all of its rows in the table; every reading in the table is one that
\* some job got to, and its value was broadcast or is about to be.
THEOREM ImportsAreComplete == ImportSpec => []ImportsAddUp
<1>1. ImportInit => ImportInv
  BY ImportStarts
<1>2. ImportInv /\ [ImportNext]_importVars => ImportInv'
  BY ImportSteps
<1> QED
  BY <1>1, <1>2, ImportInvSuffices, PTL DEF ImportSpec

----
(* Import: the shape of its state. *)

\* What ImportInv leaves open: the rows of a job are those of a file, no job gets further
\* than past its last row, and what was sent is a reading of a known tag.
ImportRest ==
    /\ \A j \in Jobs : job[j].rows \in Files \cup {<<>>} /\ job[j].next <= Len(job[j].rows) + 1
    /\ \A i \in DOMAIN sent : Key(sent[i]) \in Keys /\ sent[i].value \in Values
    /\ raced \subseteq Keys

LEMMA ImportStartsRest == ImportInit => ImportRest
  BY DEF ImportInit, ImportRest, NoJob, Jobs

\* Steps that neither store nor send.
LEMMA JobsKeepRest ==
    ASSUME ImportInv, ImportRest, NEW j \in Jobs,
           Upload(j) \/ Message(j) \/ StopAtRow(j) \/ RecordImport(j)
    PROVE  ImportRest'
<1>1. job \in [Jobs -> JobRecords]
  BY DEF ImportInv, ImportShape
<1>2. UNCHANGED <<sent, raced>>
  BY DEF Upload, Message, StopAtRow, RecordImport
<1>3. CASE Upload(j) \/ Message(j)
  <2>1. PICK file, p :
          file \in Files /\ job' = [job EXCEPT ![j] = [rows |-> file, next |-> 1, phase |-> p]]
    BY <1>3 DEF Upload, Message
  <2>2. file \in Files /\ Len(file) \in Nat
    BY <2>1, FileRows
  <2>3. job'[j].rows = file /\ job'[j].next = 1 /\ \A o \in Jobs : o # j => job'[o] = job[o]
    BY <1>1, <2>1
  <2>4. 1 <= Len(file) + 1
    BY <2>2
  <2> QED
    BY <1>2, <2>2, <2>3, <2>4 DEF ImportRest
<1>4. CASE StopAtRow(j) \/ RecordImport(j)
  <2>1. PICK p : job' = [job EXCEPT ![j].phase = p]
    BY <1>4 DEF StopAtRow, RecordImport
  <2>2. \A o \in Jobs : job'[o].rows = job[o].rows /\ job'[o].next = job[o].next
    BY <1>1, <2>1 DEF JobRecords
  <2> QED
    BY <1>2, <2>2 DEF ImportRest
<1> QED
  BY <1>3, <1>4

LEMMA StoreKeepsRest ==
    ASSUME ImportInv, ImportRest, NEW j \in Jobs, Store(j)
    PROVE  ImportRest'
<1>1. job \in [Jobs -> JobRecords]
  BY DEF ImportInv, ImportShape
<1>2. \A o \in Jobs : job'[o].rows = job[o].rows /\ job'[o].next = job[o].next
  BY <1>1 DEF Store, JobRecords
<1>3. raced' \subseteq Keys /\ UNCHANGED sent
  BY DEF Store, ImportRest
<1> QED
  BY <1>2, <1>3 DEF ImportRest

LEMMA BroadcastKeepsRest ==
    ASSUME ImportInv, ImportRest, NEW j \in Jobs, Broadcast(j)
    PROVE  ImportRest'
<1>1. /\ job \in [Jobs -> JobRecords] /\ job[j] \in JobRecords /\ sent \in Seq(AllRows)
      /\ job[j].phase = "stored" /\ sent' = Append(sent, Row(j)) /\ raced' = raced
      /\ job' = [job EXCEPT ![j] = Advanced(j)]
  BY DEF ImportInv, ImportShape, Broadcast
<1>2. Row(j) \in AllRows /\ IsStored(Row(j)) /\ job[j].next <= Len(job[j].rows)
  <2>1. IsStored(Row(j)) /\ job[j].next <= Len(job[j].rows)
    BY <1>1 DEF ImportInv, JobOK
  <2>2. job[j].next \in DOMAIN job[j].rows
    BY <1>1, <2>1 DEF JobRecords
  <2> QED
    BY <1>1, <2>1, <2>2 DEF JobRecords, Row
<1>3. Key(Row(j)) \in Keys /\ Row(j).value \in Values
  BY <1>2, GoodRows DEF IsStored
<1>4. \A i \in DOMAIN sent' : sent'[i] = Row(j) \/ (i \in DOMAIN sent /\ sent'[i] = sent[i])
  BY <1>1, <1>2
<1>5. \A i \in DOMAIN sent' : Key(sent'[i]) \in Keys /\ sent'[i].value \in Values
  BY <1>3, <1>4 DEF ImportRest
<1>6. Advanced(j).rows = job[j].rows /\ Advanced(j).next <= Len(job[j].rows) + 1
  <2>1. Len(job[j].rows) \in Nat /\ job[j].next \in Nat
    BY <1>1 DEF JobRecords
  <2>2. CASE job[j].next < Len(job[j].rows)
    <3>1. Advanced(j) = [[job[j] EXCEPT !.next = job[j].next + 1] EXCEPT !.phase = "row"]
      BY <2>2 DEF Advanced
    <3>2. Advanced(j).rows = job[j].rows /\ Advanced(j).next = job[j].next + 1
      BY <1>1, <3>1 DEF JobRecords
    <3> QED
      BY <1>2, <2>1, <3>2
  <2>3. CASE ~(job[j].next < Len(job[j].rows))
    <3>1. PICK p : Advanced(j) = [job[j] EXCEPT !.phase = p]
      BY <2>3 DEF Advanced
    <3>2. Advanced(j).rows = job[j].rows /\ Advanced(j).next = job[j].next
      BY <1>1, <3>1 DEF JobRecords
    <3> QED
      BY <1>2, <2>1, <3>2
  <2> QED
    BY <2>2, <2>3
<1>7. \A o \in Jobs : job'[o].rows = job[o].rows /\ (o # j => job'[o] = job[o])
  BY <1>1, <1>6
<1>8. job'[j] = Advanced(j)
  BY <1>1
<1> QED
  BY <1>1, <1>5, <1>6, <1>7, <1>8 DEF ImportRest

LEMMA ImportKeepsRest == ImportInv /\ ImportRest /\ [ImportNext]_importVars => ImportRest'
<1> SUFFICES ASSUME ImportInv, ImportRest, [ImportNext]_importVars PROVE ImportRest'
  OBVIOUS
<1>1. CASE UNCHANGED importVars
  BY <1>1 DEF importVars, ImportRest
<1> QED
  BY <1>1, JobsKeepRest, StoreKeepsRest, BroadcastKeepsRest DEF ImportNext, Jobs

LEMMA ImportTypeSuffices == ImportInv /\ ImportRest => ImportTypeOK
<1> SUFFICES ASSUME ImportInv, ImportRest PROVE ImportTypeOK
  OBVIOUS
<1>1. reading \in [Keys -> Values \cup {Missing}] /\ job \in [Jobs -> JobRecords]
  BY DEF ImportInv, ImportShape
<1>2. ASSUME NEW j \in Uploads \cup Messages
      PROVE  /\ job[j].rows \in Files \cup {<<>>}
             /\ job[j].phase \in {"idle", "row", "stored", "recording", "ended", "failed"}
             /\ job[j].next \in 1..(Len(job[j].rows) + 1)
  <2>1. job[j] \in JobRecords /\ job[j].rows \in Files \cup {<<>>} /\ job[j].next <= Len(job[j].rows) + 1
    BY <1>1 DEF ImportRest, Jobs
  <2>2. Len(job[j].rows) \in Nat /\ job[j].next \in Nat \ {0}
    BY <2>1 DEF JobRecords
  <2> QED
    BY <2>1, <2>2 DEF JobRecords
<1> QED
  BY <1>1, <1>2 DEF ImportRest, ImportTypeOK

\* importCsv and onMessage, types: a job is at a row of a file that was sent, or past its
\* last one, and the room only ever hears of numbers of known tags.
THEOREM ImportTyped == ImportSpec => []ImportTypeOK
  BY ImportStarts, ImportStartsRest, ImportSteps, ImportKeepsRest, ImportTypeSuffices, PTL DEF ImportSpec

----
(* Dashboard: the oldest readings of a tag. *)

Below(S, x) == {y \in S : y < x}

\* Numbers of a finite set are told apart by how many are below them.
LEMMA BelowCounts ==
    ASSUME NEW S, S \subseteq Nat, IsFiniteSet(S)
    PROVE  /\ Cardinality(S) \in Nat
           /\ \A x \in S : Cardinality(Below(S, x)) \in 0..(Cardinality(S) - 1)
           /\ \A x, y \in S : Cardinality(Below(S, x)) = Cardinality(Below(S, y)) => x = y
           /\ \A n \in 0..(Cardinality(S) - 1) : \E x \in S : Cardinality(Below(S, x)) = n
<1> DEFINE N == Cardinality(S)
<1>1. N \in Nat
  BY FS_CardinalityType
<1>2. \A x : IsFiniteSet(Below(S, x)) /\ Cardinality(Below(S, x)) \in Nat
  BY FS_Subset, FS_CardinalityType DEF Below
<1>3. ASSUME NEW x \in S
      PROVE  Cardinality(Below(S, x)) \in 0..(N - 1)
  <2>1. Below(S, x) \subseteq S /\ x \notin Below(S, x)
    BY DEF Below
  <2>2. Cardinality(Below(S, x)) <= N /\ Cardinality(Below(S, x)) # N
    BY <2>1, FS_Subset
  <2> QED
    BY <1>1, <1>2, <2>2
<1>4. ASSUME NEW x \in S, NEW y \in S, x < y
      PROVE  Cardinality(Below(S, x)) # Cardinality(Below(S, y))
  <2>1. Below(S, x) \subseteq Below(S, y)
    <3> SUFFICES ASSUME NEW z \in S, z < x PROVE z < y
      BY DEF Below
    <3>1. x \in Nat /\ y \in Nat /\ z \in Nat
      OBVIOUS
    <3> QED
      BY <1>4, <3>1
  <2>2. x \in Below(S, y) /\ x \notin Below(S, x)
    BY <1>4 DEF Below
  <2> QED
    BY <1>2, <2>1, <2>2, FS_Subset
<1>5. \A x, y \in S : Cardinality(Below(S, x)) = Cardinality(Below(S, y)) => x = y
  <2>1. \A x, y \in S : x = y \/ x < y \/ y < x
    OBVIOUS
  <2> QED
    BY <1>4, <2>1
<1> DEFINE rank == [x \in S |-> Cardinality(Below(S, x))]
<1>6. rank \in Injection(S, 0..(N - 1))
  BY <1>3, <1>5 DEF Injection, IsInjective
<1>7. IsFiniteSet(0..(N - 1)) /\ Cardinality(0..(N - 1)) = N
  <2>1. 0 \in Int /\ N - 1 \in Int /\ (N = 0 => 0 > N - 1) /\ (N # 0 => ~(0 > N - 1))
    BY <1>1
  <2>2. IsFiniteSet(0..(N - 1))
        /\ Cardinality(0..(N - 1)) = IF 0 > N - 1 THEN 0 ELSE (N - 1) - 0 + 1
    BY <2>1, FS_Interval
  <2> QED
    BY <1>1, <2>1, <2>2
<1>8. rank \in Surjection(S, 0..(N - 1))
  BY <1>6, <1>7, FS_Injection
<1>9. \A n \in 0..(N - 1) : \E x \in S : rank[x] = n
  BY <1>8 DEF Surjection
<1> QED
  BY <1>1, <1>3, <1>5, <1>9

\* The times of the oldest stored readings of a tag.
Among(t) == {x \in StoredTimes(t) : Cardinality(Older(t, x)) < Take}

Points == AllRows \cup [tag : Tags, time : Times, value : Values \cup {Missing}]

LEMMA OldestPoints ==
    ASSUME reading \in [Keys -> Values \cup {Missing}], NEW t \in Tags, IsFiniteSet(StoredTimes(t))
    PROVE  /\ Oldest(t) \in Seq(Points)
           /\ \A n \in DOMAIN Oldest(t) :
                /\ Oldest(t)[n].time \in Among(t)
                /\ Oldest(t)[n] = [tag |-> t, time |-> Oldest(t)[n].time,
                                   value |-> reading[<<t, Oldest(t)[n].time>>]]
           /\ \A n, m \in DOMAIN Oldest(t) : Oldest(t)[n].time = Oldest(t)[m].time => n = m
           /\ \A x \in Among(t) : \E n \in DOMAIN Oldest(t) : Oldest(t)[n].time = x
<1> DEFINE S == StoredTimes(t)
           stored == Cardinality(S)
           count == IF stored < Take THEN stored ELSE Take
           at(n) == CHOOSE x \in S : Cardinality(Older(t, x)) = n - 1
           point(n) == [tag |-> t, time |-> at(n), value |-> reading[<<t, at(n)>>]]
<1>1. Oldest(t) = [n \in 1..count |-> point(n)]
  BY DEF Oldest
<1>2. S \subseteq Nat /\ S \subseteq Times /\ \A x : Older(t, x) = Below(S, x)
  BY ImportAssumption DEF StoredTimes, Older, Below
<1>3. /\ stored \in Nat
      /\ \A x \in S : Cardinality(Older(t, x)) \in 0..(stored - 1)
      /\ \A x, y \in S : Cardinality(Older(t, x)) = Cardinality(Older(t, y)) => x = y
      /\ \A n \in 0..(stored - 1) : \E x \in S : Cardinality(Older(t, x)) = n
  <2>1. IsFiniteSet(S)
    OBVIOUS
  <2> HIDE DEF S
  <2>2. /\ Cardinality(S) \in Nat
        /\ \A x \in S : Cardinality(Below(S, x)) \in 0..(Cardinality(S) - 1)
        /\ \A x, y \in S : Cardinality(Below(S, x)) = Cardinality(Below(S, y)) => x = y
        /\ \A n \in 0..(Cardinality(S) - 1) : \E x \in S : Cardinality(Below(S, x)) = n
    BY <1>2, <2>1, BelowCounts
  <2>3. \A x : Cardinality(Older(t, x)) = Cardinality(Below(S, x))
    BY <1>2
  <2> QED
    BY <2>2, <2>3
<1>4. count \in Nat /\ count <= stored /\ count <= Take /\ (count = stored \/ count = Take)
  BY <1>3, DashboardAssumption
<1> HIDE DEF S, count, stored
<1>5. \A n \in 1..count : at(n) \in S /\ Cardinality(Older(t, at(n))) = n - 1
  <2> SUFFICES ASSUME NEW n \in 1..count
               PROVE  \E x \in S : Cardinality(Older(t, x)) = n - 1
    OBVIOUS
  <2>1. n - 1 \in 0..(stored - 1)
    BY <1>3, <1>4
  <2> QED
    BY <1>3, <2>1
<1> HIDE DEF at
<1>6. \A n \in 1..count : at(n) \in Among(t) /\ point(n) \in Points
  <2> TAKE n \in 1..count
  <2>1. n - 1 < Take
    BY <1>4, DashboardAssumption
  <2>2. at(n) \in Among(t)
    BY <1>5, <2>1 DEF Among, S
  <2>3. <<t, at(n)>> \in Keys /\ at(n) \in Times
    BY <1>2, <1>5 DEF Keys
  <2> QED
    BY <2>2, <2>3 DEF Points
<1>7. Oldest(t) \in Seq(Points)
  <2>1. Oldest(t) \in [1..count -> Points]
    BY <1>1, <1>6
  <2> QED
    BY <1>4, <2>1, SeqDef
<1>8. DOMAIN Oldest(t) = 1..count /\ \A n \in 1..count : Oldest(t)[n] = point(n) /\ Oldest(t)[n].time = at(n)
  BY <1>1
<1>9. \A n, m \in 1..count : at(n) = at(m) => n = m
  BY <1>4, <1>5
<1>10. ASSUME NEW x \in Among(t)
       PROVE  \E n \in 1..count : at(n) = x
  <2>1. x \in S /\ Cardinality(Older(t, x)) < Take /\ Cardinality(Older(t, x)) \in 0..(stored - 1)
    BY <1>3 DEF Among, S
  <2> DEFINE n == Cardinality(Older(t, x)) + 1
  <2>2. n \in 1..count
    BY <1>3, <1>4, <2>1, DashboardAssumption DEF count
  <2>3. at(n) = x
    BY <1>3, <1>5, <2>1, <2>2
  <2> QED
    BY <2>2, <2>3
<1>11. \A n \in DOMAIN Oldest(t) :
         /\ Oldest(t)[n].time \in Among(t)
         /\ Oldest(t)[n] = [tag |-> t, time |-> Oldest(t)[n].time,
                            value |-> reading[<<t, Oldest(t)[n].time>>]]
  BY <1>6, <1>8
<1>12. \A n, m \in DOMAIN Oldest(t) : Oldest(t)[n].time = Oldest(t)[m].time => n = m
  <2> TAKE n, m \in DOMAIN Oldest(t)
  <2>1. n \in 1..count /\ m \in 1..count /\ Oldest(t)[n].time = at(n) /\ Oldest(t)[m].time = at(m)
    BY <1>8
  <2> QED
    BY <2>1, <1>9
<1>13. \A x \in Among(t) : \E n \in DOMAIN Oldest(t) : Oldest(t)[n].time = x
  BY <1>8, <1>10
<1> QED
  BY <1>7, <1>11, <1>12, <1>13

\* A stored reading that is among the oldest has been so since it was stored.
LEMMA AmongShrinks ==
    ASSUME NEW t, StoredTimes(t) \subseteq StoredTimes(t)', IsFiniteSet(StoredTimes(t)'),
           NEW x \in StoredTimes(t), x \in Among(t)'
    PROVE  x \in Among(t)
<1>1. Older(t, x) \subseteq Older(t, x)' /\ Older(t, x)' \subseteq StoredTimes(t)'
  BY DEF Older
<1>2. /\ IsFiniteSet(Older(t, x)') /\ IsFiniteSet(Older(t, x))
      /\ Cardinality(Older(t, x)) <= Cardinality(Older(t, x)')
  BY <1>1, FS_Subset
<1>3. Cardinality(Older(t, x)) \in Nat /\ Cardinality(Older(t, x)') \in Nat
  BY <1>2, FS_CardinalityType
<1>4. Cardinality(Older(t, x)') < Take
  BY DEF Among
<1> QED
  BY <1>2, <1>3, <1>4, DashboardAssumption DEF Among


----
(* Dashboard: what is stored is on its way to the room or was the last that was said. *)

SomeStored(k) == \E j \in Jobs : job[j].phase = "stored" /\ Key(Row(j)) = k

\* The last message of a key beyond the first ones says what the table says.
SaidLast(k, past) ==
    \E n \in DOMAIN sent : /\ n > past /\ Key(sent[n]) = k /\ sent[n].value = reading[k]
                           /\ \A m \in DOMAIN sent : m > n => Key(sent[m]) # k

NewestIsTrue ==
    \A k \in Keys \ raced :
        /\ \A j \in Jobs : job[j].phase = "stored" /\ Key(Row(j)) = k => Row(j).value = reading[k]
        /\ reading[k] # Missing => SomeStored(k) \/ SaidLast(k, 0)

NoneComing(k, past) == \A n \in DOMAIN sent : n > past => Key(sent[n]) # k

Point(k) == [tag |-> k[1], time |-> k[2], value |-> reading[k]]

ShownLast(points, k) ==
    \E n \in DOMAIN points : /\ points[n] = Point(k)
                             /\ \A m \in DOMAIN points : m > n => points[m].time # k[2]

\* Points to which the messages still to come are added show the oldest readings of
\* a tag: the right one is there already, or is the last that will come.
Follows(points, t, past) ==
    \A x \in Among(t) : <<t, x>> \in raced \/ SomeStored(<<t, x>>) \/ SaidLast(<<t, x>>, past)
                        \/ (NoneComing(<<t, x>>, past) /\ ShownLast(points, <<t, x>>))

FewStored == \A t \in Tags : IsFiniteSet(StoredTimes(t))

\* Steps of the import that neither store nor send.
LEMMA OtherKeeps ==
    ASSUME UNCHANGED <<reading, sent, raced>>,
           \A o \in Jobs : (job'[o].phase = "stored") = (job[o].phase = "stored"),
           \A o \in Jobs : job[o].phase = "stored" => job'[o] = job[o],
           NEW points, NEW t, NEW past
    PROVE  /\ NewestIsTrue => NewestIsTrue'
           /\ FewStored => FewStored'
           /\ Follows(points, t, past) => Follows(points, t, past)'
<1>1. \A k : SomeStored(k)' = SomeStored(k)
  BY DEF SomeStored, Row
<1>2. /\ \A k : SaidLast(k, 0)' = SaidLast(k, 0) /\ SaidLast(k, past)' = SaidLast(k, past)
      /\ \A k : NoneComing(k, past)' = NoneComing(k, past)
      /\ \A k : ShownLast(points, k)' = ShownLast(points, k)
  BY DEF SaidLast, NoneComing, ShownLast, Point
<1>3. \A o \in Jobs : job'[o].phase = "stored" => Row(o)' = Row(o)
  BY DEF Row
<1>4. \A u : StoredTimes(u)' = StoredTimes(u) /\ Among(u)' = Among(u)
  BY DEF StoredTimes, Among, Older
<1>5. NewestIsTrue => NewestIsTrue'
  BY <1>1, <1>2, <1>3 DEF NewestIsTrue
<1>6. FewStored => FewStored'
  BY <1>4 DEF FewStored
<1>7. Follows(points, t, past) => Follows(points, t, past)'
  BY <1>1, <1>2, <1>4 DEF Follows
<1> QED
  BY <1>5, <1>6, <1>7

\* A reading that is stored is in the hands of its job, and no other one is lost.
LEMMA StoreKeeps ==
    ASSUME ImportInv, NewestIsTrue, FewStored, NEW j \in Jobs, Store(j)
    PROVE  /\ NewestIsTrue' /\ FewStored'
           /\ \A points, t, past : t \in Tags /\ Follows(points, t, past) => Follows(points, t, past)'
<1>0. PICK k0 : k0 = Key(Row(j))
  OBVIOUS
<1>1. /\ job[j].phase = "row" /\ k0 \in Keys
      /\ reading' = [reading EXCEPT ![k0] = Row(j).value]
      /\ raced' = raced \cup {k \in {k0} : \E o \in DOMAIN job :
                                 job[o].phase = "stored" /\ Key(Row(o)) = k}
      /\ job' = [job EXCEPT ![j].phase = "stored"]
      /\ sent' = sent
  BY <1>0 DEF Store
<1>2. /\ job \in [Jobs -> JobRecords] /\ job[j] \in JobRecords
      /\ reading \in [Keys -> Values \cup {Missing}] /\ Row(j) \in AllRows
  BY <1>1 DEF ImportInv, JobOK, ImportShape, JobRecords, Row
<1>3. Row(j).value # Missing
  BY <1>0, <1>1, <1>2, GoodRows
<1>4. /\ \A o \in Jobs : o # j => job'[o] = job[o]
      /\ \A o \in Jobs : Row(o)' = Row(o)
      /\ job'[j].phase = "stored"
  BY <1>1, <1>2 DEF Row, JobRecords
<1>5. /\ \A k \in Keys : k # k0 => reading'[k] = reading[k]
      /\ reading'[k0] = Row(j).value
  BY <1>1, <1>2
<1>6. k0 \notin raced' => \A o \in Jobs : job[o].phase = "stored" => Key(Row(o)) # k0
  BY <1>1, <1>2
<1>7. \A k : k \notin raced' => k \notin raced
  BY <1>1
<1>8. SomeStored(k0)' /\ \A k : SomeStored(k) => SomeStored(k)'
  <2>1. SomeStored(k0)'
    BY <1>0, <1>4 DEF SomeStored
  <2>2. \A o \in Jobs : job[o].phase = "stored" => job'[o].phase = "stored"
    BY <1>4
  <2> QED
    BY <2>1, <2>2, <1>4 DEF SomeStored
<1>9. \A k, past : k \in Keys /\ k # k0 /\ SaidLast(k, past) => SaidLast(k, past)'
  BY <1>1, <1>5 DEF SaidLast
<1>10. NewestIsTrue'
  <2> SUFFICES ASSUME NEW k \in Keys, k \notin raced'
               PROVE  /\ \A o \in Jobs : job'[o].phase = "stored" /\ Key(Row(o))' = k =>
                           Row(o)'.value = reading'[k]
                      /\ reading'[k] # Missing => SomeStored(k)' \/ SaidLast(k, 0)'
    BY DEF NewestIsTrue
  <2>1. CASE k = k0
    <3>1. \A o \in Jobs : job'[o].phase = "stored" /\ Key(Row(o))' = k => o = j
      BY <2>1, <1>4, <1>6 DEF Key
    <3> QED
      BY <2>1, <3>1, <1>4, <1>5, <1>8
  <2>2. CASE k # k0
    <3>1. \A o \in Jobs : job'[o].phase = "stored" /\ Key(Row(o))' = k => o # j
      BY <1>0, <2>2, <1>4 DEF Key
    <3>2. \A o \in Jobs : job'[o].phase = "stored" /\ Key(Row(o))' = k => Row(o)'.value = reading'[k]
      <4>1. \A o \in Jobs : job[o].phase = "stored" /\ Key(Row(o)) = k => Row(o).value = reading[k]
        BY <1>7 DEF NewestIsTrue
      <4> QED
        BY <4>1, <3>1, <2>2, <1>4, <1>5 DEF Key
    <3>3. reading'[k] # Missing => SomeStored(k) \/ SaidLast(k, 0)
      BY <2>2, <1>5, <1>7 DEF NewestIsTrue
    <3> QED
      BY <2>2, <3>2, <3>3, <1>8, <1>9
  <2> QED
    BY <2>1, <2>2
<1>11. ASSUME NEW t \in Tags
       PROVE  /\ IsFiniteSet(StoredTimes(t)) /\ IsFiniteSet(StoredTimes(t)')
              /\ StoredTimes(t) \subseteq StoredTimes(t)'
              /\ \A x \in StoredTimes(t)' : <<t, x>> # k0 => x \in StoredTimes(t)
  <2>1. \A x \in Times : <<t, x>> \in Keys
    BY DEF Keys
  <2>2. \A x \in Times : <<t, x>> # k0 => reading'[<<t, x>>] = reading[<<t, x>>]
    BY <2>1, <1>5
  <2>3. \A x \in Times : <<t, x>> = k0 => x = k0[2] /\ reading'[<<t, x>>] # Missing
    BY <1>3, <1>5
  <2>4. /\ StoredTimes(t) \subseteq StoredTimes(t)'
        /\ \A x \in StoredTimes(t)' : <<t, x>> # k0 => x \in StoredTimes(t)
        /\ StoredTimes(t)' \subseteq StoredTimes(t) \cup {k0[2]}
    BY <2>2, <2>3 DEF StoredTimes
  <2>5. IsFiniteSet(StoredTimes(t)) /\ IsFiniteSet(StoredTimes(t) \cup {k0[2]})
    BY FS_AddElement DEF FewStored
  <2> QED
    BY <2>4, <2>5, FS_Subset
<1>12. FewStored'
  BY <1>11 DEF FewStored
<1>13. ASSUME NEW points, NEW t \in Tags, NEW past, Follows(points, t, past)
       PROVE  Follows(points, t, past)'
  <2> SUFFICES ASSUME NEW x \in Among(t)', <<t, x>> \notin raced', <<t, x>> # k0
               PROVE  SomeStored(<<t, x>>)' \/ SaidLast(<<t, x>>, past)'
                      \/ (NoneComing(<<t, x>>, past)' /\ ShownLast(points, <<t, x>>)')
    BY <1>8 DEF Follows
  <2>1. x \in StoredTimes(t)' /\ x \in StoredTimes(t)
    BY <1>11 DEF Among
  <2>2. x \in Among(t)
    BY <2>1, <1>11, AmongShrinks
  <2>3. <<t, x>> \in Keys /\ reading'[<<t, x>>] = reading[<<t, x>>]
    BY <2>1, <1>5 DEF Keys, StoredTimes
  <2>4. SomeStored(<<t, x>>) \/ SaidLast(<<t, x>>, past)
        \/ (NoneComing(<<t, x>>, past) /\ ShownLast(points, <<t, x>>))
    BY <1>7, <1>13, <2>2 DEF Follows
  <2>5. ShownLast(points, <<t, x>>) => ShownLast(points, <<t, x>>)'
    BY <2>3 DEF ShownLast, Point
  <2>6. NoneComing(<<t, x>>, past) => NoneComing(<<t, x>>, past)'
    BY <1>1 DEF NoneComing
  <2> QED
    BY <2>3, <2>4, <2>5, <2>6, <1>8, <1>9
<1> QED
  BY <1>10, <1>12, <1>13

\* What a job has in its hands goes to the end of what was said.
LEMMA BroadcastKeeps ==
    ASSUME ImportInv, NewestIsTrue, NEW j \in Jobs, Broadcast(j)
    PROVE  /\ NewestIsTrue' /\ (FewStored => FewStored')
           /\ \A points, t, past : (t \in Tags /\ past \in Nat /\ past <= Len(sent)) =>
                                      (Follows(points, t, past) => Follows(points, t, past)')
<1>0. PICK k0 : k0 = Key(Row(j))
  OBVIOUS
<1>1. /\ job[j].phase = "stored" /\ sent' = Append(sent, Row(j))
      /\ job' = [job EXCEPT ![j] = Advanced(j)] /\ UNCHANGED <<reading, raced>>
  BY DEF Broadcast
<1>2. /\ job \in [Jobs -> JobRecords] /\ sent \in Seq(AllRows) /\ job[j] \in JobRecords
      /\ Row(j) \in AllRows /\ k0 \in Keys
  BY <1>0, <1>1 DEF ImportInv, JobOK, IsStored, ImportShape, JobRecords, Row
<1>3. /\ \A o \in Jobs : o # j => job'[o] = job[o] /\ Row(o)' = Row(o)
      /\ job'[j].phase # "stored"
  <2>1. Advanced(j).phase # "stored"
    BY <1>2 DEF Advanced, JobRecords
  <2> QED
    BY <2>1, <1>1, <1>2 DEF Row
<1>4. /\ Len(sent) \in Nat /\ DOMAIN sent = 1..Len(sent)
      /\ Len(sent') = Len(sent) + 1 /\ DOMAIN sent' = 1..(Len(sent) + 1)
      /\ sent'[Len(sent) + 1] = Row(j)
      /\ \A n \in DOMAIN sent : sent'[n] = sent[n]
  BY <1>1, <1>2
<1>5. ASSUME NEW past \in Nat, past <= Len(sent), k0 \notin raced
      PROVE  SaidLast(k0, past)'
  <2>1. Row(j).value = reading[k0] /\ k0 = Key(Row(j))
    BY <1>0, <1>1, <1>2, <1>5 DEF NewestIsTrue
  <2>2. Key(sent'[Len(sent) + 1]) = k0 /\ sent'[Len(sent) + 1].value = reading'[k0]
    BY <2>1, <1>1, <1>4 DEF Key
  <2>3. Len(sent) + 1 \in DOMAIN sent' /\ Len(sent) + 1 > past
        /\ \A m \in DOMAIN sent' : ~(m > Len(sent) + 1)
    BY <1>4, <1>5
  <2> QED
    BY <2>2, <2>3 DEF SaidLast, Key
<1>6. ASSUME NEW k, k # k0
      PROVE  /\ SomeStored(k) => SomeStored(k)'
             /\ \A past : SaidLast(k, past) => SaidLast(k, past)'
             /\ \A past : NoneComing(k, past) => NoneComing(k, past)'
  <2>1. Key(sent'[Len(sent) + 1]) # k
    BY <1>0, <1>4, <1>6 DEF Key
  <2>2. SomeStored(k) => SomeStored(k)'
    <3>1. \A o \in Jobs : Key(Row(o)) = k => o # j
      BY <1>0, <1>6
    <3> QED
      BY <3>1, <1>3 DEF SomeStored
  <2>3. ASSUME NEW past, SaidLast(k, past)
        PROVE  SaidLast(k, past)'
    <3>1. PICK n \in DOMAIN sent : /\ n > past /\ Key(sent[n]) = k /\ sent[n].value = reading[k]
                                   /\ \A m \in DOMAIN sent : m > n => Key(sent[m]) # k
      BY <2>3 DEF SaidLast
    <3>2. n \in DOMAIN sent' /\ Key(sent'[n]) = k /\ sent'[n].value = reading'[k]
      BY <3>1, <1>1, <1>4
    <3>3. \A m \in DOMAIN sent' : m > n => Key(sent'[m]) # k
      BY <3>1, <2>1, <1>4
    <3> QED
      BY <3>1, <3>2, <3>3 DEF SaidLast, Key
  <2>4. \A past : NoneComing(k, past) => NoneComing(k, past)'
    BY <2>1, <1>4 DEF NoneComing, Key
  <2> QED
    BY <2>2, <2>3, <2>4
<1>7. NewestIsTrue'
  <2> SUFFICES ASSUME NEW k \in Keys, k \notin raced
               PROVE  /\ \A o \in Jobs : job'[o].phase = "stored" /\ Key(Row(o))' = k =>
                           Row(o)'.value = reading'[k]
                      /\ reading'[k] # Missing => SomeStored(k)' \/ SaidLast(k, 0)'
    BY <1>1 DEF NewestIsTrue
  <2>1. \A o \in Jobs : job'[o].phase = "stored" => o # j
    BY <1>3
  <2>2. \A o \in Jobs : job'[o].phase = "stored" /\ Key(Row(o))' = k => Row(o)'.value = reading'[k]
    BY <2>1, <1>1, <1>3 DEF Key, NewestIsTrue
  <2>3. reading'[k] # Missing => SomeStored(k) \/ SaidLast(k, 0)
    BY <1>1 DEF NewestIsTrue
  <2>4. k = k0 => SaidLast(k, 0)'
    BY <1>4, <1>5
  <2> QED
    BY <2>2, <2>3, <2>4, <1>6
<1>8. \A u : StoredTimes(u)' = StoredTimes(u) /\ Among(u)' = Among(u)
  BY <1>1 DEF StoredTimes, Among, Older
<1>9. FewStored => FewStored'
  BY <1>8 DEF FewStored
<1>10. ASSUME NEW points, NEW t \in Tags, NEW past \in Nat, past <= Len(sent), Follows(points, t, past)
       PROVE  Follows(points, t, past)'
  <2> SUFFICES ASSUME NEW x \in Among(t), <<t, x>> \notin raced
               PROVE  SomeStored(<<t, x>>)' \/ SaidLast(<<t, x>>, past)'
                      \/ (NoneComing(<<t, x>>, past)' /\ ShownLast(points, <<t, x>>)')
    BY <1>1, <1>8 DEF Follows
  <2>1. <<t, x>> = k0 => SaidLast(<<t, x>>, past)'
    BY <1>5, <1>10
  <2>2. SomeStored(<<t, x>>) \/ SaidLast(<<t, x>>, past)
        \/ (NoneComing(<<t, x>>, past) /\ ShownLast(points, <<t, x>>))
    BY <1>10 DEF Follows
  <2>3. ShownLast(points, <<t, x>>) => ShownLast(points, <<t, x>>)'
    BY <1>1 DEF ShownLast, Point
  <2> QED
    BY <2>1, <2>2, <2>3, <1>6
<1> QED
  BY <1>7, <1>9, <1>10

----
(* Dashboard: the messages reach the points, or are known to be lost. *)

OfTag(points, t) == \A n \in DOMAIN points : points[n].tag = t

OnePerTime(points) == \A n, m \in DOMAIN points : points[n].time = points[m].time => n = m

LEMMA SentAreRows ==
    ASSUME ImportInv, NEW n \in DOMAIN sent
    PROVE  /\ sent[n] \in AllRows
           /\ sent[n] = [tag |-> sent[n].tag, time |-> sent[n].time, value |-> sent[n].value]
<1>1. sent[n] \in AllRows
  BY ElementOfSeq DEF ImportInv, ImportShape
<1>2. PICK file \in Files : sent[n] \in Range(file)
  BY <1>1 DEF AllRows
<1>3. IsRow(sent[n])
  BY <1>2, FilesAssumption
<1> QED
  BY <1>1, <1>3 DEF IsRow

\* Points may do without messages that they hold already or that are of other tags.
LEMMA PastKept ==
    ASSUME ImportInv, NEW points \in Seq(Points), NEW t, NEW p \in Nat, NEW q \in Nat, p <= q,
           Follows(points, t, p),
           \A n \in (p + 1)..q : n \in DOMAIN sent /\ sent[n].tag = t =>
               sent[n] \in Range(points) /\ OnePerTime(points)
    PROVE  Follows(points, t, q)
<1> SUFFICES ASSUME NEW x \in Among(t), <<t, x>> \notin raced, ~SomeStored(<<t, x>>)
             PROVE  SaidLast(<<t, x>>, q)
                    \/ (NoneComing(<<t, x>>, q) /\ ShownLast(points, <<t, x>>))
  BY DEF Follows
<1>0. PICK k : k = <<t, x>>
  OBVIOUS
<1>1. DOMAIN sent \subseteq Nat
  BY DEF ImportInv, ImportShape
<1>2. CASE NoneComing(k, p) /\ ShownLast(points, k)
  BY <1>0, <1>1, <1>2 DEF NoneComing
<1>3. CASE SaidLast(k, p)
  <2>1. PICK n \in DOMAIN sent : /\ n > p /\ Key(sent[n]) = k /\ sent[n].value = reading[k]
                                 /\ \A m \in DOMAIN sent : m > n => Key(sent[m]) # k
    BY <1>3 DEF SaidLast
  <2>2. CASE n > q
    BY <1>0, <2>1, <2>2 DEF SaidLast
  <2>3. CASE n <= q
    <3>1. n \in (p + 1)..q
      BY <1>1, <2>1, <2>3
    <3>2. sent[n].tag = t /\ sent[n].time = x /\ sent[n] = Point(k)
      BY <1>0, <2>1, SentAreRows DEF Key, Point
    <3>3. OnePerTime(points) /\ sent[n] \in Range(points)
      BY <3>1, <3>2
    <3>4. PICK i \in DOMAIN points : points[i] = sent[n]
      BY <3>3 DEF Range
    <3>5. \A m \in DOMAIN points : points[m].time = x => m = i
      BY <3>2, <3>3, <3>4 DEF OnePerTime
    <3>6. \A m \in DOMAIN points : m > i => points[m].time # x
      <4>1. i \in Nat
        BY <3>4
      <4> QED
        BY <3>5, <4>1
    <3>7. NoneComing(k, q)
      BY <1>1, <2>1, <2>3 DEF NoneComing
    <3> QED
      BY <1>0, <3>2, <3>4, <3>6, <3>7 DEF ShownLast
  <2> QED
    BY <1>1, <2>1, <2>2, <2>3
<1> QED
  BY <1>0, <1>2, <1>3 DEF Follows

\* The next message, if it is of the tag, is added.
LEMMA AddedKept ==
    ASSUME ImportInv, NEW points \in Seq(Points), NEW t, NEW p \in Nat, p + 1 \in DOMAIN sent,
           Follows(points, t, p), sent[p + 1].tag = t
    PROVE  Follows(Append(points, sent[p + 1]), t, p + 1)
<1> SUFFICES ASSUME NEW x \in Among(t), <<t, x>> \notin raced, ~SomeStored(<<t, x>>)
             PROVE  SaidLast(<<t, x>>, p + 1)
                    \/ (/\ NoneComing(<<t, x>>, p + 1)
                        /\ ShownLast(Append(points, sent[p + 1]), <<t, x>>))
  BY DEF Follows
<1>0. PICK k : k = <<t, x>>
  OBVIOUS
<1>1. DOMAIN sent \subseteq Nat
  BY DEF ImportInv, ImportShape
<1>2. PICK more : more = Append(points, sent[p + 1])
  OBVIOUS
<1>3. /\ Len(points) \in Nat /\ DOMAIN points = 1..Len(points)
      /\ DOMAIN more = 1..(Len(points) + 1) /\ more[Len(points) + 1] = sent[p + 1]
      /\ \A n \in DOMAIN points : more[n] = points[n]
  BY <1>2
<1>4. CASE NoneComing(k, p) /\ ShownLast(points, k)
  <2>1. NoneComing(k, p + 1)
    BY <1>1, <1>4 DEF NoneComing
  <2>2. Key(sent[p + 1]) # k
    BY <1>4 DEF NoneComing
  <2>3. sent[p + 1].time # x
    BY <1>0, <2>2 DEF Key
  <2>4. PICK n \in DOMAIN points : /\ points[n] = Point(k)
                                   /\ \A m \in DOMAIN points : m > n => points[m].time # k[2]
    BY <1>4 DEF ShownLast
  <2>5. n \in DOMAIN more /\ more[n] = Point(k)
    BY <1>3, <2>4
  <2>6. \A m \in DOMAIN more : m > n => more[m].time # k[2]
    BY <1>0, <1>3, <2>3, <2>4
  <2> QED
    BY <1>0, <1>2, <2>1, <2>5, <2>6 DEF ShownLast
<1>5. CASE SaidLast(k, p)
  <2>1. PICK n \in DOMAIN sent : /\ n > p /\ Key(sent[n]) = k /\ sent[n].value = reading[k]
                                 /\ \A m \in DOMAIN sent : m > n => Key(sent[m]) # k
    BY <1>5 DEF SaidLast
  <2>2. CASE n > p + 1
    BY <1>0, <2>1, <2>2 DEF SaidLast
  <2>3. CASE n = p + 1
    <3>1. sent[n] = Point(k)
      BY <1>0, <2>1, SentAreRows DEF Key, Point
    <3>2. NoneComing(k, p + 1)
      BY <2>1, <2>3 DEF NoneComing
    <3>3. Len(points) + 1 \in DOMAIN more /\ more[Len(points) + 1] = Point(k)
      BY <1>3, <2>3, <3>1
    <3>4. \A m \in DOMAIN more : ~(m > Len(points) + 1)
      BY <1>3
    <3> QED
      BY <1>0, <1>2, <3>2, <3>3, <3>4 DEF ShownLast
  <2> QED
    BY <1>1, <2>1, <2>2, <2>3
<1> QED
  BY <1>0, <1>4, <1>5 DEF Follows

\* An answer, when it is read, holds the oldest readings.
LEMMA AnswerFollows ==
    ASSUME ImportInv, NewestIsTrue, FewStored, NEW t \in Tags, NEW past \in Nat
    PROVE  /\ Oldest(t) \in Seq(Points) /\ OfTag(Oldest(t), t) /\ OnePerTime(Oldest(t))
           /\ Follows(Oldest(t), t, past)
<1>1. reading \in [Keys -> Values \cup {Missing}] /\ IsFiniteSet(StoredTimes(t))
      /\ DOMAIN sent \subseteq Nat
  BY DEF ImportInv, ImportShape, FewStored
<1>2. /\ Oldest(t) \in Seq(Points)
      /\ \A n \in DOMAIN Oldest(t) :
           /\ Oldest(t)[n].time \in Among(t)
           /\ Oldest(t)[n] = [tag |-> t, time |-> Oldest(t)[n].time,
                              value |-> reading[<<t, Oldest(t)[n].time>>]]
      /\ \A n, m \in DOMAIN Oldest(t) : Oldest(t)[n].time = Oldest(t)[m].time => n = m
      /\ \A x \in Among(t) : \E n \in DOMAIN Oldest(t) : Oldest(t)[n].time = x
  BY <1>1, OldestPoints
<1>3. OfTag(Oldest(t), t) /\ OnePerTime(Oldest(t))
  <2>1. \A n \in DOMAIN Oldest(t) : Oldest(t)[n].tag = t
    <3> TAKE n \in DOMAIN Oldest(t)
    <3>1. Oldest(t)[n] = [tag |-> t, time |-> Oldest(t)[n].time,
                          value |-> reading[<<t, Oldest(t)[n].time>>]]
      BY <1>2
    <3> QED
      BY <3>1
  <2> QED
    BY <1>2, <2>1 DEF OfTag, OnePerTime
<1>4. ASSUME NEW x \in Among(t), <<t, x>> \notin raced, ~SomeStored(<<t, x>>),
             ~SaidLast(<<t, x>>, past)
      PROVE  NoneComing(<<t, x>>, past) /\ ShownLast(Oldest(t), <<t, x>>)
  <2>0. PICK k : k = <<t, x>>
    OBVIOUS
  <2>1. k \in Keys /\ reading[k] # Missing
    BY <2>0 DEF Among, StoredTimes, Keys
  <2>2. SaidLast(k, 0)
    BY <1>4, <2>0, <2>1 DEF NewestIsTrue
  <2>3. PICK n \in DOMAIN sent : /\ n > 0 /\ Key(sent[n]) = k /\ sent[n].value = reading[k]
                                 /\ \A m \in DOMAIN sent : m > n => Key(sent[m]) # k
    BY <2>2 DEF SaidLast
  <2>4. ~(n > past)
    BY <1>4, <2>0, <2>3 DEF SaidLast
  <2>5. NoneComing(k, past)
    BY <1>1, <2>3, <2>4 DEF NoneComing
  <2>6. PICK i \in DOMAIN Oldest(t) : Oldest(t)[i].time = x
    BY <1>2
  <2>7. Oldest(t)[i] = Point(k)
    BY <1>2, <2>0, <2>6 DEF Point
  <2>8. DOMAIN Oldest(t) \subseteq Nat
    BY <1>2
  <2>9. \A m \in DOMAIN Oldest(t) : m > i => Oldest(t)[m].time # x
    BY <1>2, <2>6, <2>8
  <2> QED
    BY <2>0, <2>5, <2>6, <2>7, <2>9 DEF ShownLast
<1>5. Follows(Oldest(t), t, past)
  BY <1>4 DEF Follows
<1> QED
  BY <1>2, <1>3, <1>5

----
(* Dashboard: the chart and the answers. *)

AskRecords == [tag : Tags, phase : {"sent", "read", "done"}, points : Seq(Points), gap : BOOLEAN]

DashShape ==
    /\ chart \in [tag : Tags \cup {NoTag}, points : Seq(Points), inOrder : BOOLEAN, gap : BOOLEAN]
    /\ asks \in Seq(AskRecords)
    /\ socket \in [up : BOOLEAN, past : Nat, noticed : SUBSET Uploads]
    /\ socket.past <= Len(sent)

LastAsk == asks[Len(asks)]

\* The last request is for the chosen tag; an answer holds readings of its tag.
AnswersOK ==
    /\ asks # <<>> => LastAsk.tag = chart.tag
    /\ \A i \in DOMAIN asks : asks[i].phase = "read" =>
         OfTag(asks[i].points, asks[i].tag) /\ OnePerTime(asks[i].points)

\* With the answer to the last request in it, the chart follows its tag.
ChartOK ==
    chart.inOrder => /\ asks # <<>> /\ LastAsk.phase = "done"
                     /\ OfTag(chart.points, chart.tag)
                     /\ chart.gap \/ Follows(chart.points, chart.tag, socket.past)

\* So does the answer itself while it is under way.
LastOK ==
    asks # <<>> /\ LastAsk.phase = "read" =>
        LastAsk.gap \/ Follows(LastAsk.points, chart.tag, socket.past)

DashInv ==
    /\ ImportInv /\ NewestIsTrue /\ FewStored
    /\ DashShape /\ AnswersOK /\ ChartOK /\ LastOK

LEMMA DashStarts == DashInit => DashInv
<1> SUFFICES ASSUME DashInit PROVE DashInv
  OBVIOUS
<1>1. ImportInit /\ ImportInv
  BY ImportStarts DEF DashInit
<1>2. NewestIsTrue
  BY <1>1 DEF NewestIsTrue, ImportInit, NoJob, Jobs
<1>3. \A t \in Tags : StoredTimes(t) = {}
  BY <1>1 DEF StoredTimes, ImportInit, Keys
<1>4. FewStored
  BY <1>3, FS_EmptySet DEF FewStored
<1>5. sent = <<>>
  BY <1>1 DEF ImportInit
<1>6. DashShape /\ AnswersOK /\ ChartOK /\ LastOK
  BY <1>5 DEF DashInit, DashShape, AnswersOK, ChartOK, LastOK
<1> QED
  BY <1>1, <1>2, <1>4, <1>6 DEF DashInv

\* What the page does leaves the import alone.
LEMMA PageKeeps ==
    ASSUME ImportInv, NewestIsTrue, FewStored, UNCHANGED importVars
    PROVE  /\ ImportInv' /\ NewestIsTrue' /\ FewStored'
           /\ \A points, t, past : Follows(points, t, past)' = Follows(points, t, past)
<1>1. ImportInv'
  BY ImportSteps
<1>2. NewestIsTrue' /\ FewStored'
  BY OtherKeeps DEF importVars
<1>3. /\ \A k : SomeStored(k)' = SomeStored(k) /\ Point(k)' = Point(k)
      /\ \A k, past : SaidLast(k, past)' = SaidLast(k, past)
      /\ \A k, past : NoneComing(k, past)' = NoneComing(k, past)
      /\ \A t : Among(t)' = Among(t)
      /\ raced' = raced
  BY DEF importVars, SomeStored, SaidLast, NoneComing, Among, Older, StoredTimes, Row, Point
<1>4. \A points, t, past : Follows(points, t, past)' = Follows(points, t, past)
  BY <1>3 DEF Follows, ShownLast
<1> QED
  BY <1>1, <1>2, <1>4

\* The import goes on while the page waits.
LEMMA ImportMoves ==
    ASSUME DashInv, ImportNext, UNCHANGED <<chart, asks, socket>>
    PROVE  DashInv'
<1> USE DEF DashInv
<1>1. ImportInv'
  BY ImportSteps
<1>2. /\ NewestIsTrue' /\ FewStored'
      /\ \A points, t, past : (t \in Tags /\ past \in Nat /\ past <= Len(sent)) =>
                                 (Follows(points, t, past) => Follows(points, t, past)')
      /\ Len(sent) <= Len(sent')
  <2>1. PICK j \in Jobs : \/ Upload(j) \/ Message(j) \/ Store(j) \/ Broadcast(j)
                          \/ StopAtRow(j) \/ RecordImport(j)
    BY DEF ImportNext, Jobs
  <2>2. job \in [Jobs -> JobRecords] /\ sent \in Seq(AllRows)
    BY DEF ImportInv, ImportShape
  <2>3. CASE Upload(j) \/ Message(j) \/ StopAtRow(j) \/ RecordImport(j)
    <3>1. UNCHANGED <<reading, sent, raced>>
      BY <2>3 DEF Upload, Message, StopAtRow, RecordImport
    <3>2. \A o \in Jobs : o # j => job'[o] = job[o]
      BY <2>2, <2>3 DEF Upload, Message, StopAtRow, RecordImport
    <3>3. job[j].phase # "stored" /\ job'[j].phase # "stored"
      BY <2>2, <2>3 DEF Upload, Message, StopAtRow, RecordImport, JobRecords
    <3>4. /\ \A o \in Jobs : (job'[o].phase = "stored") = (job[o].phase = "stored")
          /\ \A o \in Jobs : job[o].phase = "stored" => job'[o] = job[o]
      BY <3>2, <3>3
    <3>5. NewestIsTrue' /\ FewStored'
      BY <3>1, <3>4, OtherKeeps
    <3>6. \A points, t, past : Follows(points, t, past) => Follows(points, t, past)'
      BY <3>1, <3>4, OtherKeeps
    <3>7. Len(sent) <= Len(sent')
      BY <2>2, <3>1
    <3> QED
      BY <3>5, <3>6, <3>7, Zenon
  <2>4. CASE Store(j)
    <3>1. Len(sent) <= Len(sent')
      BY <2>2, <2>4 DEF Store
    <3>2. /\ NewestIsTrue' /\ FewStored'
          /\ \A points, t, past : t \in Tags /\ Follows(points, t, past) => Follows(points, t, past)'
      BY <2>4, StoreKeeps
    <3> QED
      BY <3>1, <3>2, Zenon
  <2>5. CASE Broadcast(j)
    <3>1. Len(sent') = Len(sent) + 1
      <4>1. Row(j) \in AllRows
        BY <2>2, <2>5 DEF Broadcast, ImportInv, JobOK, JobRecords, Row
      <4> QED
        BY <2>2, <2>5, <4>1 DEF Broadcast
    <3>2. Len(sent) <= Len(sent')
      BY <2>2, <3>1
    <3>3. /\ NewestIsTrue' /\ FewStored'
          /\ \A points, t, past : (t \in Tags /\ past \in Nat /\ past <= Len(sent)) =>
                                     (Follows(points, t, past) => Follows(points, t, past)')
      BY <2>5, BroadcastKeeps
    <3> QED
      BY <3>2, <3>3, Zenon
  <2> QED
    BY <2>1, <2>3, <2>4, <2>5
<1>3. DashShape'
  <2>1. Len(sent) \in Nat /\ Len(sent') \in Nat /\ socket.past \in Nat
    BY <1>1 DEF ImportInv, ImportShape, DashShape
  <2> QED
    BY <1>2, <2>1 DEF DashShape
<1>4. AnswersOK'
  BY DEF AnswersOK, LastAsk
<1>5. PICK c, l, p : c = chart /\ l = LastAsk /\ p = socket.past
  OBVIOUS
<1>6. c = chart' /\ l = LastAsk' /\ p = socket'.past
  BY <1>5 DEF LastAsk
<1>7. p \in Nat /\ p <= Len(sent) /\ (asks # <<>> => c.tag \in Tags)
  <2>1. asks # <<>> => LastAsk \in AskRecords
    BY DEF DashShape, LastAsk
  <2> QED
    BY <2>1, <1>5 DEF DashShape, AnswersOK, AskRecords
<1>8. ChartOK'
  <2>1. c.inOrder => /\ asks # <<>> /\ l.phase = "done" /\ OfTag(c.points, c.tag)
                     /\ c.gap \/ Follows(c.points, c.tag, p)
    BY <1>5 DEF ChartOK
  <2>2. c.inOrder => c.gap \/ Follows(c.points, c.tag, p)'
    BY <2>1, <1>2, <1>7
  <2> QED
    BY <2>1, <2>2, <1>6 DEF ChartOK
<1>9. LastOK'
  <2>1. asks # <<>> /\ l.phase = "read" => l.gap \/ Follows(l.points, c.tag, p)
    BY <1>5 DEF LastOK
  <2>2. asks # <<>> /\ l.phase = "read" => l.gap \/ Follows(l.points, c.tag, p)'
    BY <2>1, <1>2, <1>7
  <2> QED
    BY <2>2, <1>6 DEF LastOK
<1> QED
  BY <1>1, <1>2, <1>3, <1>4, <1>8, <1>9

\* A new request, for the tag chosen by it: the chart is what it was until the answer.
LEMMA Asking ==
    ASSUME DashInv, UNCHANGED importVars, NEW t \in Tags, asks' = Ask(t),
           chart' = [chart EXCEPT !.tag = t, !.inOrder = FALSE],
           socket' \in [up : BOOLEAN, past : Nat, noticed : SUBSET Uploads],
           socket'.past = socket.past
    PROVE  DashInv'
<1> USE DEF DashInv
<1>1. ImportInv' /\ NewestIsTrue' /\ FewStored'
  BY PageKeeps
<1> DEFINE new == [tag |-> t, phase |-> "sent", points |-> <<>>, gap |-> FALSE]
<1>2. new \in AskRecords /\ asks' = Append(asks, new) /\ asks \in Seq(AskRecords)
  BY DEF AskRecords, Ask, DashShape
<1>3. /\ asks' \in Seq(AskRecords) /\ asks' # <<>> /\ Len(asks') = Len(asks) + 1
      /\ asks'[Len(asks')] = new
      /\ \A i \in DOMAIN asks' : i # Len(asks') => i \in DOMAIN asks /\ asks'[i] = asks[i]
  <2> HIDE DEF new
  <2> QED
    BY <1>2
<1>4. /\ chart' \in [tag : Tags \cup {NoTag}, points : Seq(Points), inOrder : BOOLEAN, gap : BOOLEAN]
      /\ chart'.tag = t /\ chart'.inOrder = FALSE
  BY DEF DashShape
<1>5. DashShape'
  BY <1>3, <1>4 DEF DashShape, importVars
<1>6. AnswersOK'
  <2>1. \A i \in DOMAIN asks' : asks'[i].phase = "read" => i \in DOMAIN asks /\ asks'[i] = asks[i]
    BY <1>3
  <2>2. \A i \in DOMAIN asks' : asks'[i].phase = "read" =>
          OfTag(asks'[i].points, asks'[i].tag) /\ OnePerTime(asks'[i].points)
    BY <2>1 DEF AnswersOK
  <2> QED
    BY <2>2, <1>3, <1>4 DEF AnswersOK, LastAsk, OfTag, OnePerTime
<1>7. ChartOK' /\ LastOK'
  BY <1>3, <1>4 DEF ChartOK, LastOK, LastAsk
<1> QED
  BY <1>1, <1>5, <1>6, <1>7

\* One request gets on; what is known of the others stays.
LEMMA OneAsk ==
    ASSUME DashInv, NEW i \in DOMAIN asks, NEW phase \in {"read", "done"}, NEW points \in Seq(Points),
           asks' = [asks EXCEPT ![i].phase = phase, ![i].points = points]
    PROVE  /\ asks' \in Seq(AskRecords) /\ Len(asks') = Len(asks) /\ asks # <<>> /\ asks' # <<>>
           /\ Len(asks) \in DOMAIN asks /\ DOMAIN asks' = DOMAIN asks
           /\ \A o \in DOMAIN asks : asks[o] \in AskRecords
           /\ \A o \in DOMAIN asks : o # i => asks'[o] = asks[o]
           /\ asks'[i].tag = asks[i].tag /\ asks'[i].phase = phase
           /\ asks'[i].points = points /\ asks'[i].gap = asks[i].gap
<1>1. asks \in Seq(AskRecords)
  BY DEF DashInv, DashShape
<1>2. \A o \in DOMAIN asks : asks[o] \in AskRecords
  BY <1>1, ElementOfSeq
<1>3. PICK z : z = [asks[i] EXCEPT !.phase = phase]
  OBVIOUS
<1>4. PICK y : y = [z EXCEPT !.points = points]
  OBVIOUS
<1>5. z \in AskRecords /\ z.tag = asks[i].tag /\ z.phase = phase /\ z.gap = asks[i].gap
  BY <1>2, <1>3 DEF AskRecords
<1>6. y \in AskRecords /\ y.tag = asks[i].tag /\ y.phase = phase /\ y.gap = asks[i].gap
      /\ y.points = points
  BY <1>4, <1>5 DEF AskRecords
<1>7. asks' = [asks EXCEPT ![i] = y]
  BY <1>1, <1>3, <1>4
<1>8. DOMAIN asks = 1..Len(asks) /\ Len(asks) \in Nat /\ i \in 1..Len(asks)
  BY <1>1
<1>9. asks' \in [1..Len(asks) -> AskRecords]
  BY <1>1, <1>2, <1>6, <1>7, <1>8
<1>10. asks' \in Seq(AskRecords)
  <2>1. PICK n \in Nat : n = Len(asks)
    BY <1>8
  <2>2. \A f : f \in [1..n -> AskRecords] => f \in Seq(AskRecords)
    BY SeqDef
  <2> QED
    BY <1>9, <2>1, <2>2
<1>11. DOMAIN asks' = DOMAIN asks /\ Len(asks') = Len(asks)
  BY <1>8, <1>9, <1>10
<1>12. asks # <<>> /\ asks' # <<>> /\ Len(asks) \in DOMAIN asks
  BY <1>8, <1>11
<1>13. asks'[i] = y /\ \A o \in DOMAIN asks : o # i => asks'[o] = asks[o]
  BY <1>1, <1>7
<1> QED
  BY <1>2, <1>6, <1>10, <1>11, <1>12, <1>13

LEMMA ReadStep ==
    ASSUME DashInv, NEW i \in DOMAIN asks, ReadReadings(i)
    PROVE  DashInv'
<1> USE DEF DashInv
<1>1. /\ asks[i].phase = "sent"
      /\ asks' = [asks EXCEPT ![i].phase = "read", ![i].points = Oldest(asks[i].tag)]
      /\ UNCHANGED <<importVars, chart, socket>>
  BY DEF ReadReadings
<1>2. /\ ImportInv' /\ NewestIsTrue' /\ FewStored'
      /\ \A points, t, past : Follows(points, t, past)' = Follows(points, t, past)
  BY <1>1, PageKeeps
<1>3. asks[i] \in AskRecords
  BY ElementOfSeq DEF DashShape
<1>4. PICK points, t, p, c : /\ points = Oldest(asks[i].tag) /\ t = asks[i].tag
                             /\ p = socket.past /\ c = chart
  OBVIOUS
<1>5. p \in Nat /\ t \in Tags
  BY <1>3, <1>4 DEF AskRecords, DashShape
<1>6. points \in Seq(Points) /\ OfTag(points, t) /\ OnePerTime(points) /\ Follows(points, t, p)
  BY <1>4, <1>5, AnswerFollows
<1>7. asks' = [asks EXCEPT ![i].phase = "read", ![i].points = points]
  BY <1>1, <1>4
<1>8. /\ asks' \in Seq(AskRecords) /\ Len(asks') = Len(asks) /\ asks # <<>> /\ asks' # <<>>
      /\ Len(asks) \in DOMAIN asks /\ DOMAIN asks' = DOMAIN asks
      /\ \A o \in DOMAIN asks : o # i => asks'[o] = asks[o]
      /\ asks'[i].tag = asks[i].tag /\ asks'[i].phase = "read"
      /\ asks'[i].points = points /\ asks'[i].gap = asks[i].gap
  BY <1>6, <1>7, OneAsk
<1>9. DashShape'
  BY <1>1, <1>8 DEF DashShape, importVars
<1>10. AnswersOK'
  <2>1. \A o \in DOMAIN asks' : asks'[o].phase = "read" =>
          OfTag(asks'[o].points, asks'[o].tag) /\ OnePerTime(asks'[o].points)
    BY <1>4, <1>6, <1>8 DEF AnswersOK
  <2>2. asks'[Len(asks')].tag = chart'.tag
    BY <1>1, <1>8 DEF AnswersOK, LastAsk
  <2> QED
    BY <2>1, <2>2 DEF AnswersOK, LastAsk, OfTag, OnePerTime
<1>11. c = chart' /\ p = socket'.past
  BY <1>1, <1>4
<1>12. ChartOK'
  <2>1. c.inOrder => /\ LastAsk.phase = "done" /\ OfTag(c.points, c.tag)
                     /\ c.gap \/ Follows(c.points, c.tag, p)
    BY <1>4 DEF ChartOK
  <2>2. c.inOrder => Len(asks) # i
    BY <2>1, <1>1 DEF LastAsk
  <2>3. c.inOrder => LastAsk'.phase = "done"
    BY <2>1, <2>2, <1>8 DEF LastAsk
  <2>4. c.inOrder => c.gap \/ Follows(c.points, c.tag, p)'
    BY <2>1, <1>2
  <2> QED
    BY <2>1, <2>3, <2>4, <1>8, <1>11 DEF ChartOK, OfTag
<1>13. LastOK'
  <2>1. PICK l : l = LastAsk'
    OBVIOUS
  <2>2. CASE i = Len(asks)
    <3>1. t = c.tag /\ l.points = points
      BY <2>1, <2>2, <1>4, <1>8 DEF AnswersOK, LastAsk
    <3>2. Follows(points, c.tag, p)'
      BY <3>1, <1>2, <1>6
    <3> QED
      BY <2>1, <3>1, <3>2, <1>11 DEF LastOK
  <2>3. CASE i # Len(asks)
    <3>1. l = LastAsk
      BY <2>1, <2>3, <1>8 DEF LastAsk
    <3>2. l.phase = "read" => l.gap \/ Follows(l.points, c.tag, p)
      BY <3>1, <1>4, <1>8 DEF LastOK
    <3>3. l.phase = "read" => l.gap \/ Follows(l.points, c.tag, p)'
      BY <3>2, <1>2
    <3> QED
      BY <2>1, <3>3, <1>11 DEF LastOK
  <2> QED
    BY <2>2, <2>3
<1> QED
  BY <1>2, <1>9, <1>10, <1>12, <1>13

\* An answer that came, or a request that failed, is over.
LEMMA AskEnds ==
    ASSUME DashInv, NEW i \in DOMAIN asks, UNCHANGED <<importVars, socket>>,
           asks' = [asks EXCEPT ![i].phase = "done", ![i].points = <<>>],
           \/ chart' = chart
           \/ /\ asks[i].phase = "read"
              /\ chart' = [chart EXCEPT !.points = asks[i].points, !.gap = asks[i].gap,
                                        !.inOrder = i = Len(asks)]
    PROVE  DashInv'
<1> USE DEF DashInv
<1>1. /\ ImportInv' /\ NewestIsTrue' /\ FewStored'
      /\ \A points, t, past : Follows(points, t, past)' = Follows(points, t, past)
  BY PageKeeps
<1>2. <<>> \in Seq(Points)
  OBVIOUS
<1>3. /\ asks' \in Seq(AskRecords) /\ Len(asks') = Len(asks) /\ asks # <<>> /\ asks' # <<>>
      /\ Len(asks) \in DOMAIN asks /\ DOMAIN asks' = DOMAIN asks
      /\ \A o \in DOMAIN asks : asks[o] \in AskRecords
      /\ \A o \in DOMAIN asks : o # i => asks'[o] = asks[o]
      /\ asks'[i].tag = asks[i].tag /\ asks'[i].phase = "done"
  BY <1>2, OneAsk
<1>4. PICK c, l, p : c = chart' /\ l = asks[i] /\ p = socket.past
  OBVIOUS
<1>5. l \in AskRecords /\ p = socket'.past
  BY <1>3, <1>4
<1>6. \/ c = chart
      \/ /\ l.phase = "read" /\ c.tag = chart.tag /\ c.points = l.points /\ c.gap = l.gap
         /\ c.inOrder = (i = Len(asks))
         /\ c \in [tag : Tags \cup {NoTag}, points : Seq(Points), inOrder : BOOLEAN, gap : BOOLEAN]
  <2>1. CASE chart' = chart
    BY <2>1, <1>4
  <2>2. CASE /\ asks[i].phase = "read"
             /\ chart' = [chart EXCEPT !.points = asks[i].points, !.gap = asks[i].gap,
                                       !.inOrder = i = Len(asks)]
    <3>1. PICK x : x = [chart EXCEPT !.points = l.points]
      OBVIOUS
    <3>2. PICK y : y = [x EXCEPT !.gap = l.gap]
      OBVIOUS
    <3>3. PICK b \in BOOLEAN : b = (i = Len(asks))
      OBVIOUS
    <3>4. c = [y EXCEPT !.inOrder = b]
      BY <2>2, <3>1, <3>2, <3>3, <1>4
    <3>5. /\ x \in [tag : Tags \cup {NoTag}, points : Seq(Points), inOrder : BOOLEAN, gap : BOOLEAN]
          /\ x.points = l.points /\ x.tag = chart.tag
      BY <3>1, <1>5 DEF DashShape, AskRecords
    <3>6. /\ y \in [tag : Tags \cup {NoTag}, points : Seq(Points), inOrder : BOOLEAN, gap : BOOLEAN]
          /\ y.points = l.points /\ y.tag = chart.tag /\ y.gap = l.gap
      BY <3>2, <3>5, <1>5 DEF AskRecords
    <3>7. /\ c \in [tag : Tags \cup {NoTag}, points : Seq(Points), inOrder : BOOLEAN, gap : BOOLEAN]
          /\ c.points = l.points /\ c.tag = chart.tag /\ c.gap = l.gap /\ c.inOrder = b
      BY <3>4, <3>6
    <3> QED
      BY <2>2, <3>3, <3>7, <1>4
  <2> QED
    BY <2>1, <2>2
<1>7. c.tag = chart.tag
  BY <1>6
<1>8. DashShape'
  <2>1. c \in [tag : Tags \cup {NoTag}, points : Seq(Points), inOrder : BOOLEAN, gap : BOOLEAN]
    BY <1>6 DEF DashShape
  <2> QED
    BY <2>1, <1>3, <1>4 DEF DashShape, importVars
<1>9. AnswersOK'
  <2>1. \A o \in DOMAIN asks' : asks'[o].phase = "read" => o \in DOMAIN asks /\ asks'[o] = asks[o]
    BY <1>3
  <2>2. \A o \in DOMAIN asks' : asks'[o].phase = "read" =>
          OfTag(asks'[o].points, asks'[o].tag) /\ OnePerTime(asks'[o].points)
    BY <2>1 DEF AnswersOK
  <2>3. asks'[Len(asks')].tag = chart'.tag
    BY <1>3, <1>4, <1>7 DEF AnswersOK, LastAsk
  <2> QED
    BY <2>2, <2>3 DEF AnswersOK, LastAsk, OfTag, OnePerTime
<1>10. ChartOK'
  <2>1. CASE c = chart
    <3>1. c.inOrder => /\ LastAsk.phase = "done" /\ OfTag(c.points, c.tag)
                       /\ c.gap \/ Follows(c.points, c.tag, p)
      BY <2>1, <1>4 DEF ChartOK
    <3>2. c.inOrder => LastAsk'.phase = "done"
      BY <3>1, <1>3 DEF LastAsk
    <3>3. c.inOrder => c.gap \/ Follows(c.points, c.tag, p)'
      BY <3>1, <1>1
    <3> QED
      BY <3>1, <3>2, <3>3, <1>3, <1>4, <1>5 DEF ChartOK, OfTag
  <2>2. CASE /\ l.phase = "read" /\ c.points = l.points /\ c.gap = l.gap
             /\ c.inOrder = (i = Len(asks))
    <3> SUFFICES ASSUME i = Len(asks)
                 PROVE  ChartOK'
      BY <2>2, <1>4 DEF ChartOK
    <3>1. l = LastAsk /\ l.tag = c.tag
      BY <1>3, <1>4, <1>7 DEF LastAsk, AnswersOK
    <3>2. OfTag(c.points, c.tag)
      BY <2>2, <3>1, <1>4 DEF AnswersOK
    <3>3. c.gap \/ Follows(c.points, c.tag, p)
      BY <2>2, <3>1, <1>3, <1>4, <1>7 DEF LastOK
    <3>4. c.gap \/ Follows(c.points, c.tag, p)'
      BY <3>3, <1>1
    <3>5. LastAsk'.phase = "done"
      BY <1>3 DEF LastAsk
    <3> QED
      BY <3>2, <3>4, <3>5, <1>3, <1>4, <1>5 DEF ChartOK, OfTag
  <2> QED
    BY <2>1, <2>2, <1>6
<1>11. LastOK'
  <2>1. PICK k : k = LastAsk'
    OBVIOUS
  <2>2. CASE i = Len(asks)
    BY <2>2, <1>3 DEF LastOK, LastAsk
  <2>3. CASE i # Len(asks)
    <3>1. k = LastAsk
      BY <2>1, <2>3, <1>3 DEF LastAsk
    <3>2. k.phase = "read" => k.gap \/ Follows(k.points, c.tag, p)
      BY <3>1, <1>3, <1>4, <1>7 DEF LastOK
    <3>3. k.phase = "read" => k.gap \/ Follows(k.points, c.tag, p)'
      BY <3>2, <1>1
    <3> QED
      BY <2>1, <3>3, <1>4, <1>5 DEF LastOK
  <2> QED
    BY <2>2, <2>3
<1> QED
  BY <1>1, <1>8, <1>9, <1>10, <1>11

\* A request after messages were lost, or came, between the reading of its answer and
\* the answer itself.
IsLacking(old, new, messages) ==
    /\ old \in AskRecords
    /\ new.tag = old.tag /\ new.phase = old.phase /\ new.points = old.points
    /\ new.gap = (old.gap \/ (old.phase = "read" /\ \E m \in messages :
                                  m.tag = old.tag /\ m \notin Range(old.points)))

LEMMA Lacks ==
    ASSUME DashInv, NEW messages, asks' = Lacking(messages)
    PROVE  /\ asks' \in Seq(AskRecords) /\ Len(asks') = Len(asks) /\ DOMAIN asks' = DOMAIN asks
           /\ asks # <<>> <=> asks' # <<>>
           /\ asks # <<>> => Len(asks) \in DOMAIN asks
           /\ \A o \in DOMAIN asks : IsLacking(asks[o], asks'[o], messages)
<1>1. asks \in Seq(AskRecords)
  BY DEF DashInv, DashShape
<1>2. \A o \in DOMAIN asks : asks[o] \in AskRecords
  BY <1>1, ElementOfSeq
<1>3. PICK n \in Nat : n = Len(asks) /\ DOMAIN asks = 1..n
  BY <1>1
<1>4. ASSUME NEW o \in DOMAIN asks
      PROVE  asks'[o] \in AskRecords /\ IsLacking(asks[o], asks'[o], messages)
  <2>1. PICK b \in BOOLEAN :
          b = (asks[o].gap \/ (asks[o].phase = "read" /\ \E m \in messages :
                                   m.tag = asks[o].tag /\ m \notin Range(asks[o].points)))
    BY <1>2 DEF AskRecords
  <2>2. asks'[o] = [asks[o] EXCEPT !.gap = b]
    BY <2>1 DEF Lacking
  <2>3. asks[o] \in AskRecords
    BY <1>2
  <2>4. /\ asks'[o] \in AskRecords /\ asks'[o].gap = b
        /\ asks'[o].tag = asks[o].tag /\ asks'[o].phase = asks[o].phase
        /\ asks'[o].points = asks[o].points
    BY <2>2, <2>3 DEF AskRecords
  <2> QED
    BY <2>1, <2>3, <2>4 DEF IsLacking
<1>5. asks' \in [1..n -> AskRecords]
  BY <1>3, <1>4 DEF Lacking
<1>6. asks' \in Seq(AskRecords)
  <2>1. \A f : f \in [1..n -> AskRecords] => f \in Seq(AskRecords)
    BY SeqDef
  <2> QED
    BY <1>5, <2>1
<1>7. DOMAIN asks' = DOMAIN asks /\ Len(asks') = Len(asks)
  BY <1>3, <1>5, <1>6
<1>8. /\ asks # <<>> <=> asks' # <<>>
      /\ asks # <<>> => Len(asks) \in DOMAIN asks
  BY <1>1, <1>3, <1>6, <1>7
<1> QED
  BY <1>2, <1>4, <1>6, <1>7, <1>8

\* The socket gets past messages; the chart is known to follow its tag after them.
LEMMA SocketMoves ==
    ASSUME DashInv, UNCHANGED importVars, NEW q \in Nat, socket.past <= q, q <= Len(sent),
           socket' \in [up : BOOLEAN, past : Nat, noticed : SUBSET Uploads], socket'.past = q,
           NEW messages, messages = {sent[n] : n \in (socket.past + 1)..q},
           asks' = Lacking(messages), NEW c, c = chart',
           c \in [tag : Tags \cup {NoTag}, points : Seq(Points), inOrder : BOOLEAN, gap : BOOLEAN],
           c.tag = chart.tag, c.inOrder = chart.inOrder,
           c.inOrder => OfTag(c.points, c.tag) /\ (c.gap \/ Follows(c.points, c.tag, q))
    PROVE  DashInv'
<1>1. /\ asks' \in Seq(AskRecords) /\ Len(asks') = Len(asks) /\ DOMAIN asks' = DOMAIN asks
      /\ asks # <<>> <=> asks' # <<>>
      /\ asks # <<>> => Len(asks) \in DOMAIN asks
      /\ \A o \in DOMAIN asks : IsLacking(asks[o], asks'[o], messages)
  BY Lacks
<1> USE DEF DashInv
<1>2. /\ ImportInv' /\ NewestIsTrue' /\ FewStored'
      /\ \A points, t, past : Follows(points, t, past)' = Follows(points, t, past)
  BY PageKeeps
<1>3. DashShape'
  BY <1>1 DEF DashShape, importVars
<1>4. AnswersOK'
  <2>1. \A o \in DOMAIN asks' : asks'[o].phase = "read" =>
          OfTag(asks'[o].points, asks'[o].tag) /\ OnePerTime(asks'[o].points)
    BY <1>1 DEF AnswersOK, IsLacking
  <2>2. asks' # <<>> => asks'[Len(asks')].tag = c.tag
    BY <1>1 DEF AnswersOK, LastAsk, IsLacking
  <2> QED
    BY <2>1, <2>2 DEF AnswersOK, LastAsk, OfTag, OnePerTime
<1>5. ChartOK'
  <2>1. c.inOrder => asks' # <<>> /\ LastAsk'.phase = "done"
    BY <1>1 DEF ChartOK, LastAsk, IsLacking
  <2>2. c.inOrder => OfTag(c.points, c.tag) /\ (c.gap \/ Follows(c.points, c.tag, q)')
    BY <1>2
  <2> QED
    BY <2>1, <2>2 DEF ChartOK, OfTag
<1>6. LastOK'
  <2>1. PICK l, k, p : l = LastAsk /\ k = LastAsk' /\ p = socket.past
    OBVIOUS
  <2>2. ASSUME asks # <<>>, k.phase = "read", ~k.gap
        PROVE  Follows(k.points, c.tag, q)
    <3>1. l = asks[Len(asks)] /\ k = asks'[Len(asks)] /\ Len(asks) \in DOMAIN asks
      BY <1>1, <2>1, <2>2 DEF LastAsk
    <3>2. /\ l \in AskRecords /\ k.tag = l.tag /\ k.phase = l.phase /\ k.points = l.points
          /\ k.gap = (l.gap \/ (l.phase = "read" /\ \E m \in messages :
                                   m.tag = l.tag /\ m \notin Range(l.points)))
      BY <1>1, <3>1 DEF IsLacking
    <3>3. ~l.gap /\ l.phase = "read" /\ \A m \in messages : m.tag = l.tag => m \in Range(l.points)
      BY <2>2, <3>2
    <3>4. l.tag = c.tag /\ OnePerTime(l.points)
      BY <2>1, <2>2, <3>1, <3>3 DEF AnswersOK, LastAsk
    <3>5. Follows(l.points, c.tag, p)
      BY <2>1, <2>2, <3>3 DEF LastOK
    <3>6. \A n \in (p + 1)..q : n \in DOMAIN sent /\ sent[n].tag = c.tag =>
            sent[n] \in Range(l.points) /\ OnePerTime(l.points)
      BY <2>1, <3>3, <3>4
    <3>7. p \in Nat /\ p <= q /\ l.points \in Seq(Points)
      BY <2>1, <3>2 DEF DashShape, AskRecords
    <3>8. Follows(l.points, c.tag, q)
      BY <3>5, <3>6, <3>7, PastKept
    <3> QED
      BY <3>2, <3>8
  <2>3. asks # <<>> /\ k.phase = "read" => k.gap \/ Follows(k.points, c.tag, q)'
    BY <2>2, <1>2
  <2> QED
    BY <2>1, <2>3, <1>1 DEF LastOK
<1> QED
  BY <1>2, <1>3, <1>4, <1>5, <1>6

LEMMA ConnectStep == ASSUME DashInv, Connect PROVE DashInv'
<1> USE DEF DashInv
<1>1. PICK lost : lost = {sent[n] : n \in (socket.past + 1)..Len(sent)}
  OBVIOUS
<1>2. /\ socket' = [socket EXCEPT !.up = TRUE, !.past = Len(sent)]
      /\ chart' = [chart EXCEPT !.gap = @ \/ \E m \in lost : m.tag = chart.tag]
      /\ asks' = Lacking(lost)
      /\ UNCHANGED importVars
  BY <1>1 DEF Connect
<1>3. PICK c, p, q : c = chart' /\ p = socket.past /\ q = Len(sent)
  OBVIOUS
<1>4. p \in Nat /\ q \in Nat /\ p <= q
  BY <1>3 DEF DashShape, ImportInv, ImportShape
<1>5. socket' \in [up : BOOLEAN, past : Nat, noticed : SUBSET Uploads] /\ socket'.past = q
  BY <1>2, <1>3, <1>4 DEF DashShape
<1>6. PICK b \in BOOLEAN : b = (chart.gap \/ \E m \in lost : m.tag = chart.tag)
  BY DEF DashShape
<1>7. c = [chart EXCEPT !.gap = b]
  BY <1>2, <1>3, <1>6
<1>8. /\ c \in [tag : Tags \cup {NoTag}, points : Seq(Points), inOrder : BOOLEAN, gap : BOOLEAN]
      /\ c.tag = chart.tag /\ c.inOrder = chart.inOrder /\ c.points = chart.points /\ c.gap = b
  BY <1>7 DEF DashShape
<1>9. c.inOrder => OfTag(c.points, c.tag) /\ (c.gap \/ Follows(c.points, c.tag, q))
  <2> SUFFICES ASSUME c.inOrder, ~c.gap
               PROVE  Follows(c.points, c.tag, q)
    BY <1>8 DEF ChartOK
  <2>1. Follows(c.points, c.tag, p)
    BY <1>3, <1>6, <1>8 DEF ChartOK
  <2>2. \A n \in (p + 1)..q : n \in DOMAIN sent => sent[n].tag # c.tag
    BY <1>1, <1>3, <1>6, <1>8
  <2>3. c.points \in Seq(Points)
    BY <1>8
  <2> QED
    BY <2>1, <2>2, <2>3, <1>4, PastKept
<1> QED
  BY <1>1, <1>2, <1>3, <1>4, <1>5, <1>8, <1>9, SocketMoves

LEMMA DeliverStep == ASSUME DashInv, Deliver PROVE DashInv'
<1> USE DEF DashInv
<1>1. PICK p, q, m, c : p = socket.past /\ q = p + 1 /\ m = sent[p + 1] /\ c = chart'
  OBVIOUS
<1>2. /\ socket.past < Len(sent) /\ socket' = [socket EXCEPT !.past = @ + 1]
      /\ chart' = [chart EXCEPT !.points = IF m.tag = chart.tag THEN Append(@, m) ELSE @]
      /\ asks' = Lacking({m})
      /\ UNCHANGED importVars
  BY <1>1 DEF Deliver
<1>3. p \in Nat /\ Len(sent) \in Nat /\ DOMAIN sent = 1..Len(sent) /\ p < Len(sent)
  BY <1>1, <1>2 DEF DashShape, ImportInv, ImportShape
<1>4. q \in Nat /\ p <= q /\ q <= Len(sent) /\ q \in DOMAIN sent /\ p + 1 = q
  BY <1>1, <1>3
<1>5. m \in AllRows /\ m \in Points
  BY <1>1, <1>4, SentAreRows DEF Points
<1>6. {m} = {sent[n] : n \in (socket.past + 1)..q}
  <2>1. (p + 1)..q = {q}
    BY <1>3, <1>4
  <2> QED
    BY <2>1, <1>1
<1>7. socket' \in [up : BOOLEAN, past : Nat, noticed : SUBSET Uploads] /\ socket'.past = q
  BY <1>1, <1>2, <1>4 DEF DashShape
<1>8. PICK points : points = IF m.tag = chart.tag THEN Append(chart.points, m) ELSE chart.points
  OBVIOUS
<1>9. points \in Seq(Points) /\ chart.points \in Seq(Points)
  BY <1>5, <1>8 DEF DashShape
<1>10. c = [chart EXCEPT !.points = points]
  BY <1>1, <1>2, <1>8
<1>11. /\ c \in [tag : Tags \cup {NoTag}, points : Seq(Points), inOrder : BOOLEAN, gap : BOOLEAN]
       /\ c.tag = chart.tag /\ c.inOrder = chart.inOrder /\ c.points = points /\ c.gap = chart.gap
  BY <1>9, <1>10 DEF DashShape
<1>12. c.inOrder => OfTag(c.points, c.tag) /\ (c.gap \/ Follows(c.points, c.tag, q))
  <2> SUFFICES ASSUME c.inOrder
               PROVE  OfTag(points, c.tag) /\ (c.gap \/ Follows(points, c.tag, q))
    BY <1>11
  <2>1. PICK old : old = chart.points
    OBVIOUS
  <2>2. old \in Seq(Points) /\ OfTag(old, c.tag) /\ (c.gap \/ Follows(old, c.tag, p))
    BY <2>1, <1>1, <1>9, <1>11 DEF ChartOK
  <2>3. CASE m.tag = c.tag
    <3>1. points = Append(old, m)
      BY <2>1, <2>3, <1>8, <1>11
    <3>2. OfTag(points, c.tag)
      BY <2>2, <2>3, <3>1, <1>5 DEF OfTag
    <3>3. c.gap \/ Follows(Append(old, sent[p + 1]), c.tag, p + 1)
      BY <2>2, <2>3, <1>1, <1>3, <1>4, AddedKept
    <3> QED
      BY <3>1, <3>2, <3>3, <1>1, <1>4
  <2>4. CASE m.tag # c.tag
    <3>1. points = old
      BY <2>1, <2>4, <1>8, <1>11
    <3>2. \A n \in (p + 1)..q : n \in DOMAIN sent => sent[n].tag # c.tag
      BY <2>4, <1>1, <1>3, <1>4
    <3>3. c.gap \/ Follows(old, c.tag, q)
      BY <2>2, <3>2, <1>3, <1>4, PastKept
    <3> QED
      BY <2>2, <3>1, <3>3
  <2> QED
    BY <2>3, <2>4
<1> QED
  BY <1>1, <1>2, <1>4, <1>6, <1>7, <1>11, <1>12, SocketMoves

LEMMA DashSteps == DashInv /\ [DashNext]_dashVars => DashInv'
<1> SUFFICES ASSUME DashInv, [DashNext]_dashVars PROVE DashInv'
  OBVIOUS
<1>1. ImportInv /\ NewestIsTrue /\ FewStored /\ DashShape
  BY DEF DashInv
<1>2. ASSUME UNCHANGED <<importVars, chart, asks>>, socket'.past = socket.past,
             socket' \in [up : BOOLEAN, past : Nat, noticed : SUBSET Uploads]
      PROVE  DashInv'
  <2>1. /\ ImportInv' /\ NewestIsTrue' /\ FewStored'
        /\ \A points, t, past : Follows(points, t, past)' = Follows(points, t, past)
    BY <1>1, <1>2, PageKeeps
  <2>2. PICK c, l, p : c = chart /\ l = LastAsk /\ p = socket.past
    OBVIOUS
  <2>3. c = chart' /\ l = LastAsk' /\ p = socket'.past
    BY <1>2, <2>2 DEF LastAsk
  <2>4. DashShape' /\ AnswersOK'
    BY <1>2 DEF DashInv, DashShape, AnswersOK, LastAsk, importVars, OfTag, OnePerTime
  <2>5. ChartOK'
    <3>1. c.inOrder => /\ asks # <<>> /\ l.phase = "done" /\ OfTag(c.points, c.tag)
                       /\ c.gap \/ Follows(c.points, c.tag, p)'
      BY <2>1, <2>2 DEF DashInv, ChartOK
    <3> QED
      BY <1>2, <2>3, <3>1 DEF ChartOK
  <2>6. LastOK'
    <3>1. asks # <<>> /\ l.phase = "read" => l.gap \/ Follows(l.points, c.tag, p)'
      BY <2>1, <2>2 DEF DashInv, LastOK
    <3> QED
      BY <1>2, <2>3, <3>1 DEF LastOK
  <2> QED
    BY <2>1, <2>4, <2>5, <2>6 DEF DashInv
<1>3. CASE UNCHANGED dashVars
  <2>1. socket' \in [up : BOOLEAN, past : Nat, noticed : SUBSET Uploads]
    BY <1>1, <1>3 DEF DashShape, dashVars
  <2> QED
    BY <1>2, <1>3, <2>1 DEF dashVars
<1>4. CASE ImportNext /\ UNCHANGED <<chart, asks, socket>>
  BY <1>4, ImportMoves
<1>5. ASSUME NEW t \in Tags, Select(t) PROVE DashInv'
  <2>1. socket' = [socket EXCEPT !.up = FALSE]
    BY <1>5 DEF Select
  <2>2. socket' \in [up : BOOLEAN, past : Nat, noticed : SUBSET Uploads] /\ socket'.past = socket.past
    BY <1>1, <2>1 DEF DashShape
  <2> QED
    BY <1>5, <2>2, Asking DEF Select
<1>6. ASSUME NEW j \in Uploads, Refresh(j) PROVE DashInv'
  <2>1. socket' = [socket EXCEPT !.noticed = @ \cup {j}]
    BY <1>6 DEF Refresh
  <2>2. socket' \in [up : BOOLEAN, past : Nat, noticed : SUBSET Uploads] /\ socket'.past = socket.past
    BY <1>1, <2>1 DEF DashShape
  <2>3. chart.tag \in Tags /\ asks' = Ask(chart.tag) /\ chart' = [chart EXCEPT !.inOrder = FALSE]
    BY <1>1, <1>6 DEF Refresh, DashShape
  <2>4. PICK t \in Tags : t = chart.tag
    BY <2>3
  <2>5. asks' = Ask(t) /\ chart' = [chart EXCEPT !.tag = t, !.inOrder = FALSE]
    BY <1>1, <2>3, <2>4 DEF DashShape
  <2> QED
    BY <1>6, <2>2, <2>5, Asking DEF Refresh
<1>7. ASSUME NEW i \in DOMAIN asks, ReadReadings(i) PROVE DashInv'
  BY <1>7, ReadStep
<1>8. ASSUME NEW i \in DOMAIN asks, TakeAnswer(i) PROVE DashInv'
  BY <1>8, AskEnds DEF TakeAnswer
<1>9. ASSUME NEW i \in DOMAIN asks, AskFails(i) PROVE DashInv'
  BY <1>9, AskEnds DEF AskFails
<1>10. CASE Disconnect
  <2>1. socket' = [socket EXCEPT !.up = FALSE] /\ UNCHANGED <<importVars, chart, asks>>
    BY <1>10 DEF Disconnect
  <2>2. socket' \in [up : BOOLEAN, past : Nat, noticed : SUBSET Uploads] /\ socket'.past = socket.past
    BY <1>1, <2>1 DEF DashShape
  <2> QED
    BY <1>2, <2>1, <2>2
<1> QED
  BY <1>3, <1>4, <1>5, <1>6, <1>7, <1>8, <1>9, <1>10, ConnectStep, DeliverStep DEF DashNext

\* With nothing under way the right point was shown last.
LEMMA DashInvSuffices == DashInv => ChartFollowsTag
<1> SUFFICES ASSUME DashInv, Quiet, chart.inOrder
             PROVE  /\ \A i \in DOMAIN chart.points : chart.points[i].tag = chart.tag
                    /\ ~chart.gap => \A m \in Range(Oldest(chart.tag)) :
                         <<m.tag, m.time>> \in raced \/
                         LET at == {i \in DOMAIN chart.points : chart.points[i].time = m.time}
                         IN  at # {} /\ chart.points[Max(at)] = m
  BY DEF ChartFollowsTag
<1> USE DEF DashInv
<1>1. PICK points, t, p : points = chart.points /\ t = chart.tag /\ p = socket.past
  OBVIOUS
<1>2. OfTag(points, t) /\ points \in Seq(Points)
  BY <1>1 DEF ChartOK, DashShape
<1>3. t \in Tags
  <2>1. asks # <<>> /\ LastAsk \in AskRecords
    BY DEF ChartOK, DashShape, LastAsk
  <2> QED
    BY <2>1, <1>1 DEF AnswersOK, AskRecords
<1>4. reading \in [Keys -> Values \cup {Missing}] /\ IsFiniteSet(StoredTimes(t))
      /\ p = Len(sent) /\ DOMAIN sent = 1..Len(sent) /\ Len(sent) \in Nat
      /\ job \in [Jobs -> JobRecords]
  BY <1>1, <1>3 DEF ImportInv, ImportShape, FewStored, Quiet
<1>5. /\ \A k : ~SomeStored(k)
      /\ \A k : ~SaidLast(k, p)
  BY <1>4 DEF Quiet, SomeStored, SaidLast
<1>6. ASSUME ~chart.gap, NEW m \in Range(Oldest(t)), <<m.tag, m.time>> \notin raced
      PROVE  LET at == {i \in DOMAIN points : points[i].time = m.time}
             IN  at # {} /\ points[Max(at)] = m
  <2>1. PICK n \in DOMAIN Oldest(t) : Oldest(t)[n] = m
    BY <1>6 DEF Range
  <2>2. m.time \in Among(t) /\ m = [tag |-> t, time |-> m.time, value |-> reading[<<t, m.time>>]]
    BY <1>3, <1>4, <2>1, OldestPoints
  <2>3. PICK k : k = <<t, m.time>>
    OBVIOUS
  <2>4. m = Point(k) /\ k \notin raced
    BY <1>6, <2>2, <2>3 DEF Point
  <2>5. ShownLast(points, k)
    BY <1>1, <1>5, <1>6, <2>2, <2>3, <2>4 DEF ChartOK, Follows
  <2>6. PICK i \in DOMAIN points : /\ points[i] = m
                                   /\ \A j \in DOMAIN points : j > i => points[j].time # m.time
    BY <2>3, <2>4, <2>5 DEF ShownLast
  <2> DEFINE at == {j \in DOMAIN points : points[j].time = m.time}
  <2>7. i \in at /\ at \subseteq Nat /\ \A j \in at : i >= j
    BY <1>2, <2>6
  <2> HIDE DEF at
  <2>8. Max(at) = i
    <3>1. \E x \in at : \A y \in at : x >= y
      BY <2>7
    <3>2. Max(at) \in at /\ \A y \in at : Max(at) >= y
      BY <3>1 DEF Max
    <3> QED
      BY <3>2, <2>7
  <2>9. at # {} /\ points[Max(at)] = m
    BY <2>6, <2>7, <2>8
  <2> QED
    BY <2>9 DEF at
<1> QED
  BY <1>1, <1>2, <1>6 DEF OfTag

\* For any number of uploads, messages and requests and any limit of the answer: with
\* nothing under way, and the answer asked for last in the chart, it shows its tag
\* only, and the last point at each of the oldest times is what is stored.
THEOREM ChartsFollow == DashSpec => []ChartFollowsTag
<1>1. DashInit => DashInv
  BY DashStarts
<1>2. DashInv /\ [DashNext]_dashVars => DashInv'
  BY DashSteps
<1>3. DashInv => ChartFollowsTag
  BY DashInvSuffices
<1> QED
  BY <1>1, <1>2, <1>3, PTL DEF DashSpec

----
(* Dashboard: the shape of its state. *)

\* An answer is no longer than the limit of the query.
ShortAnswers == \A i \in DOMAIN asks : Len(asks[i].points) <= Take

LEMMA OldestIsShort ==
    ASSUME NEW t \in Tags, IsFiniteSet(StoredTimes(t))
    PROVE  Len(Oldest(t)) <= Take
<1> DEFINE stored == Cardinality(StoredTimes(t))
           count == IF stored < Take THEN stored ELSE Take
           at(n) == CHOOSE x \in StoredTimes(t) : Cardinality(Older(t, x)) = n - 1
<1>1. Oldest(t) = [n \in 1..count |-> [tag |-> t, time |-> at(n), value |-> reading[<<t, at(n)>>]]]
  BY DEF Oldest
<1>2. stored \in Nat /\ Take \in Nat
  BY FS_CardinalityType, DashboardAssumption
<1>3. count \in Nat /\ count <= Take
  BY <1>2
<1> HIDE DEF count, stored, at
<1> QED
  BY <1>1, <1>3

LEMMA AnswersKeepShort ==
    ASSUME DashInv, ShortAnswers, [DashNext]_dashVars
    PROVE  ShortAnswers'
<1>1. asks \in Seq(AskRecords) /\ Take \in Nat /\ Len(<<>>) = 0 /\ <<>> \in Seq(Points)
  BY DashboardAssumption DEF DashInv, DashShape
<1>2. \A i \in DOMAIN asks : asks[i] \in AskRecords
  BY <1>1, ElementOfSeq
<1>3. CASE UNCHANGED asks
  BY <1>3 DEF ShortAnswers
<1>4. ASSUME NEW t \in Tags, asks' = Ask(t)
      PROVE  ShortAnswers'
  <2> DEFINE new == [tag |-> t, phase |-> "sent", points |-> <<>>, gap |-> FALSE]
  <2>1. new \in AskRecords /\ Len(new.points) <= Take
    BY <1>1 DEF AskRecords
  <2>2. asks' = Append(asks, new)
    BY <1>4 DEF Ask
  <2> HIDE DEF new
  <2>3. \A i \in DOMAIN asks' : asks'[i] = new \/ (i \in DOMAIN asks /\ asks'[i] = asks[i])
    BY <1>1, <2>1, <2>2
  <2> QED
    BY <2>1, <2>3 DEF ShortAnswers
<1>5. ASSUME NEW i \in DOMAIN asks, NEW phase \in {"read", "done"}, NEW points \in Seq(Points),
             Len(points) <= Take,
             asks' = [asks EXCEPT ![i].phase = phase, ![i].points = points]
      PROVE  ShortAnswers'
  <2>1. /\ DOMAIN asks' = DOMAIN asks /\ asks'[i].points = points
        /\ \A o \in DOMAIN asks : o # i => asks'[o] = asks[o]
    BY <1>5, OneAsk
  <2> QED
    BY <1>5, <2>1 DEF ShortAnswers
<1>6. ASSUME NEW messages, asks' = Lacking(messages)
      PROVE  ShortAnswers'
  <2>1. DOMAIN asks' = DOMAIN asks /\ \A o \in DOMAIN asks : IsLacking(asks[o], asks'[o], messages)
    BY <1>6, Lacks
  <2> QED
    BY <2>1 DEF IsLacking, ShortAnswers
<1>7. ASSUME NEW t \in Tags, Select(t) PROVE ShortAnswers'
  BY <1>4, <1>7 DEF Select
<1>8. ASSUME NEW j \in Uploads, Refresh(j) PROVE ShortAnswers'
  <2>1. chart.tag \in Tags
    BY <1>8 DEF Refresh, DashInv, DashShape
  <2> QED
    BY <1>4, <1>8, <2>1 DEF Refresh
<1>9. ASSUME NEW i \in DOMAIN asks, ReadReadings(i) PROVE ShortAnswers'
  <2>1. PICK t \in Tags : t = asks[i].tag
    BY <1>2 DEF AskRecords
  <2>2. PICK points : points = Oldest(t)
    OBVIOUS
  <2>3. points \in Seq(Points) /\ Len(points) <= Take
    BY <2>2, OldestPoints, OldestIsShort DEF DashInv, ImportInv, ImportShape, FewStored
  <2>4. asks' = [asks EXCEPT ![i].phase = "read", ![i].points = points]
    BY <1>9, <2>1, <2>2 DEF ReadReadings
  <2> QED
    BY <1>5, <2>3, <2>4
<1>10. ASSUME NEW i \in DOMAIN asks, TakeAnswer(i) \/ AskFails(i) PROVE ShortAnswers'
  <2>1. Len(<<>>) <= Take
    BY <1>1
  <2> QED
    BY <1>1, <1>5, <1>10, <2>1 DEF TakeAnswer, AskFails
<1>11. CASE Connect \/ Deliver
  BY <1>6, <1>11 DEF Connect, Deliver
<1> QED
  BY <1>3, <1>7, <1>8, <1>9, <1>10, <1>11 DEF DashNext, Disconnect, dashVars

\* The chart's module moves the import's variables by the import's own steps only.
LEMMA DashIsImport == DashSpec => ImportSpec
<1>1. DashInit => ImportInit
  BY DEF DashInit
<1>2. [DashNext]_dashVars => [ImportNext]_importVars
  BY DEF DashNext, dashVars, Select, Refresh, ReadReadings, TakeAnswer, AskFails, Connect, Disconnect,
         Deliver
<1> QED
  BY <1>1, <1>2, PTL DEF DashSpec, ImportSpec

LEMMA DashTypeSuffices == DashInv /\ ShortAnswers /\ ImportTypeOK => DashTypeOK
<1> SUFFICES ASSUME DashInv, ShortAnswers, ImportTypeOK PROVE DashTypeOK
  OBVIOUS
<1>1. asks \in Seq(AskRecords) /\ Len(sent) \in Nat
  BY DEF DashInv, DashShape, ImportInv, ImportShape
<1>2. \A i \in DOMAIN asks : asks[i] \in AskRecords
  BY <1>1, ElementOfSeq
<1>3. chart.tag \in Tags \cup {NoTag} /\ {chart.inOrder, chart.gap} \subseteq BOOLEAN
  BY DEF DashInv, DashShape
<1>4. \A i \in DOMAIN asks : /\ asks[i].tag \in Tags /\ asks[i].gap \in BOOLEAN
                            /\ asks[i].phase \in {"sent", "read", "done"}
                            /\ Len(asks[i].points) <= Take
  BY <1>2 DEF AskRecords, ShortAnswers
<1>5. socket.up \in BOOLEAN /\ socket.past \in 0..Len(sent) /\ socket.noticed \subseteq Uploads
  BY <1>1 DEF DashInv, DashShape
<1> QED
  BY <1>3, <1>4, <1>5 DEF DashTypeOK

\* DashboardPage.tsx and readings(), types: no answer is longer than the limit, and the
\* socket is never past a message that was not sent.
THEOREM DashTyped == DashSpec => []DashTypeOK
<1>1. DashInit => ShortAnswers
  BY DEF DashInit, ShortAnswers
<1>2. DashInv /\ ShortAnswers /\ [DashNext]_dashVars => ShortAnswers'
  BY AnswersKeepShort
<1>3. DashSpec => [](DashInv /\ ShortAnswers)
  BY DashStarts, DashSteps, <1>1, <1>2, PTL DEF DashSpec
<1>4. DashSpec => []ImportTypeOK
  BY DashIsImport, ImportTyped, PTL
<1> QED
  BY <1>3, <1>4, DashTypeSuffices, PTL

----
(* Startup. *)

TagNames == Range(TagSpecs)

Meters == Range(MeterSpecs)

Labels == {"tenant", "operator", "admin", "planner", "technician",
           "site", "unit", "pump", "column", "order", "plan"}

Tasks == [do : {"find", "write", "upsert"}, of : Labels]
         \cup [do : {"tag", "count", "window", "history"}, of : TagNames]
         \cup [do : {"meter"}, of : Meters]

\* What a task is for.
Fulfilled(task) ==
    /\ task.do \in {"find", "upsert"} => RowOf(task.of) \in rows
    /\ task.do = "tag" => limits[task.of] = CatalogLimits
    /\ task.do = "meter" => RowOf(task.of.code) \in rows /\ linked[task.of] = task.of.tag
    /\ task.do = "count" => readings[task.of] >= Enough

\* The first of two tasks is the second, or what it has become.
Serves(a, b) ==
    \/ a = b
    \/ a.do = "write" /\ b.do = "find" /\ a.of = b.of
    \/ a.do = "window" /\ b.do = "count" /\ a.of = b.of

Awaits(todo, task) == \E x \in DOMAIN todo : Serves(todo[x], task)

\* Tags come before meters, and only the first task has become another one.
Ordered(todo) ==
    \A x, y \in DOMAIN todo : x < y =>
        /\ todo[y].do \notin {"write", "window"}
        /\ todo[y].do = "tag" => todo[x].do # "meter"

\* What is left of a window of readings makes it full.
WindowFills(s) ==
    starter[s].todo # <<>> /\ Head(starter[s].todo).do = "window" =>
        /\ starter[s].left \in 1..Window
        /\ readings[Head(starter[s].todo).of] + starter[s].left >= Window

\* Each task of a start is fulfilled or still to be done.
Pursues(s) ==
    /\ starter[s].phase = "up" =>
         \A task \in Range(Program(s)) : Fulfilled(task) \/ Awaits(starter[s].todo, task)
    /\ starter[s].phase = "complete" => \A task \in Range(Program(s)) : Fulfilled(task)

StarterRecords == [todo : Seq(Tasks), found : BOOLEAN, left : 0..Window,
                   phase : {"down", "up", "skipped", "complete"}, starts : Nat]

TablesShape ==
    /\ limits \in [TagNames -> {"none", "older", CatalogLimits}]
    /\ linked \in [Meters -> TagNames \cup {NoLink}]
    /\ readings \in [TagNames -> 0..Window]

StartupInv ==
    /\ TablesShape
    /\ starter \in [Starters -> StarterRecords]
    /\ \A s \in Starters : Ordered(starter[s].todo) /\ WindowFills(s) /\ Pursues(s)

\* No step takes back what a task is for.
Grows ==
    /\ TablesShape'
    /\ rows \subseteq rows'
    /\ \A t \in TagNames : limits[t] = CatalogLimits => limits'[t] = CatalogLimits
    /\ \A t \in TagNames : readings[t] <= readings'[t]
    /\ \A m \in Meters : linked[m] = m.tag => linked'[m] = m.tag

----
(* The program of a start. *)

Dos(seq) == {seq[i].do : i \in DOMAIN seq}

\* A part of a program.
IsPart(seq) == seq \in Seq(Tasks) /\ Ordered(seq) /\ Dos(seq) \cap {"write", "window"} = {}

LEMMA PartsConcat ==
    ASSUME NEW a, NEW b, IsPart(a), IsPart(b), "meter" \notin Dos(a) \/ "tag" \notin Dos(b)
    PROVE  /\ IsPart(a \o b)
           /\ Dos(a \o b) = Dos(a) \cup Dos(b)
           /\ Range(a \o b) = Range(a) \cup Range(b)
<1>1. /\ a \in Seq(Tasks) /\ b \in Seq(Tasks)
      /\ a \o b \in Seq(Tasks)
      /\ Len(a \o b) = Len(a) + Len(b)
      /\ \A i \in 1..Len(a) : (a \o b)[i] = a[i]
      /\ \A i \in (Len(a) + 1)..(Len(a) + Len(b)) : (a \o b)[i] = b[i - Len(a)]
  BY DEF IsPart
<1>2. \A i \in DOMAIN a : i \in DOMAIN (a \o b) /\ (a \o b)[i] = a[i]
  BY <1>1
<1>3. \A i \in DOMAIN b : i + Len(a) \in DOMAIN (a \o b) /\ (a \o b)[i + Len(a)] = b[i]
  BY <1>1
<1>4. ASSUME NEW i \in DOMAIN (a \o b)
      PROVE  \/ i \in DOMAIN a
             \/ i - Len(a) \in DOMAIN b /\ (a \o b)[i] = b[i - Len(a)]
  BY <1>1
<1>5. Range(a \o b) = Range(a) \cup Range(b)
  BY <1>1, RangeConcatenation
<1>6. Dos(a \o b) = Dos(a) \cup Dos(b)
  BY <1>2, <1>3, <1>4 DEF Dos
<1>7. Ordered(a \o b)
  <2>1. SUFFICES ASSUME NEW x \in DOMAIN (a \o b), NEW y \in DOMAIN (a \o b), x < y
                 PROVE  /\ (a \o b)[y].do \notin {"write", "window"}
                        /\ (a \o b)[y].do = "tag" => (a \o b)[x].do # "meter"
    BY DEF Ordered
  <2>2. (a \o b)[y].do \notin {"write", "window"}
    BY <1>6 DEF IsPart, Dos
  <2>3. CASE y \in DOMAIN a
    <3>1. x \in DOMAIN a
      BY <2>1, <2>3, <1>1
    <3> QED
      BY <2>1, <2>2, <2>3, <3>1, <1>2 DEF IsPart, Ordered
  <2>4. CASE y - Len(a) \in DOMAIN b /\ (a \o b)[y] = b[y - Len(a)]
    <3>1. CASE x \in DOMAIN a
      BY <2>2, <2>4, <3>1, <1>2 DEF Dos
    <3>2. CASE x - Len(a) \in DOMAIN b /\ (a \o b)[x] = b[x - Len(a)]
      <4>1. x - Len(a) < y - Len(a)
        BY <2>1, <1>1
      <4> QED
        BY <2>2, <2>4, <3>2, <4>1 DEF IsPart, Ordered
    <3> QED
      BY <3>1, <3>2, <1>4
  <2> QED
    BY <2>3, <2>4, <1>4
<1> QED
  BY <1>1, <1>5, <1>6, <1>7 DEF IsPart

\* A part of one kind of task, one for each of a sequence.
LEMMA UniformPart ==
    ASSUME NEW names, names \in Seq(Range(names)),
           NEW do \in {"find", "upsert", "tag", "count", "history", "meter"},
           \A name \in Range(names) : Task(do, name) \in Tasks,
           NEW part, part = [i \in DOMAIN names |-> Task(do, names[i])]
    PROVE  /\ IsPart(part) /\ Dos(part) \subseteq {do}
           /\ \A name \in Range(names) : Task(do, name) \in Range(part)
<1>1. \A i \in DOMAIN names : names[i] \in Range(names)
  BY DEF Range
<1>2. part \in Seq(Tasks)
  <2>1. DOMAIN names = 1..Len(names) /\ Len(names) \in Nat
    OBVIOUS
  <2>2. \A i \in 1..Len(names) : part[i] \in Tasks
    BY <1>1, <2>1
  <2>3. part = [i \in 1..Len(names) |-> part[i]]
    BY <2>1
  <2> QED
    BY <2>1, <2>2, <2>3, IsASeq
<1>3. DOMAIN part = DOMAIN names /\ \A i \in DOMAIN part : part[i] = Task(do, names[i]) /\ part[i].do = do
  BY DEF Task
<1>4. Dos(part) \subseteq {do}
  BY <1>3 DEF Dos
<1>5. Ordered(part)
  BY <1>3 DEF Ordered
<1>6. \A name \in Range(names) : Task(do, name) \in Range(part)
  BY <1>3 DEF Range
<1> QED
  BY <1>2, <1>4, <1>5, <1>6 DEF IsPart

LEMMA FindsPart ==
    ASSUME NEW a \in Labels, NEW b \in Labels, NEW finds,
           \/ finds = <<Task("find", a)>> /\ a = b
           \/ finds = <<Task("find", a), Task("find", b)>>
    PROVE  /\ IsPart(finds) /\ Dos(finds) \subseteq {"find"}
           /\ Task("find", a) \in Range(finds) /\ Task("find", b) \in Range(finds)
<1>0. Task("find", a) \in Tasks /\ Task("find", b) \in Tasks
  BY DEF Tasks, Task
<1>1. /\ finds \in Seq(Tasks) /\ DOMAIN finds \subseteq {1, 2}
      /\ \A i \in DOMAIN finds : finds[i] \in {Task("find", a), Task("find", b)}
      /\ \A l \in {a, b} : \E i \in DOMAIN finds : finds[i] = Task("find", l)
  <2>1. CASE finds = <<Task("find", a)>> /\ a = b
    BY <1>0, <2>1
  <2>2. CASE finds = <<Task("find", a), Task("find", b)>>
    BY <1>0, <2>2
  <2> QED
    BY <2>1, <2>2
<1>2. \A i \in DOMAIN finds : finds[i].do = "find"
  BY <1>1 DEF Task
<1>3. Dos(finds) \subseteq {"find"}
  BY <1>2 DEF Dos
<1>4. Ordered(finds)
  BY <1>2 DEF Ordered
<1>5. Task("find", a) \in Range(finds) /\ Task("find", b) \in Range(finds)
  BY <1>1 DEF Range
<1> QED
  BY <1>1, <1>3, <1>4, <1>5 DEF IsPart

LEMMA UpsertsPart ==
    ASSUME NEW names \in Seq(Labels)
    PROVE  /\ IsPart(Upserts(names)) /\ Dos(Upserts(names)) \subseteq {"upsert"}
           /\ \A i \in DOMAIN names : Task("upsert", names[i]) \in Range(Upserts(names))
<1>1. names \in Seq(Range(names)) /\ Range(names) \subseteq Labels
  BY SeqOfRange, RangeOfSeq
<1>2. \A name \in Range(names) : Task("upsert", name) \in Tasks
  BY <1>1 DEF Task, Tasks
<1>3. \A i \in DOMAIN names : names[i] \in Range(names)
  BY DEF Range
<1> QED
  BY <1>1, <1>2, <1>3, UniformPart DEF Upserts

\* What the catalog and the file come to.
HasCatalog(seq) ==
    /\ \A r \in {"site", "unit", "pump", "column"} : Task("upsert", r) \in Range(seq)
    /\ \A t \in TagNames : Task("tag", t) \in Range(seq) /\ Task("count", t) \in Range(seq)
    /\ \A m \in Meters : Task("meter", m) \in Range(seq)

LEMMA CatalogPart ==
    /\ IsPart(Catalog) /\ Dos(Catalog) \subseteq {"upsert", "tag", "meter", "count"}
    /\ HasCatalog(Catalog)
<1> DEFINE places == <<"site", "unit", "pump", "column">>
           tags == [i \in DOMAIN TagSpecs |-> Task("tag", TagSpecs[i])]
           meters == [i \in DOMAIN MeterSpecs |-> Task("meter", MeterSpecs[i])]
           counts == [i \in DOMAIN TagSpecs |-> Task("count", TagSpecs[i])]
<1>1. /\ IsPart(Upserts(places)) /\ Dos(Upserts(places)) \subseteq {"upsert"}
      /\ \A r \in {"site", "unit", "pump", "column"} : Task("upsert", r) \in Range(Upserts(places))
  <2>1. places \in Seq(Labels)
    BY DEF Labels
  <2>2. /\ DOMAIN places = 1..4 /\ places[1] = "site" /\ places[2] = "unit"
        /\ places[3] = "pump" /\ places[4] = "column"
    OBVIOUS
  <2> HIDE DEF places
  <2> QED
    BY <2>1, <2>2, UpsertsPart
<1>2. /\ IsPart(tags) /\ Dos(tags) \subseteq {"tag"}
      /\ \A t \in TagNames : Task("tag", t) \in Range(tags)
  <2>1. \A t \in TagNames : Task("tag", t) \in Tasks
    BY DEF Task, Tasks
  <2> QED
    BY <2>1, StartupAssumption, UniformPart DEF TagNames
<1>3. /\ IsPart(counts) /\ Dos(counts) \subseteq {"count"}
      /\ \A t \in TagNames : Task("count", t) \in Range(counts)
  <2>1. \A t \in TagNames : Task("count", t) \in Tasks
    BY DEF Task, Tasks
  <2> QED
    BY <2>1, StartupAssumption, UniformPart DEF TagNames
<1>4. /\ IsPart(meters) /\ Dos(meters) \subseteq {"meter"}
      /\ \A m \in Meters : Task("meter", m) \in Range(meters)
  <2>1. \A m \in Meters : Task("meter", m) \in Tasks
    BY DEF Task, Tasks
  <2> QED
    BY <2>1, StartupAssumption, UniformPart DEF Meters
<1>5. Catalog = ((Upserts(places) \o tags) \o meters) \o counts
  BY DEF Catalog
<1> HIDE DEF places, tags, meters, counts
<1>6. /\ IsPart(Upserts(places) \o tags) /\ Dos(Upserts(places) \o tags) \subseteq {"upsert", "tag"}
      /\ Range(Upserts(places) \o tags) = Range(Upserts(places)) \cup Range(tags)
  <2>1. "meter" \notin Dos(Upserts(places))
    BY <1>1
  <2> QED
    BY <1>1, <1>2, <2>1, PartsConcat
<1>7. /\ IsPart((Upserts(places) \o tags) \o meters)
      /\ Dos((Upserts(places) \o tags) \o meters) \subseteq {"upsert", "tag", "meter"}
      /\ Range((Upserts(places) \o tags) \o meters)
           = Range(Upserts(places)) \cup Range(tags) \cup Range(meters)
  <2>1. "tag" \notin Dos(meters)
    BY <1>4
  <2> QED
    BY <1>4, <1>6, <2>1, PartsConcat
<1>8. /\ IsPart(Catalog) /\ Dos(Catalog) \subseteq {"upsert", "tag", "meter", "count"}
      /\ Range(Catalog) = Range(Upserts(places)) \cup Range(tags) \cup Range(meters) \cup Range(counts)
  <2>1. "tag" \notin Dos(counts)
    BY <1>3
  <2> QED
    BY <1>3, <1>5, <1>7, <2>1, PartsConcat
<1> QED
  BY <1>1, <1>2, <1>3, <1>4, <1>8 DEF HasCatalog

LEMMA HistoryPart == IsPart(History) /\ Dos(History) \subseteq {"history"}
<1>1. \A t \in TagNames : Task("history", t) \in Tasks
  BY DEF Task, Tasks
<1> QED
  BY <1>1, StartupAssumption, UniformPart DEF TagNames, History

\* The rows that a start finds or creates by name.
Named(r) == {Task("find", r), Task("upsert", r)}

HasNames(s, seq) ==
    /\ \A r \in {"tenant", "operator"} : \E task \in Named(r) : task \in Range(seq)
    /\ s \in Seeds => \A r \in {"admin", "planner", "technician", "order", "plan"} :
                         \E task \in Named(r) : task \in Range(seq)

LEMMA BootstrapPart ==
    IsPart(Bootstrap) /\ HasCatalog(Bootstrap) /\ \A s \in Instances : HasNames(s, Bootstrap)
<1> DEFINE two == <<Task("find", "tenant"), Task("find", "operator")>>
<1>1. /\ IsPart(two) /\ Dos(two) \subseteq {"find"}
      /\ Task("find", "tenant") \in Range(two) /\ Task("find", "operator") \in Range(two)
  BY FindsPart DEF Labels
<1>2. Bootstrap = (two \o Catalog) \o History
  BY DEF Bootstrap
<1> HIDE DEF two
<1>3. IsPart(two \o Catalog) /\ Range(two \o Catalog) = Range(two) \cup Range(Catalog)
  <2>1. "meter" \notin Dos(two)
    BY <1>1
  <2> QED
    BY <1>1, <2>1, CatalogPart, PartsConcat
<1>4. IsPart(Bootstrap) /\ Range(Bootstrap) = Range(two) \cup Range(Catalog) \cup Range(History)
  <2>1. "tag" \notin Dos(History)
    BY HistoryPart
  <2> QED
    BY <1>2, <1>3, <2>1, HistoryPart, PartsConcat
<1>5. HasCatalog(Bootstrap)
  BY <1>4, CatalogPart DEF HasCatalog
<1>6. ASSUME NEW s \in Instances PROVE HasNames(s, Bootstrap)
  BY <1>1, <1>4, StartupAssumption DEF HasNames, Named
<1> QED
  BY <1>4, <1>5, <1>6

LEMMA SeedPart == IsPart(Seed) /\ HasCatalog(Seed) /\ \A s \in Seeds : HasNames(s, Seed)
<1> DEFINE users == Upserts(<<"tenant", "admin", "planner", "technician">>)
           operator == <<Task("find", "operator")>>
           order == <<Task("find", "order")>>
           plan == Upserts(<<"plan">>)
<1>1. /\ IsPart(users) /\ Dos(users) \subseteq {"upsert"}
      /\ \A r \in {"tenant", "admin", "planner", "technician"} : Task("upsert", r) \in Range(users)
  <2> DEFINE names == <<"tenant", "admin", "planner", "technician">>
  <2>1. /\ names \in Seq(Labels) /\ DOMAIN names = 1..4
        /\ names[1] = "tenant" /\ names[2] = "admin" /\ names[3] = "planner" /\ names[4] = "technician"
    BY DEF Labels
  <2> HIDE DEF names
  <2>2. IsPart(Upserts(names)) /\ Dos(Upserts(names)) \subseteq {"upsert"}
        /\ \A r \in {"tenant", "admin", "planner", "technician"} : Task("upsert", r) \in Range(Upserts(names))
    BY <2>1, UpsertsPart
  <2> QED
    BY <2>2 DEF names
<1>2. /\ IsPart(plan) /\ Dos(plan) \subseteq {"upsert"} /\ Task("upsert", "plan") \in Range(plan)
  <2> DEFINE names == <<"plan">>
  <2>1. names \in Seq(Labels) /\ DOMAIN names = 1..1 /\ names[1] = "plan"
    BY DEF Labels
  <2> HIDE DEF names
  <2>2. IsPart(Upserts(names)) /\ Dos(Upserts(names)) \subseteq {"upsert"}
        /\ Task("upsert", "plan") \in Range(Upserts(names))
    BY <2>1, UpsertsPart
  <2> QED
    BY <2>2 DEF names
<1>3. /\ IsPart(operator) /\ Dos(operator) \subseteq {"find"} /\ Task("find", "operator") \in Range(operator)
  <2>1. "operator" \in Labels /\ operator = <<Task("find", "operator")>>
    BY DEF Labels
  <2> HIDE DEF operator
  <2> QED
    BY <2>1, FindsPart
<1>4. /\ IsPart(order) /\ Dos(order) \subseteq {"find"} /\ Task("find", "order") \in Range(order)
  <2>1. "order" \in Labels /\ order = <<Task("find", "order")>>
    BY DEF Labels
  <2> HIDE DEF order
  <2> QED
    BY <2>1, FindsPart
<1>5. Seed = ((((users \o operator) \o Catalog) \o History) \o order) \o plan
  BY DEF Seed
<1> HIDE DEF users, operator, order, plan
<1>6. /\ IsPart(users \o operator) /\ Dos(users \o operator) \subseteq {"upsert", "find"}
      /\ Range(users \o operator) = Range(users) \cup Range(operator)
  <2>1. "meter" \notin Dos(users)
    BY <1>1
  <2> QED
    BY <1>1, <1>3, <2>1, PartsConcat
<1>7. /\ IsPart((users \o operator) \o Catalog)
      /\ Range((users \o operator) \o Catalog) = Range(users) \cup Range(operator) \cup Range(Catalog)
  <2>1. "meter" \notin Dos(users \o operator)
    BY <1>6
  <2> QED
    BY <1>6, <2>1, CatalogPart, PartsConcat
<1>8. /\ IsPart(((users \o operator) \o Catalog) \o History)
      /\ Range(((users \o operator) \o Catalog) \o History)
           = Range(users) \cup Range(operator) \cup Range(Catalog) \cup Range(History)
  <2>1. "tag" \notin Dos(History)
    BY HistoryPart
  <2> QED
    BY <1>7, <2>1, HistoryPart, PartsConcat
<1>9. /\ IsPart((((users \o operator) \o Catalog) \o History) \o order)
      /\ Range((((users \o operator) \o Catalog) \o History) \o order)
           = Range(users) \cup Range(operator) \cup Range(Catalog) \cup Range(History) \cup Range(order)
  <2>1. "tag" \notin Dos(order)
    BY <1>4
  <2> QED
    BY <1>4, <1>8, <2>1, PartsConcat
<1>10. /\ IsPart(Seed)
       /\ Range(Seed) = Range(users) \cup Range(operator) \cup Range(Catalog) \cup Range(History)
                        \cup Range(order) \cup Range(plan)
  <2>1. "tag" \notin Dos(plan)
    BY <1>2
  <2> QED
    BY <1>2, <1>5, <1>9, <2>1, PartsConcat
<1>11. HasCatalog(Seed)
  BY <1>10, CatalogPart DEF HasCatalog
<1>12. ASSUME NEW s \in Seeds PROVE HasNames(s, Seed)
  BY <1>1, <1>2, <1>3, <1>4, <1>10 DEF HasNames, Named
<1> QED
  BY <1>10, <1>11, <1>12

LEMMA ProgramPart ==
    ASSUME NEW s \in Starters
    PROVE  IsPart(Program(s)) /\ HasCatalog(Program(s)) /\ HasNames(s, Program(s))
BY BootstrapPart, SeedPart DEF Program, Starters

----
(* The steps. *)

LEMMA TasksOfProgram ==
    ASSUME NEW s \in Starters, NEW task \in Range(Program(s))
    PROVE  task \in Tasks
BY ProgramPart, RangeOfSeq DEF IsPart

LEMMA Monotone ==
    ASSUME StartupInv, Grows, NEW task \in Tasks, Fulfilled(task)
    PROVE  Fulfilled(task)'
<1>1. CASE task.do \in {"find", "upsert"}
  BY <1>1 DEF Fulfilled, Grows
<1>2. CASE task.do = "tag"
  BY <1>2 DEF Fulfilled, Grows, Tasks
<1>3. CASE task.do = "meter"
  BY <1>3 DEF Fulfilled, Grows, Tasks
<1>4. CASE task.do = "count"
  <2>1. task.of \in TagNames
    BY <1>4 DEF Tasks
  <2>2. readings[task.of] \in Nat /\ readings'[task.of] \in Nat
    BY <2>1 DEF Grows, StartupInv, TablesShape
  <2> QED
    BY <1>4, <2>1, <2>2, StartupAssumption DEF Fulfilled, Grows
<1> QED
  BY <1>1, <1>2, <1>3, <1>4 DEF Fulfilled

\* The facts about a start at work that the lemmas of its steps need.
LEMMA AtWork ==
    ASSUME StartupInv, NEW s \in Starters, starter[s].todo # <<>>
    PROVE  /\ starter[s] \in StarterRecords /\ starter[s].todo \in Seq(Tasks)
           /\ 1 \in DOMAIN starter[s].todo /\ Head(starter[s].todo) = starter[s].todo[1]
           /\ Head(starter[s].todo) \in Tasks
           /\ Len(starter[s].todo) \in Nat \ {0}
           /\ DOMAIN starter[s].todo = 1..Len(starter[s].todo)
<1>1. starter[s] \in StarterRecords /\ starter[s].todo \in Seq(Tasks)
  BY DEF StartupInv, StarterRecords
<1> QED
  BY <1>1

LEMMA OthersKeep ==
    ASSUME StartupInv, Grows, NEW o \in Starters, starter'[o] = starter[o]
    PROVE  Ordered(starter[o].todo)' /\ WindowFills(o)' /\ Pursues(o)'
<1>1. Ordered(starter[o].todo)'
  BY DEF StartupInv, Ordered
<1>2. WindowFills(o)'
  <2>1. SUFFICES ASSUME starter[o].todo # <<>>, Head(starter[o].todo).do = "window"
                 PROVE  /\ starter[o].left \in 1..Window
                        /\ readings'[Head(starter[o].todo).of] + starter[o].left >= Window
    BY DEF WindowFills
  <2>2. Head(starter[o].todo).of \in TagNames
    BY <2>1, AtWork DEF Tasks
  <2>3. /\ readings[Head(starter[o].todo).of] \in Nat /\ readings'[Head(starter[o].todo).of] \in Nat
        /\ readings[Head(starter[o].todo).of] <= readings'[Head(starter[o].todo).of]
    BY <2>2 DEF Grows, StartupInv, TablesShape
  <2>4. WindowFills(o)
    BY DEF StartupInv
  <2> QED
    BY <2>1, <2>3, <2>4, StartupAssumption DEF WindowFills
<1>3. Pursues(o)'
  <2>1. Pursues(o)
    BY DEF StartupInv
  <2>2. \A task \in Range(Program(o)) : Fulfilled(task) => Fulfilled(task)'
    BY Monotone, TasksOfProgram
  <2>3. Program(o)' = Program(o)
    BY DEF Program, Bootstrap, Seed, Catalog, History, Upserts
  <2>4. \A task : Awaits(starter[o].todo, task)' = Awaits(starter[o].todo, task)
    BY DEF Awaits, Serves
  <2> QED
    BY <2>1, <2>2, <2>3, <2>4 DEF Pursues
<1> QED
  BY <1>1, <1>2, <1>3

\* The invariant after a step of one start: what is left for the others, OthersKeep.
LEMMA StepOfOne ==
    ASSUME StartupInv, Grows, NEW s \in Starters,
           starter' \in [Starters -> StarterRecords],
           \A o \in Starters : o # s => starter'[o] = starter[o],
           Ordered(starter'[s].todo), WindowFills(s)', Pursues(s)'
    PROVE  StartupInv'
<1>1. TablesShape'
  BY DEF Grows
<1>2. ASSUME NEW o \in Starters
      PROVE  Ordered(starter[o].todo)' /\ WindowFills(o)' /\ Pursues(o)'
  <2>1. CASE o = s
    BY <2>1 DEF Ordered
  <2>2. CASE o # s
    BY <2>2, OthersKeep
  <2> QED
    BY <2>1, <2>2
<1> QED
  BY <1>1, <1>2 DEF StartupInv

LEMMA AwaitsNext ==
    ASSUME NEW s \in Starters, NEW next, starter'[s].todo = next
    PROVE  \A task : Awaits(starter[s].todo, task)' = Awaits(next, task)
BY DEF Awaits, Serves

\* The first task is done, and it did what it is for.
LEMMA DoneStep ==
    ASSUME StartupInv, Grows, NEW s \in Starters, starter[s].phase = "up", starter[s].todo # <<>>,
           Done(s),
           \A task \in Range(Program(s)) : Serves(Head(starter[s].todo), task) => Fulfilled(task)'
    PROVE  StartupInv'
<1> DEFINE todo == starter[s].todo
<1>1. /\ starter[s] \in StarterRecords /\ todo \in Seq(Tasks) /\ todo # <<>>
      /\ Head(todo) = todo[1] /\ Len(todo) \in Nat \ {0} /\ DOMAIN todo = 1..Len(todo)
  BY AtWork
<1>2. /\ starter' \in [Starters -> StarterRecords]
      /\ \A o \in Starters : o # s => starter'[o] = starter[o]
      /\ starter'[s].todo = Tail(todo) /\ starter'[s].phase = "up"
  <2>1. Tail(todo) \in Seq(Tasks)
    BY <1>1
  <2>2. DOMAIN starter = Starters /\ starter \in [Starters -> StarterRecords]
    BY DEF StartupInv
  <2>3. 0 \in 0..Window
    BY StartupAssumption
  <2>4. PICK r : r = [starter[s] EXCEPT !.todo = Tail(todo), !.found = FALSE, !.left = 0]
    OBVIOUS
  <2>5. r \in StarterRecords /\ r.todo = Tail(todo) /\ r.phase = "up"
    BY <1>1, <2>1, <2>3, <2>4 DEF StarterRecords
  <2>6. starter' = [starter EXCEPT ![s] = r]
    BY <1>1, <2>2, <2>4 DEF Done, StarterRecords
  <2> QED
    BY <2>2, <2>5, <2>6
<1>3. /\ DOMAIN Tail(todo) = 1..(Len(todo) - 1)
      /\ \A x \in DOMAIN Tail(todo) : x + 1 \in DOMAIN todo /\ Tail(todo)[x] = todo[x + 1]
  BY <1>1
<1>4. Ordered(todo) /\ Pursues(s)
  BY DEF StartupInv
<1> HIDE DEF todo
<1>5. Ordered(Tail(todo))
  BY <1>3, <1>4 DEF Ordered
<1>6. WindowFills(s)'
  <2>1. SUFFICES ASSUME Tail(todo) # <<>>, Head(Tail(todo)).do = "window" PROVE FALSE
    BY <1>2 DEF WindowFills
  <2>2. 2 \in DOMAIN todo /\ Head(Tail(todo)) = todo[2]
    BY <1>1, <2>1
  <2> QED
    BY <2>1, <2>2, <1>1, <1>4 DEF Ordered
<1>7. Pursues(s)'
  <2>1. SUFFICES ASSUME NEW task \in Range(Program(s))
                 PROVE  Fulfilled(task)' \/ Awaits(Tail(todo), task)
    <3>1. Program(s)' = Program(s)
      BY DEF Program, Bootstrap, Seed, Catalog, History, Upserts
    <3>2. \A task : Awaits(starter[s].todo, task)' = Awaits(Tail(todo), task)
      BY <1>2, AwaitsNext
    <3> QED
      BY <1>2, <3>1, <3>2 DEF Pursues
  <2>2. CASE Fulfilled(task)
    BY <2>2, Monotone, TasksOfProgram
  <2>3. CASE Awaits(todo, task)
    <3>1. PICK x \in DOMAIN todo : Serves(todo[x], task)
      BY <2>3 DEF Awaits
    <3>2. CASE x = 1
      BY <3>1, <3>2, <1>1 DEF todo
    <3>3. CASE x # 1
      <4>1. x - 1 \in DOMAIN Tail(todo) /\ Tail(todo)[x - 1] = todo[x]
        BY <1>1, <1>3, <3>1, <3>3
      <4> QED
        BY <3>1, <4>1 DEF Awaits
    <3> QED
      BY <3>2, <3>3
  <2> QED
    BY <2>2, <2>3, <1>4 DEF Pursues, todo
<1> QED
  BY <1>2, <1>5, <1>6, <1>7, StepOfOne

\* The first task becomes another one.
LEMMA BecomesStep ==
    ASSUME StartupInv, NEW s \in Starters, starter[s].phase = "up", starter[s].todo # <<>>,
           NEW new \in Tasks,
           UNCHANGED <<rows, limits, linked, readings>>,
           starter' \in [Starters -> StarterRecords],
           \A o \in Starters : o # s => starter'[o] = starter[o],
           starter'[s].todo = <<new>> \o Tail(starter[s].todo), starter'[s].phase = "up",
           new.do = "window" => starter'[s].left = Window /\ Window > 0,
           \A task : Serves(Head(starter[s].todo), task) => Serves(new, task),
           new.do \in {"write", "window"}
    PROVE  StartupInv'
<1> DEFINE todo == starter[s].todo
<1>0. PICK next : next = <<new>> \o Tail(todo)
  OBVIOUS
<1>1. /\ todo \in Seq(Tasks) /\ todo # <<>>
      /\ Head(todo) = todo[1] /\ Len(todo) \in Nat \ {0} /\ DOMAIN todo = 1..Len(todo)
  BY AtWork
<1>2. Grows
  BY DEF Grows, StartupInv, TablesShape
<1>3. Ordered(todo) /\ Pursues(s)
  BY DEF StartupInv
<1>4. /\ next \in Seq(Tasks) /\ next # <<>> /\ Head(next) = new /\ DOMAIN next = DOMAIN todo
      /\ next[1] = new /\ \A x \in DOMAIN todo : x # 1 => next[x] = todo[x]
  <2>1. /\ Tail(todo) \in Seq(Tasks) /\ Len(Tail(todo)) = Len(todo) - 1
        /\ \A x \in 1..(Len(todo) - 1) : Tail(todo)[x] = todo[x + 1]
    BY <1>1
  <2>2. next \in Seq(Tasks) /\ Len(next) = Len(todo) /\ next[1] = new
    BY <1>0, <1>1, <2>1
  <2>3. ASSUME NEW x \in 1..Len(todo), x # 1 PROVE next[x] = todo[x]
    <3>1. x - 1 \in 1..(Len(todo) - 1) /\ next[x] = Tail(todo)[x - 1]
      BY <1>0, <1>1, <2>1, <2>3
    <3> QED
      BY <2>1, <3>1
  <2> QED
    BY <1>1, <2>2, <2>3
<1>5. starter'[s].todo = next
  BY <1>0
<1>6. \A task : Serves(todo[1], task) => Serves(new, task)
  BY <1>1
<1> HIDE DEF todo
<1>7. Ordered(next)
  BY <1>1, <1>3, <1>4 DEF Ordered
<1>8. WindowFills(s)'
  <2>1. SUFFICES ASSUME new.do = "window"
                 PROVE  starter'[s].left \in 1..Window /\ readings[new.of] + starter'[s].left >= Window
    BY <1>4, <1>5 DEF WindowFills
  <2>2. readings[new.of] \in Nat
    BY <2>1 DEF StartupInv, TablesShape, Tasks
  <2> QED
    BY <2>1, <2>2, StartupAssumption
<1>9. Pursues(s)'
  <2>1. SUFFICES ASSUME NEW task \in Range(Program(s))
                 PROVE  Fulfilled(task)' \/ Awaits(next, task)
    <3>1. Program(s)' = Program(s)
      BY DEF Program, Bootstrap, Seed, Catalog, History, Upserts
    <3>2. \A task : Awaits(starter[s].todo, task)' = Awaits(next, task)
      BY <1>5, AwaitsNext
    <3> QED
      BY <3>1, <3>2 DEF Pursues
  <2>2. CASE Fulfilled(task)
    BY <2>2, <1>2, Monotone, TasksOfProgram
  <2>3. CASE Awaits(todo, task)
    <3>1. PICK x \in DOMAIN todo : Serves(todo[x], task)
      BY <2>3 DEF Awaits
    <3>2. CASE x = 1
      BY <3>1, <3>2, <1>4, <1>6 DEF Awaits
    <3>3. CASE x # 1
      BY <3>1, <3>3, <1>4 DEF Awaits
    <3> QED
      BY <3>2, <3>3
  <2> QED
    BY <2>2, <2>3, <1>3 DEF Pursues, todo
<1> QED
  BY <1>2, <1>5, <1>7, <1>8, <1>9, StepOfOne

----
LEMMA StartupStarts == StartupInit => StartupInv
<1> SUFFICES ASSUME StartupInit PROVE StartupInv
  OBVIOUS
<1>1. TablesShape
  BY StartupAssumption DEF StartupInit, TablesShape, TagNames, Meters, NoLink
<1>2. \A s \in Starters : starter[s] = [todo |-> <<>>, found |-> FALSE, left |-> 0,
                                         phase |-> "down", starts |-> 0]
  BY DEF StartupInit
<1>3. starter \in [Starters -> StarterRecords]
  BY <1>2, StartupAssumption DEF StartupInit, StarterRecords
<1>4. \A s \in Starters : Ordered(starter[s].todo) /\ WindowFills(s) /\ Pursues(s)
  BY <1>2 DEF Ordered, WindowFills, Pursues
<1> QED
  BY <1>1, <1>3, <1>4 DEF StartupInv

LEMMA UnchangedGrows ==
    ASSUME StartupInv, UNCHANGED <<rows, limits, linked, readings>>
    PROVE  Grows
BY DEF Grows, StartupInv, TablesShape

LEMMA StartStep ==
    ASSUME StartupInv, NEW s \in Starters, Start(s)
    PROVE  StartupInv'
<1>1. Grows
  BY UnchangedGrows DEF Start
<1>2. IsPart(Program(s)) /\ HasCatalog(Program(s))
  BY ProgramPart
<1>3. PICK r : r = [todo |-> Program(s), found |-> FALSE, left |-> 0,
                    phase |-> "up", starts |-> starter[s].starts + 1]
  OBVIOUS
<1>4. starter' = [starter EXCEPT ![s] = r] /\ starter \in [Starters -> StarterRecords]
  BY <1>3 DEF Start, StartupInv
<1>5. r \in StarterRecords
  BY <1>2, <1>3, <1>4, StartupAssumption DEF StarterRecords, IsPart
<1>6. /\ starter' \in [Starters -> StarterRecords] /\ starter'[s] = r
      /\ \A o \in Starters : o # s => starter'[o] = starter[o]
  BY <1>4, <1>5
<1>7. Ordered(starter'[s].todo)
  BY <1>2, <1>3, <1>6 DEF IsPart
<1>8. WindowFills(s)'
  <2>1. Program(s) # <<>> => Head(Program(s)).do \in Dos(Program(s))
    <3>1. Program(s) \in Seq(Tasks)
      BY <1>2 DEF IsPart
    <3> QED
      BY <3>1 DEF Dos
  <2>2. starter'[s].todo = Program(s)
    BY <1>3, <1>6
  <2> QED
    BY <2>1, <2>2, <1>2 DEF IsPart, WindowFills
<1>9. Pursues(s)'
  <2>1. Program(s)' = Program(s)
    BY DEF Program, Bootstrap, Seed, Catalog, History, Upserts
  <2>2. \A task \in Range(Program(s)) : Awaits(Program(s), task)
    BY DEF Range, Awaits, Serves
  <2>3. starter'[s].todo = Program(s) /\ starter'[s].phase = "up"
    BY <1>3, <1>6
  <2>4. \A task : Awaits(starter[s].todo, task)' = Awaits(Program(s), task)
    BY <2>3, AwaitsNext
  <2> QED
    BY <2>1, <2>2, <2>3, <2>4 DEF Pursues
<1> QED
  BY <1>1, <1>6, <1>7, <1>8, <1>9, StepOfOne

LEMMA FindStep ==
    ASSUME StartupInv, NEW s \in Starters, Find(s)
    PROVE  StartupInv'
<1>1. /\ starter[s].phase = "up" /\ starter[s].todo # <<>> /\ Head(starter[s].todo).do = "find"
      /\ UNCHANGED <<rows, limits, linked, readings>>
  BY DEF Find, Doing
<1>2. /\ starter[s] \in StarterRecords /\ Head(starter[s].todo) \in Tasks
      /\ starter[s].todo \in Seq(Tasks)
  BY <1>1, AtWork
<1>3. Task("write", Of(s)) \in Tasks
  BY <1>1, <1>2 DEF Task, Of, Tasks
<1>4. PICK next : next = <<Task("write", Of(s))>> \o Tail(starter[s].todo)
  OBVIOUS
<1>5. next \in Seq(Tasks)
  BY <1>1, <1>2, <1>3, <1>4
<1> DEFINE f == RowOf(Of(s)) \in rows
<1>6. f \in BOOLEAN
  OBVIOUS
<1>7. PICK r : r = [starter[s] EXCEPT !.todo = next, !.found = f]
  OBVIOUS
<1>8. starter' = [starter EXCEPT ![s] = r] /\ starter \in [Starters -> StarterRecords]
  BY <1>2, <1>4, <1>7 DEF Find, StartupInv, StarterRecords
<1> HIDE DEF f
<1>9. r \in StarterRecords /\ r.todo = next /\ r.phase = "up"
  BY <1>1, <1>2, <1>5, <1>6, <1>7 DEF StarterRecords
<1>10. /\ starter' \in [Starters -> StarterRecords] /\ starter'[s] = r
       /\ \A o \in Starters : o # s => starter'[o] = starter[o]
  BY <1>8, <1>9
<1>11. \A task : Serves(Head(starter[s].todo), task) => Serves(Task("write", Of(s)), task)
  BY <1>1 DEF Serves, Task, Of
<1>12. Task("write", Of(s)).do = "write"
  BY DEF Task
<1> QED
  BY <1>1, <1>3, <1>4, <1>9, <1>10, <1>11, <1>12, BecomesStep

\* What the first task is for, if it is not done in several steps.
LEMMA ServesItself ==
    ASSUME NEW a, NEW b, Serves(a, b), a.do \notin {"write", "window"}
    PROVE  b = a
BY DEF Serves

LEMMA WriteStep ==
    ASSUME StartupInv, NEW s \in Starters, Write(s) \/ Upsert(s)
    PROVE  StartupInv'
<1>1. /\ starter[s].phase = "up" /\ starter[s].todo # <<>> /\ Done(s)
      /\ Head(starter[s].todo).do \in {"write", "upsert"}
      /\ rows' = rows \cup {RowOf(Head(starter[s].todo).of)}
      /\ UNCHANGED <<limits, linked, readings>>
  BY DEF Write, Upsert, Doing, Of
<1>2. Grows
  BY <1>1 DEF Grows, StartupInv, TablesShape
<1>3. ASSUME NEW task, Serves(Head(starter[s].todo), task)
      PROVE  Fulfilled(task)'
  <2>1. /\ task.of = Head(starter[s].todo).of
        /\ task.do \in {"find", "write", "upsert"}
    BY <1>1, <1>3 DEF Serves
  <2>2. RowOf(task.of) \in rows'
    BY <1>1, <2>1
  <2> QED
    BY <2>1, <2>2 DEF Fulfilled, RowOf
<1> QED
  BY <1>1, <1>2, <1>3, DoneStep

LEMMA TagStep ==
    ASSUME StartupInv, NEW s \in Starters, UpsertTag(s)
    PROVE  StartupInv'
<1>1. /\ starter[s].phase = "up" /\ starter[s].todo # <<>> /\ Done(s)
      /\ Head(starter[s].todo).do = "tag"
      /\ limits' = [limits EXCEPT ![Head(starter[s].todo).of] = CatalogLimits]
      /\ UNCHANGED <<rows, linked, readings>>
  BY DEF UpsertTag, Doing, Of
<1>2. Head(starter[s].todo).of \in TagNames
  BY <1>1, AtWork DEF Tasks
<1>3. Grows
  BY <1>1, <1>2 DEF Grows, StartupInv, TablesShape
<1>4. ASSUME NEW task, Serves(Head(starter[s].todo), task)
      PROVE  Fulfilled(task)'
  <2>1. task = Head(starter[s].todo)
    BY <1>1, <1>4, ServesItself
  <2>2. limits'[task.of] = CatalogLimits
    BY <1>1, <1>2, <2>1 DEF StartupInv, TablesShape
  <2> QED
    BY <1>1, <2>1, <2>2 DEF Fulfilled
<1> QED
  BY <1>1, <1>3, <1>4, DoneStep

\* A meter's turn comes when all tags are there.
LEMMA TagsAreThere ==
    ASSUME StartupInv, NEW s \in Starters, Doing(s, "meter"), NEW t \in TagNames
    PROVE  limits[t] = CatalogLimits
<1>1. Task("tag", t) \in Range(Program(s))
  BY ProgramPart DEF HasCatalog
<1>2. /\ starter[s].todo # <<>> /\ Head(starter[s].todo).do = "meter"
      /\ Fulfilled(Task("tag", t)) \/ Awaits(starter[s].todo, Task("tag", t))
      /\ Ordered(starter[s].todo)
  BY <1>1 DEF Doing, StartupInv, Pursues
<1>3. ~Awaits(starter[s].todo, Task("tag", t))
  <2>1. SUFFICES ASSUME NEW x \in DOMAIN starter[s].todo, Serves(starter[s].todo[x], Task("tag", t))
                 PROVE  FALSE
    BY DEF Awaits
  <2>2. starter[s].todo[x].do = "tag"
    BY <2>1 DEF Serves, Task
  <2>3. 1 \in DOMAIN starter[s].todo /\ starter[s].todo[1].do = "meter" /\ x \in Nat \ {0}
    BY <1>2, AtWork
  <2>4. 1 < x
    BY <2>2, <2>3
  <2> QED
    BY <1>2, <2>2, <2>3, <2>4 DEF Ordered
<1> QED
  BY <1>2, <1>3 DEF Fulfilled, Task

LEMMA MeterStep ==
    ASSUME StartupInv, NEW s \in Starters, UpsertMeter(s)
    PROVE  StartupInv'
<1> DEFINE m == Head(starter[s].todo).of
<1>1. /\ starter[s].phase = "up" /\ starter[s].todo # <<>> /\ Done(s) /\ Doing(s, "meter")
      /\ Head(starter[s].todo).do = "meter"
      /\ rows' = rows \cup {RowOf(m.code)}
      /\ linked' = [linked EXCEPT ![m] = IF limits[m.tag] = "none" THEN @ ELSE m.tag]
      /\ UNCHANGED <<limits, readings>>
  BY DEF UpsertMeter, Doing, Of
<1>2. m \in Meters /\ m.tag \in TagNames
  BY <1>1, AtWork, StartupAssumption DEF Tasks, TagNames, Meters
<1>3. limits[m.tag] # "none"
  BY <1>1, <1>2, TagsAreThere DEF CatalogLimits
<1>4. linked' = [linked EXCEPT ![m] = m.tag]
  BY <1>1, <1>3
<1> HIDE DEF m
<1>5. Grows
  BY <1>1, <1>2, <1>4 DEF Grows, StartupInv, TablesShape
<1>6. ASSUME NEW task, Serves(Head(starter[s].todo), task)
      PROVE  Fulfilled(task)'
  <2>1. task = Head(starter[s].todo) /\ task.of = m
    BY <1>1, <1>6, ServesItself DEF m
  <2>2. RowOf(m.code) \in rows' /\ linked'[m] = m.tag
    BY <1>1, <1>2, <1>4 DEF StartupInv, TablesShape
  <2> QED
    BY <1>1, <2>1, <2>2 DEF Fulfilled, RowOf
<1> QED
  BY <1>1, <1>5, <1>6, DoneStep

LEMMA CountStep ==
    ASSUME StartupInv, NEW s \in Starters, Count(s)
    PROVE  StartupInv'
<1>1. /\ starter[s].phase = "up" /\ starter[s].todo # <<>> /\ Head(starter[s].todo).do = "count"
      /\ UNCHANGED <<rows, limits, linked, readings>>
  BY DEF Count, Doing
<1>2. /\ starter[s] \in StarterRecords /\ Head(starter[s].todo) \in Tasks
      /\ starter[s].todo \in Seq(Tasks) /\ Of(s) \in TagNames
  BY <1>1, AtWork DEF Of, Tasks
<1>3. CASE readings[Of(s)] >= Enough
  <2>1. Done(s)
    BY <1>3 DEF Count
  <2>2. ASSUME NEW task, Serves(Head(starter[s].todo), task)
        PROVE  Fulfilled(task)'
    <3>1. task = Head(starter[s].todo)
      BY <1>1, <2>2, ServesItself
    <3> QED
      BY <1>1, <1>3, <3>1 DEF Fulfilled, Of
  <2> QED
    BY <1>1, <2>1, <2>2, UnchangedGrows, DoneStep
<1>4. CASE ~(readings[Of(s)] >= Enough)
  <2>1. PICK next : next = <<Task("window", Of(s))>> \o Tail(starter[s].todo)
    OBVIOUS
  <2>2. Task("window", Of(s)) \in Tasks
    BY <1>2 DEF Task, Tasks
  <2>3. next \in Seq(Tasks)
    BY <1>1, <1>2, <2>1, <2>2
  <2>4. PICK r : r = [starter[s] EXCEPT !.todo = next, !.left = Window]
    OBVIOUS
  <2>5. r \in StarterRecords /\ r.todo = next /\ r.phase = "up" /\ r.left = Window
    <3>1. Window \in 0..Window
      BY StartupAssumption
    <3> QED
      BY <1>1, <1>2, <2>3, <2>4, <3>1 DEF StarterRecords
  <2>6. starter' = [starter EXCEPT ![s] = r] /\ starter \in [Starters -> StarterRecords]
    BY <1>2, <1>4, <2>1, <2>4 DEF Count, StartupInv, StarterRecords
  <2>7. /\ starter' \in [Starters -> StarterRecords] /\ starter'[s] = r
        /\ \A o \in Starters : o # s => starter'[o] = starter[o]
    BY <2>5, <2>6
  <2>8. \A task : Serves(Head(starter[s].todo), task) => Serves(Task("window", Of(s)), task)
    BY <1>1 DEF Serves, Task, Of
  <2>9. Task("window", Of(s)).do = "window" /\ Window > 0
    BY StartupAssumption DEF Task
  <2> QED
    BY <1>1, <2>1, <2>2, <2>5, <2>7, <2>8, <2>9, BecomesStep
<1> QED
  BY <1>3, <1>4

LEMMA ReadingStep ==
    ASSUME StartupInv, NEW s \in Starters, AddReading(s)
    PROVE  StartupInv'
<1> DEFINE t == Head(starter[s].todo).of
<1>1. /\ starter[s].phase = "up" /\ starter[s].todo # <<>> /\ Head(starter[s].todo).do = "window"
      /\ readings' = [readings EXCEPT ![t] = IF @ < Window THEN @ + 1 ELSE @]
      /\ UNCHANGED <<rows, limits, linked>>
      /\ IF starter[s].left > 1 THEN starter' = [starter EXCEPT ![s].left = @ - 1] ELSE Done(s)
  BY DEF AddReading, Doing, Of
<1>2. t \in TagNames /\ starter[s] \in StarterRecords
  BY <1>1, AtWork DEF Tasks
<1>3. /\ starter[s].left \in 1..Window
      /\ readings[t] + starter[s].left >= Window
      /\ Ordered(starter[s].todo) /\ Pursues(s)
  BY <1>1 DEF StartupInv, WindowFills
<1> HIDE DEF t
<1>4. /\ readings[t] \in 0..Window
      /\ readings'[t] = IF readings[t] < Window THEN readings[t] + 1 ELSE readings[t]
  BY <1>1, <1>2 DEF StartupInv, TablesShape
<1>5. Grows
  <2>1. \A u \in TagNames : readings[u] \in 0..Window /\ (u # t => readings'[u] = readings[u])
    BY <1>1, <1>2 DEF StartupInv, TablesShape
  <2>2. \A u \in TagNames : readings[u] <= readings'[u] /\ readings'[u] \in 0..Window
    BY <1>4, <2>1, StartupAssumption
  <2>3. readings' \in [TagNames -> 0..Window]
    BY <1>1, <2>2 DEF StartupInv, TablesShape
  <2> QED
    BY <1>1, <2>2, <2>3 DEF Grows, StartupInv, TablesShape
<1>6. CASE starter[s].left > 1
  <2>1. PICK r : r = [starter[s] EXCEPT !.left = @ - 1]
    OBVIOUS
  <2>2. r \in StarterRecords /\ r.todo = starter[s].todo /\ r.phase = "up" /\ r.left = starter[s].left - 1
    <3>1. PICK left \in 0..Window : left = starter[s].left - 1
      BY <1>3, <1>6, StartupAssumption
    <3>2. r = [starter[s] EXCEPT !.left = left]
      BY <2>1, <3>1
    <3> QED
      BY <1>1, <1>2, <3>1, <3>2 DEF StarterRecords
  <2>3. starter' = [starter EXCEPT ![s] = r] /\ starter \in [Starters -> StarterRecords]
    BY <1>1, <1>2, <1>6, <2>1 DEF StartupInv, StarterRecords
  <2>4. /\ starter' \in [Starters -> StarterRecords] /\ starter'[s] = r
        /\ \A o \in Starters : o # s => starter'[o] = starter[o]
    BY <2>2, <2>3
  <2>5. Ordered(starter'[s].todo)
    BY <1>3, <2>2, <2>4
  <2>6. WindowFills(s)'
    <3>1. starter'[s].left \in 1..Window /\ readings'[t] + starter'[s].left >= Window
      <4>1. PICK has \in 0..Window, left \in 1..Window : has = readings[t] /\ left = starter[s].left
        BY <1>3, <1>4
      <4>2. left > 1 /\ has + left >= Window
        BY <1>3, <1>6, <4>1
      <4>3. left - 1 \in 1..Window /\ (IF has < Window THEN has + 1 ELSE has) + (left - 1) >= Window
        BY <4>2, StartupAssumption
      <4>4. starter'[s].left = left - 1 /\ readings'[t] = IF has < Window THEN has + 1 ELSE has
        BY <1>4, <2>2, <2>4, <4>1
      <4> QED
        BY <4>3, <4>4
    <3> QED
      BY <3>1, <2>2, <2>4 DEF WindowFills, t
  <2>7. Pursues(s)'
    <3>1. Program(s)' = Program(s)
      BY DEF Program, Bootstrap, Seed, Catalog, History, Upserts
    <3>2. \A task : Awaits(starter[s].todo, task)' = Awaits(starter[s].todo, task)
      BY <2>2, <2>4, AwaitsNext
    <3>3. \A task \in Range(Program(s)) : Fulfilled(task) => Fulfilled(task)'
      BY <1>5, Monotone, TasksOfProgram
    <3> QED
      BY <1>1, <1>3, <2>2, <2>4, <3>1, <3>2, <3>3 DEF Pursues
  <2> QED
    BY <1>5, <2>4, <2>5, <2>6, <2>7, StepOfOne
<1>7. CASE ~(starter[s].left > 1)
  <2>1. Done(s) /\ starter[s].left = 1
    BY <1>1, <1>3, <1>7, StartupAssumption
  <2>2. readings'[t] >= Enough
    BY <1>3, <1>4, <2>1, StartupAssumption
  <2>3. ASSUME NEW task, Serves(Head(starter[s].todo), task)
        PROVE  Fulfilled(task)'
    BY <1>1, <2>2, <2>3 DEF Fulfilled, Serves, t
  <2> QED
    BY <1>1, <1>5, <2>1, <2>3, DoneStep
<1> QED
  BY <1>6, <1>7

LEMMA HistoryStep ==
    ASSUME StartupInv, NEW s \in Starters, AddHistory(s)
    PROVE  StartupInv'
<1> DEFINE t == Head(starter[s].todo).of
<1>1. /\ starter[s].phase = "up" /\ starter[s].todo # <<>> /\ Head(starter[s].todo).do = "history"
      /\ Done(s) /\ rows \subseteq rows' /\ UNCHANGED <<limits, linked>>
  BY DEF AddHistory, Doing
<1>2. t \in TagNames
  BY <1>1, AtWork DEF Tasks
<1>3. \/ readings' = readings
      \/ readings[t] < Window /\ readings' = [readings EXCEPT ![t] = readings[t] + 1]
  <2>1. t \in TagNames
    BY <1>2
  <2>2. readings[t] \in 0..Window /\ DOMAIN readings = TagNames
    BY <2>1 DEF StartupInv, TablesShape
  <2>3. readings' = [readings EXCEPT ![t] =
          IF <<"reading", t>> \in rows \/ readings[t] >= Window THEN readings[t] ELSE readings[t] + 1]
    BY DEF AddHistory, Of
  <2>4. CASE <<"reading", t>> \in rows \/ readings[t] >= Window
    BY <2>1, <2>2, <2>3, <2>4 DEF StartupInv, TablesShape
  <2>5. CASE ~(<<"reading", t>> \in rows \/ readings[t] >= Window)
    BY <2>2, <2>3, <2>5, StartupAssumption
  <2> QED
    BY <2>4, <2>5
<1> HIDE DEF t
<1>4. Grows
  <2>1. \A u \in TagNames : readings[u] \in 0..Window
    BY DEF StartupInv, TablesShape
  <2>2. \A u \in TagNames : readings[u] <= readings'[u] /\ readings'[u] \in 0..Window
    <3>1. CASE readings' = readings
      BY <2>1, <3>1, StartupAssumption
    <3>2. CASE readings[t] < Window /\ readings' = [readings EXCEPT ![t] = readings[t] + 1]
      <4>1. /\ readings'[t] = readings[t] + 1
            /\ \A u \in TagNames : u # t => readings'[u] = readings[u]
        BY <1>2, <3>2 DEF StartupInv, TablesShape
      <4> QED
        BY <1>2, <2>1, <3>2, <4>1, StartupAssumption
    <3> QED
      BY <1>3, <3>1, <3>2
  <2>3. readings' \in [TagNames -> 0..Window]
    BY <1>3, <2>2 DEF StartupInv, TablesShape
  <2> QED
    BY <1>1, <2>2, <2>3 DEF Grows, StartupInv, TablesShape
<1>5. ASSUME NEW task, Serves(Head(starter[s].todo), task)
      PROVE  Fulfilled(task)'
  <2>1. task = Head(starter[s].todo)
    BY <1>1, <1>5, ServesItself
  <2> QED
    BY <1>1, <2>1 DEF Fulfilled
<1> QED
  BY <1>1, <1>4, <1>5, DoneStep

\* The tasks of the file are for nothing that a start has to leave behind.
LEMMA LeaveStep ==
    ASSUME StartupInv, NEW s \in Starters, LeaveHistory(s)
    PROVE  StartupInv'
<1> DEFINE todo == starter[s].todo
<1>1. PICK n \in DOMAIN todo :
        /\ \A i \in DOMAIN todo : todo[i].do = "history" <=> i <= n
        /\ starter' = [starter EXCEPT ![s].todo = SubSeq(todo, n + 1, Len(todo))]
  BY DEF LeaveHistory
<1>2. starter[s].phase = "up" /\ todo # <<>> /\ UNCHANGED <<rows, limits, linked, readings>>
  BY DEF LeaveHistory, Doing
<1>3. /\ starter[s] \in StarterRecords /\ todo \in Seq(Tasks)
      /\ Len(todo) \in Nat \ {0} /\ DOMAIN todo = 1..Len(todo)
  BY <1>2, AtWork
<1>4. PICK rest : rest = SubSeq(todo, n + 1, Len(todo))
  OBVIOUS
<1>5. /\ rest \in Seq(Tasks) /\ DOMAIN rest = 1..(Len(todo) - n)
      /\ \A x \in DOMAIN rest : x + n \in DOMAIN todo /\ rest[x] = todo[x + n]
  <2>1. n \in Nat /\ 1 <= n /\ n <= Len(todo) /\ n + 1 \in 1..(Len(todo) + 1)
    BY <1>1, <1>3
  <2>2. rest \in Seq(Tasks)
    BY <1>3, <1>4, <2>1
  <2>3. Len(rest) = Len(todo) - n /\ \A x \in 1..(Len(todo) - n) : rest[x] = todo[x + n]
    BY <1>3, <1>4, <2>1
  <2>4. DOMAIN rest = 1..(Len(todo) - n)
    BY <2>2, <2>3
  <2>5. ASSUME NEW x \in 1..(Len(todo) - n) PROVE x + n \in DOMAIN todo /\ rest[x] = todo[x + n]
    BY <1>3, <2>1, <2>3
  <2> QED
    BY <2>2, <2>4, <2>5
<1>6. PICK r : r = [starter[s] EXCEPT !.todo = rest]
  OBVIOUS
<1>7. r \in StarterRecords /\ r.todo = rest /\ r.phase = "up"
  BY <1>2, <1>3, <1>5, <1>6 DEF StarterRecords
<1>8. starter' = [starter EXCEPT ![s] = r] /\ starter \in [Starters -> StarterRecords]
  BY <1>1, <1>3, <1>4, <1>6 DEF StartupInv, StarterRecords
<1>9. /\ starter' \in [Starters -> StarterRecords] /\ starter'[s] = r
      /\ \A o \in Starters : o # s => starter'[o] = starter[o]
  BY <1>7, <1>8
<1>10. Grows
  BY <1>2, UnchangedGrows
<1>11. Ordered(todo) /\ Pursues(s)
  BY DEF StartupInv
<1> HIDE DEF todo
<1>12. Ordered(rest)
  <2>1. \A x, y \in DOMAIN rest : x < y => x + n < y + n
    BY <1>1, <1>3, <1>5
  <2> QED
    BY <2>1, <1>5, <1>11 DEF Ordered
<1>13. WindowFills(s)'
  <2>1. SUFFICES ASSUME rest # <<>>, Head(rest).do = "window" PROVE FALSE
    BY <1>7, <1>9 DEF WindowFills
  <2>2. 1 \in DOMAIN rest /\ Head(rest) = rest[1]
    BY <1>5, <2>1
  <2>3. 1 + n \in DOMAIN todo /\ todo[1 + n].do = "window" /\ 1 \in DOMAIN todo /\ 1 < 1 + n
    BY <1>1, <1>3, <1>5, <2>1, <2>2
  <2> QED
    BY <2>3, <1>11 DEF Ordered
<1>14. Pursues(s)'
  <2>1. SUFFICES ASSUME NEW task \in Range(Program(s))
                 PROVE  Fulfilled(task)' \/ Awaits(rest, task)
    <3>1. Program(s)' = Program(s)
      BY DEF Program, Bootstrap, Seed, Catalog, History, Upserts
    <3>2. \A task : Awaits(starter[s].todo, task)' = Awaits(rest, task)
      BY <1>7, <1>9, AwaitsNext
    <3> QED
      BY <1>7, <1>9, <3>1, <3>2 DEF Pursues
  <2>2. CASE Fulfilled(task)
    BY <2>2, <1>10, Monotone, TasksOfProgram
  <2>3. CASE Awaits(todo, task)
    <3>1. PICK x \in DOMAIN todo : Serves(todo[x], task)
      BY <2>3 DEF Awaits
    <3>2. CASE x <= n
      <4>1. todo[x].do = "history"
        BY <3>1, <3>2, <1>1 DEF todo
      <4>2. task.do = "history"
        BY <3>1, <4>1 DEF Serves
      <4> QED
        BY <4>2 DEF Fulfilled
    <3>3. CASE ~(x <= n)
      <4>1. x - n \in DOMAIN rest /\ rest[x - n] = todo[x]
        BY <1>1, <1>3, <1>5, <3>1, <3>3
      <4> QED
        BY <3>1, <4>1 DEF Awaits
    <3> QED
      BY <3>2, <3>3
  <2> QED
    BY <2>2, <2>3, <1>2, <1>11 DEF Pursues, todo
<1> QED
  BY <1>7, <1>9, <1>10, <1>12, <1>13, <1>14, StepOfOne

\* A start that has nothing left to do has fulfilled all; one that fails promises nothing.
LEMMA EndStep ==
    ASSUME StartupInv, NEW s \in Starters, Complete(s) \/ Skip(s)
    PROVE  StartupInv'
<1>1. UNCHANGED <<rows, limits, linked, readings>> /\ starter[s].phase = "up"
  BY DEF Complete, Skip
<1>2. Grows
  BY <1>1, UnchangedGrows
<1>3. starter[s] \in StarterRecords /\ starter \in [Starters -> StarterRecords]
  BY DEF StartupInv
<1>4. PICK r : /\ \/ r = [starter[s] EXCEPT !.phase = "complete"] /\ starter[s].todo = <<>>
                  \/ r = [starter[s] EXCEPT !.phase = "skipped", !.todo = <<>>,
                                            !.found = FALSE, !.left = 0]
               /\ starter' = [starter EXCEPT ![s] = r]
  BY <1>3 DEF Complete, Skip, StarterRecords
<1>5. /\ r \in StarterRecords /\ r.todo = <<>>
      /\ r.phase = "skipped" \/ (r.phase = "complete" /\ starter[s].todo = <<>>)
  <2>1. <<>> \in Seq(Tasks) /\ 0 \in 0..Window
    BY StartupAssumption
  <2>2. CASE r = [starter[s] EXCEPT !.phase = "complete"] /\ starter[s].todo = <<>>
    BY <1>3, <2>2 DEF StarterRecords
  <2>3. CASE r = [starter[s] EXCEPT !.phase = "skipped", !.todo = <<>>, !.found = FALSE, !.left = 0]
    BY <1>3, <2>1, <2>3 DEF StarterRecords
  <2> QED
    BY <1>4, <2>2, <2>3
<1>6. /\ starter' \in [Starters -> StarterRecords] /\ starter'[s] = r
      /\ \A o \in Starters : o # s => starter'[o] = starter[o]
  BY <1>3, <1>4, <1>5
<1>7. Ordered(starter'[s].todo) /\ WindowFills(s)'
  BY <1>5, <1>6 DEF Ordered, WindowFills
<1>8. Pursues(s)'
  <2>1. CASE r.phase = "skipped"
    BY <2>1, <1>6 DEF Pursues
  <2>2. CASE r.phase = "complete" /\ starter[s].todo = <<>>
    <3>1. \A task \in Range(Program(s)) : Fulfilled(task)
      BY <1>1, <2>2 DEF StartupInv, Pursues, Awaits
    <3>2. \A task \in Range(Program(s)) : Fulfilled(task)'
      BY <3>1, <1>2, Monotone, TasksOfProgram
    <3>3. Program(s)' = Program(s)
      BY DEF Program, Bootstrap, Seed, Catalog, History, Upserts
    <3> QED
      BY <2>2, <1>6, <3>2, <3>3 DEF Pursues
  <2> QED
    BY <2>1, <2>2, <1>5
<1> QED
  BY <1>2, <1>6, <1>7, <1>8, StepOfOne

LEMMA StartupSteps == StartupInv /\ [StartupNext]_startupVars => StartupInv'
<1> SUFFICES ASSUME StartupInv, [StartupNext]_startupVars PROVE StartupInv'
  OBVIOUS
<1>1. CASE UNCHANGED startupVars
  <2>1. Grows
    BY <1>1, UnchangedGrows DEF startupVars
  <2> QED
    BY <1>1, <2>1, OthersKeep DEF startupVars, StartupInv, TablesShape
<1>2. CASE StartupNext
  BY <1>2, StartStep, FindStep, WriteStep, TagStep, MeterStep, CountStep, ReadingStep,
     HistoryStep, LeaveStep, EndStep DEF StartupNext
<1> QED
  BY <1>1, <1>2

LEMMA StartupInvSuffices == StartupInv => StartCompletes
<1> SUFFICES ASSUME StartupInv, NEW s \in Starters, starter[s].phase = "complete"
             PROVE
        /\ \A r \in {"tenant", "operator", "site", "unit", "pump", "column"} : RowOf(r) \in rows
        /\ s \in Seeds =>
             \A r \in {"admin", "planner", "technician", "order", "plan"} : RowOf(r) \in rows
        /\ \A t \in Range(TagSpecs) : limits[t] = CatalogLimits /\ readings[t] >= Enough
        /\ \A m \in Range(MeterSpecs) : RowOf(m.code) \in rows /\ linked[m] = m.tag
  BY DEF StartCompletes
<1>1. \A task \in Range(Program(s)) : Fulfilled(task)
  BY DEF StartupInv, Pursues
<1>2. HasCatalog(Program(s)) /\ HasNames(s, Program(s))
  BY ProgramPart
<1>3. \A r : (\E task \in Named(r) : task \in Range(Program(s))) => RowOf(r) \in rows
  BY <1>1 DEF Named, Task, Fulfilled
<1>4. \A r \in {"tenant", "operator"} : RowOf(r) \in rows
  BY <1>2, <1>3 DEF HasNames
<1>5. \A r \in {"site", "unit", "pump", "column"} : RowOf(r) \in rows
  BY <1>1, <1>2 DEF HasCatalog, Task, Fulfilled
<1>6. s \in Seeds => \A r \in {"admin", "planner", "technician", "order", "plan"} : RowOf(r) \in rows
  BY <1>2, <1>3 DEF HasNames
<1>7. \A t \in TagNames : limits[t] = CatalogLimits /\ readings[t] >= Enough
  <2>1. ASSUME NEW t \in TagNames PROVE limits[t] = CatalogLimits /\ readings[t] >= Enough
    <3>1. Fulfilled(Task("tag", t)) /\ Fulfilled(Task("count", t))
      BY <1>1, <1>2 DEF HasCatalog
    <3> QED
      BY <3>1 DEF Task, Fulfilled
  <2> QED
    BY <2>1
<1>8. \A m \in Meters : RowOf(m.code) \in rows /\ linked[m] = m.tag
  <2>1. ASSUME NEW m \in Meters PROVE RowOf(m.code) \in rows /\ linked[m] = m.tag
    <3>1. Fulfilled(Task("meter", m))
      BY <1>1, <1>2 DEF HasCatalog
    <3> QED
      BY <3>1 DEF Task, Fulfilled
  <2> QED
    BY <2>1
<1> QED
  BY <1>4, <1>5, <1>6, <1>7, <1>8 DEF TagNames, Meters

\* OperatorBootstrapService, CatalogSyncService and seed.ts: a start that came to its end leaves the
\* database complete, for any catalog, and whatever other starts did at the same time, left half
\* done or refused it.
THEOREM StartsComplete == StartupSpec => []StartCompletes
<1>1. StartupInit => StartupInv
  BY StartupStarts
<1>2. StartupInv /\ [StartupNext]_startupVars => StartupInv'
  BY StartupSteps
<1> QED
  BY <1>1, <1>2, StartupInvSuffices, PTL DEF StartupSpec

----
(* Startup: the shape of its state. *)

\* What StartupInv leaves open: readings of a window are left only while it is written.
StartupRest ==
    \A s \in Starters :
        starter[s].starts <= MaxStarts /\ (starter[s].left > 0 => Doing(s, "window"))

LEMMA StartupRestStarts == StartupInit => StartupRest
BY StartupAssumption DEF StartupInit, StartupRest

\* What a step has to show of the start that takes it.
LEMMA RestOfOne ==
    ASSUME StartupRest, NEW s \in Starters, NEW r, starter' = [starter EXCEPT ![s] = r],
           starter \in [Starters -> StarterRecords],
           r.starts <= MaxStarts,
           r.left > 0 => r.phase = "up" /\ r.todo # <<>> /\ Head(r.todo).do = "window"
    PROVE  StartupRest'
BY DEF StartupRest, Doing

LEMMA DoneRest ==
    ASSUME StartupInv, StartupRest, NEW s \in Starters, Done(s)
    PROVE  StartupRest'
<1>1. starter \in [Starters -> StarterRecords]
  BY DEF StartupInv
<1>2. PICK r : r = [starter[s] EXCEPT !.todo = Tail(starter[s].todo), !.found = FALSE, !.left = 0]
  OBVIOUS
<1>3. starter' = [starter EXCEPT ![s] = r]
  BY <1>1, <1>2 DEF Done, StarterRecords
<1>4. starter[s] \in StarterRecords /\ starter[s].starts <= MaxStarts
  BY <1>1 DEF StartupRest
<1>5. ~(r.left > 0) /\ r.starts <= MaxStarts
  BY <1>2, <1>4 DEF StarterRecords
<1> QED
  BY <1>1, <1>3, <1>5, RestOfOne

\* The first task becomes another one, and readings are left only for a window.
LEMMA BecomesRest ==
    ASSUME StartupInv, StartupRest, NEW s \in Starters, NEW r,
           starter' = [starter EXCEPT ![s] = r], starter[s].phase = "up", starter[s].todo # <<>>,
           NEW new \in Tasks, r.todo = <<new>> \o Tail(starter[s].todo), r.phase = "up",
           r.starts = starter[s].starts, r.left > 0 => new.do = "window"
    PROVE  StartupRest'
<1>1. starter \in [Starters -> StarterRecords] /\ starter[s].starts <= MaxStarts
  BY DEF StartupInv, StartupRest
<1>2. Tail(starter[s].todo) \in Seq(Tasks)
  BY AtWork
<1>3. r.todo # <<>> /\ Head(r.todo) = new
  BY <1>2
<1> QED
  BY <1>1, <1>3, RestOfOne

LEMMA StartupRestSteps == StartupInv /\ StartupRest /\ [StartupNext]_startupVars => StartupRest'
<1> SUFFICES ASSUME StartupInv, StartupRest, [StartupNext]_startupVars PROVE StartupRest'
  OBVIOUS
<1>1. /\ starter \in [Starters -> StarterRecords]
      /\ \A s \in Starters : starter[s] \in StarterRecords /\ starter[s].starts <= MaxStarts
  BY DEF StartupInv, StartupRest
<1>2. CASE UNCHANGED startupVars
  BY <1>2 DEF startupVars, StartupRest, Doing
<1>3. ASSUME NEW s \in Starters, Start(s) PROVE StartupRest'
  <2>1. PICK r : r = [todo |-> Program(s), found |-> FALSE, left |-> 0,
                      phase |-> "up", starts |-> starter[s].starts + 1]
    OBVIOUS
  <2>2. starter' = [starter EXCEPT ![s] = r]
    BY <1>1, <1>3, <2>1 DEF Start
  <2>3. ~(r.left > 0) /\ r.starts <= MaxStarts
    <3>1. starter[s].starts \in Nat /\ starter[s].starts < MaxStarts
      BY <1>1, <1>3 DEF Start, StarterRecords
    <3> QED
      BY <2>1, <3>1, StartupAssumption
  <2> QED
    BY <1>1, <2>2, <2>3, RestOfOne
<1>4. ASSUME NEW s \in Starters, Find(s) PROVE StartupRest'
  <2>1. starter[s].phase = "up" /\ starter[s].todo # <<>> /\ Head(starter[s].todo).do = "find"
    BY <1>4 DEF Find, Doing
  <2>2. starter[s].left = 0
    BY <1>1, <2>1 DEF StartupRest, Doing, StarterRecords
  <2>3. Task("write", Of(s)) \in Tasks
    BY <2>1, AtWork DEF Tasks, Task, Of
  <2>4. PICK r : r = [starter[s] EXCEPT !.todo = <<Task("write", Of(s))>> \o Tail(starter[s].todo),
                                        !.found = RowOf(Of(s)) \in rows]
    OBVIOUS
  <2>5. starter' = [starter EXCEPT ![s] = r]
    BY <1>1, <1>4, <2>4 DEF Find, StarterRecords
  <2>6. /\ ~(r.left > 0) /\ r.starts = starter[s].starts /\ r.phase = "up"
        /\ r.todo = <<Task("write", Of(s))>> \o Tail(starter[s].todo)
    BY <1>1, <2>1, <2>2, <2>4 DEF StarterRecords
  <2> QED
    BY <2>1, <2>3, <2>5, <2>6, BecomesRest
<1>5. ASSUME NEW s \in Starters, Write(s) \/ Upsert(s) \/ UpsertTag(s) \/ UpsertMeter(s) \/ AddHistory(s)
      PROVE  StartupRest'
  <2>1. Done(s)
    BY <1>5 DEF Write, Upsert, UpsertTag, UpsertMeter, AddHistory
  <2> QED
    BY <2>1, DoneRest
<1>6. ASSUME NEW s \in Starters, Count(s) PROVE StartupRest'
  <2>1. starter[s].phase = "up" /\ starter[s].todo # <<>> /\ Head(starter[s].todo).do = "count"
    BY <1>6 DEF Count, Doing
  <2>2. Task("window", Of(s)) \in Tasks /\ Task("window", Of(s)).do = "window"
    BY <2>1, AtWork DEF Tasks, Task, Of
  <2>3. CASE Done(s)
    BY <2>3, DoneRest
  <2>4. CASE starter' = [starter EXCEPT ![s].todo = <<Task("window", Of(s))>> \o Tail(@),
                                        ![s].left = Window]
    <3>1. PICK r : r = [starter[s] EXCEPT !.todo = <<Task("window", Of(s))>> \o Tail(starter[s].todo),
                                          !.left = Window]
      OBVIOUS
    <3>2. starter' = [starter EXCEPT ![s] = r]
      BY <1>1, <2>4, <3>1 DEF StarterRecords
    <3>3. /\ r.starts = starter[s].starts /\ r.phase = "up"
          /\ r.todo = <<Task("window", Of(s))>> \o Tail(starter[s].todo)
      BY <1>1, <2>1, <3>1 DEF StarterRecords
    <3> QED
      BY <2>1, <2>2, <3>2, <3>3, BecomesRest
  <2> QED
    BY <1>6, <2>3, <2>4 DEF Count
<1>7. ASSUME NEW s \in Starters, AddReading(s) PROVE StartupRest'
  <2>1. starter[s].phase = "up" /\ starter[s].todo # <<>> /\ Head(starter[s].todo).do = "window"
    BY <1>7 DEF AddReading, Doing
  <2>2. CASE Done(s)
    BY <2>2, DoneRest
  <2>3. CASE starter' = [starter EXCEPT ![s].left = @ - 1]
    <3>1. PICK r : r = [starter[s] EXCEPT !.left = starter[s].left - 1]
      OBVIOUS
    <3>2. starter' = [starter EXCEPT ![s] = r]
      BY <1>1, <2>3, <3>1 DEF StarterRecords
    <3>3. r.starts = starter[s].starts /\ r.phase = "up" /\ r.todo = starter[s].todo
      BY <1>1, <2>1, <3>1 DEF StarterRecords
    <3> QED
      BY <1>1, <2>1, <3>2, <3>3, RestOfOne
  <2> QED
    BY <1>7, <2>2, <2>3 DEF AddReading
<1>8. ASSUME NEW s \in Starters, LeaveHistory(s) PROVE StartupRest'
  <2>0. starter[s].phase = "up" /\ starter[s].todo # <<>> /\ Head(starter[s].todo).do = "history"
    BY <1>8 DEF LeaveHistory, Doing
  <2>1. starter[s].left = 0
    BY <1>1, <2>0 DEF StartupRest, Doing, StarterRecords
  <2>2. PICK n \in DOMAIN starter[s].todo :
          starter' = [starter EXCEPT ![s].todo = SubSeq(@, n + 1, Len(@))]
    BY <1>8 DEF LeaveHistory
  <2>3. PICK r : r = [starter[s] EXCEPT !.todo = SubSeq(starter[s].todo, n + 1, Len(starter[s].todo))]
    OBVIOUS
  <2>4. starter' = [starter EXCEPT ![s] = r]
    BY <1>1, <2>2, <2>3 DEF StarterRecords
  <2>5. ~(r.left > 0) /\ r.starts = starter[s].starts
    BY <1>1, <2>1, <2>3 DEF StarterRecords
  <2> QED
    BY <1>1, <2>4, <2>5, RestOfOne
<1>9. ASSUME NEW s \in Starters, Complete(s) PROVE StartupRest'
  <2>1. starter[s].left = 0
    BY <1>1, <1>9 DEF Complete, StartupRest, Doing, StarterRecords
  <2>2. PICK r : r = [starter[s] EXCEPT !.phase = "complete"]
    OBVIOUS
  <2>3. starter' = [starter EXCEPT ![s] = r]
    BY <1>1, <1>9, <2>2 DEF Complete, StarterRecords
  <2>4. ~(r.left > 0) /\ r.starts = starter[s].starts
    BY <1>1, <2>1, <2>2 DEF StarterRecords
  <2> QED
    BY <1>1, <2>3, <2>4, RestOfOne
<1>10. ASSUME NEW s \in Starters, Skip(s) PROVE StartupRest'
  <2>1. PICK r : r = [starter[s] EXCEPT !.phase = "skipped", !.todo = <<>>, !.found = FALSE, !.left = 0]
    OBVIOUS
  <2>2. starter' = [starter EXCEPT ![s] = r]
    BY <1>1, <1>10, <2>1 DEF Skip, StarterRecords
  <2>3. ~(r.left > 0) /\ r.starts = starter[s].starts
    BY <1>1, <2>1 DEF StarterRecords
  <2> QED
    BY <1>1, <2>2, <2>3, RestOfOne
<1> QED
  BY <1>2, <1>3, <1>4, <1>5, <1>6, <1>7, <1>8, <1>9, <1>10 DEF StartupNext

LEMMA StartupShape == StartupInv /\ StartupRest => StartupTypeOK
<1> SUFFICES ASSUME StartupInv, StartupRest PROVE StartupTypeOK
  OBVIOUS
<1>1. ASSUME NEW s \in Starters
      PROVE  /\ starter[s].phase \in {"down", "up", "skipped", "complete"}
             /\ starter[s].left \in 0..Window /\ starter[s].starts \in 0..MaxStarts
             /\ starter[s].left > 0 <=> Doing(s, "window")
  <2>1. starter[s] \in StarterRecords
    BY DEF StartupInv
  <2>2. starter[s].starts \in Nat /\ starter[s].starts <= MaxStarts
    BY <2>1 DEF StartupRest, StarterRecords
  <2>3. Doing(s, "window") => starter[s].left > 0
    BY StartupAssumption DEF StartupInv, WindowFills, Doing
  <2> QED
    BY <2>1, <2>2, <2>3, StartupAssumption DEF StartupRest, StarterRecords
<1>2. TablesShape
  BY DEF StartupInv
<1> QED
  BY <1>1, <1>2 DEF StartupTypeOK, TablesShape, TagNames, Meters

\* OperatorBootstrapService and CatalogSyncService: the state keeps its shape; a start has readings
\* left to write exactly while it is at a tag's window of them.
THEOREM StartupTyped == StartupSpec => []StartupTypeOK
<1>1. StartupInit => StartupInv /\ StartupRest
  BY StartupStarts, StartupRestStarts
<1>2. StartupInv /\ StartupRest /\ [StartupNext]_startupVars => StartupInv' /\ StartupRest'
  BY StartupSteps, StartupRestSteps
<1>3. StartupInv /\ StartupRest => StartupTypeOK
  BY StartupShape
<1> QED
  BY <1>1, <1>2, <1>3, PTL DEF StartupSpec

----
(* AlarmKpis. *)

\* What a call knows of the alarm it is to return, or of the one it is to raise.
CallOK(o) ==
    /\ observer[o].phase = "raising" => observer[o].hit \in AlarmKinds
    /\ observer[o].phase = "returning" =>
         /\ observer[o].active \in DOMAIN alarms
         /\ alarms[observer[o].active].tag = observer[o].tag
         /\ observer[o].tag \notin setBack => alarms[observer[o].active].started <= observer[o].time

\* No alarm of the tag is cleared as of a time before its start.
ClearedAfterStart(t) ==
    \A i \in DOMAIN alarms : alarms[i].tag = t => alarms[i].started <= alarms[i].cleared

\* One call at a time observes the tag, one alarm of it stands at most, and the call under way
\* knows of it.
OneAtATime(t) ==
    /\ \A o, p \in Observers :
         Observing(o) /\ Observing(p) /\ observer[o].tag = t /\ observer[p].tag = t => o = p
    /\ \A i, j \in StandsOf(t) : i = j
    /\ \A o \in Observers :
         /\ observer[o].phase = "raising" /\ observer[o].tag = t => StandsOf(t) = {}
         /\ observer[o].phase = "returning" /\ observer[o].tag = t => StandsOf(t) \subseteq {observer[o].active}

KpiInv ==
    /\ KpiTypeOK
    /\ \A o \in Observers : CallOK(o)
    /\ \A t \in AlarmTags \ setBack : ClearedAfterStart(t)
    /\ \A t \in AlarmTags \ shared : OneAtATime(t)

----
LEMMA KpiStarts == KpiInit => KpiInv
<1> SUFFICES ASSUME KpiInit PROVE KpiInv
  OBVIOUS
<1>1. alarms = <<>> /\ setBack = {} /\ shared = {} /\ DOMAIN alarms = {}
  BY DEF KpiInit
<1>2. \A o \in Observers : observer[o].phase = "rest"
  BY DEF KpiInit, AtRest
<1>3. KpiTypeOK
  BY <1>1 DEF KpiInit, KpiTypeOK
<1>4. \A o \in Observers : CallOK(o)
  BY <1>2 DEF CallOK
<1>5. \A t : ClearedAfterStart(t) /\ OneAtATime(t)
  BY <1>1, <1>2 DEF ClearedAfterStart, OneAtATime, StandsOf, Observing
<1> QED
  BY <1>3, <1>4, <1>5 DEF KpiInv

AlarmRecords == [tag : AlarmTags, kind : AlarmKinds, started : 0..MaxTime, cleared : 0..Standing]

BusyRecords(n) ==
    [phase : {"returning", "raising"}, tag : AlarmTags, hit : AlarmKinds \cup {"none"},
     time : 0..MaxTime, active : 0..n]

LEMMA KpiFacts ==
    ASSUME KpiTypeOK
    PROVE  /\ alarms \in Seq(AlarmRecords) /\ Len(alarms) \in Nat /\ DOMAIN alarms = 1..Len(alarms)
           /\ Standing = MaxTime + 1 /\ Standing \in Nat /\ MaxTime \in Nat
           /\ \A i \in DOMAIN alarms :
                /\ alarms[i] \in AlarmRecords
                /\ alarms[i].tag \in AlarmTags /\ alarms[i].kind \in AlarmKinds
                /\ alarms[i].started \in Nat /\ alarms[i].started <= MaxTime
                /\ alarms[i].cleared \in Nat /\ alarms[i].cleared <= Standing
           /\ \A o \in Observers :
                /\ observer[o] = AtRest \/ observer[o] \in BusyRecords(Len(alarms))
                /\ observer[o].phase # "rest" => observer[o] \in BusyRecords(Len(alarms))
                /\ observer[o] = AtRest => observer[o].phase = "rest"
           /\ \A n \in Nat : \A r \in BusyRecords(n) :
                /\ r.phase \in {"returning", "raising"} /\ r.tag \in AlarmTags
                /\ r.hit \in AlarmKinds \cup {"none"} /\ r.time \in 0..MaxTime
<1>1. alarms \in Seq(AlarmRecords) /\ Len(alarms) \in Nat /\ DOMAIN alarms = 1..Len(alarms)
  BY DEF KpiTypeOK, AlarmRecords
<1>2. Standing = MaxTime + 1 /\ Standing \in Nat /\ MaxTime \in Nat
  BY AlarmKpisAssumption DEF Standing
<1>3. ASSUME NEW i \in DOMAIN alarms
      PROVE  /\ alarms[i] \in AlarmRecords
             /\ alarms[i].tag \in AlarmTags /\ alarms[i].kind \in AlarmKinds
             /\ alarms[i].started \in Nat /\ alarms[i].started <= MaxTime
             /\ alarms[i].cleared \in Nat /\ alarms[i].cleared <= Standing
  <2>1. alarms[i] \in AlarmRecords
    BY <1>1
  <2> QED
    BY <1>2, <2>1 DEF AlarmRecords
<1>4. ASSUME NEW o \in Observers
      PROVE  /\ observer[o] = AtRest \/ observer[o] \in BusyRecords(Len(alarms))
             /\ observer[o].phase # "rest" => observer[o] \in BusyRecords(Len(alarms))
             /\ observer[o] = AtRest => observer[o].phase = "rest"
  BY DEF KpiTypeOK, BusyRecords, AtRest
<1>5. \A n \in Nat : \A r \in BusyRecords(n) :
         /\ r.phase \in {"returning", "raising"} /\ r.tag \in AlarmTags
         /\ r.hit \in AlarmKinds \cup {"none"} /\ r.time \in 0..MaxTime
  BY DEF BusyRecords
<1> QED
  BY <1>1, <1>2, <1>3, <1>4, <1>5

\* The call knows the alarm it has read; a tag set back, or observed by another call, is recorded as such.
LEMMA FindSteps ==
    ASSUME KpiInv, NEW o \in Observers, NEW t \in AlarmTags, NEW hit \in AlarmKinds \cup {"none"},
           NEW s \in 0..MaxTime, FindActive(o, t, hit, s)
    PROVE  KpiInv'
<1>1. PICK k \in 0..Len(alarms) :
        /\ IsNewestOf(t, k)
        /\ observer' = [observer EXCEPT ![o] =
             IF NextPhase(hit, k) = "rest" THEN AtRest
             ELSE [phase |-> NextPhase(hit, k), tag |-> t, hit |-> hit, time |-> s, active |-> k]]
  BY DEF FindActive
<1>2. KpiTypeOK /\ observer[o].phase = "rest" /\ alarms' = alarms
  BY DEF KpiInv, FindActive, Observing
<1>3. /\ setBack \subseteq setBack' /\ setBack' \subseteq AlarmTags
      /\ shared \subseteq shared' /\ shared' \subseteq AlarmTags
      /\ t \notin setBack' => \A i \in DOMAIN alarms : alarms[i].tag = t => ~(s < alarms[i].started)
      /\ t \notin shared' => \A p \in Observers : ~(Observing(p) /\ observer[p].tag = t)
  BY <1>2 DEF FindActive, KpiTypeOK
<1> DEFINE busy == [phase |-> NextPhase(hit, k), tag |-> t, hit |-> hit, time |-> s, active |-> k]
           r == IF NextPhase(hit, k) = "rest" THEN AtRest ELSE busy
<1>4. /\ NextPhase(hit, k) \in {"rest", "returning", "raising"}
      /\ NextPhase(hit, k) = "returning" => k # 0
      /\ NextPhase(hit, k) = "raising" => k = 0 /\ hit \in AlarmKinds
  BY DEF NextPhase
<1>5. /\ k # 0 => k \in DOMAIN alarms /\ alarms[k].tag = t /\ k \in StandsOf(t)
      /\ k = 0 => StandsOf(t) = {}
  BY <1>1 DEF IsNewestOf, StandsOf
<1>6. /\ r.phase = NextPhase(hit, k)
      /\ r.phase # "rest" => /\ r.tag = t /\ r.hit = hit /\ r.time = s /\ r.active = k
                             /\ r \in BusyRecords(Len(alarms))
      /\ r.phase = "rest" => r = AtRest
  BY <1>4 DEF AtRest, BusyRecords
<1>7. observer' = [observer EXCEPT ![o] = r]
  BY <1>1
<1> HIDE DEF r, busy
<1>8. observer'[o] = r /\ \A p \in Observers : p # o => observer'[p] = observer[p]
  BY <1>2, <1>7 DEF KpiTypeOK
<1>9. KpiTypeOK'
  <2>1. observer' \in [Observers -> {AtRest} \cup BusyRecords(Len(alarms))]
    BY <1>2, <1>6, <1>7 DEF KpiTypeOK, BusyRecords
  <2> QED
    BY <1>2, <1>3, <2>1 DEF KpiTypeOK, BusyRecords, AtRest, Standing
<1>10. ASSUME NEW p \in Observers PROVE CallOK(p)'
  <2>1. CASE p # o
    BY <1>2, <1>3, <1>8, <2>1 DEF KpiInv, CallOK
  <2>2. CASE p = o
    <3>1. t \notin setBack' /\ k \in DOMAIN alarms /\ alarms[k].tag = t => alarms[k].started <= s
      BY <1>2, <1>3, KpiFacts
    <3> QED
      BY <1>2, <1>4, <1>5, <1>6, <1>8, <2>2, <3>1 DEF CallOK
  <2> QED
    BY <2>1, <2>2
<1>11. ASSUME NEW u \in AlarmTags \ setBack' PROVE ClearedAfterStart(u)'
  BY <1>2, <1>3 DEF KpiInv, ClearedAfterStart
<1>12. ASSUME NEW u \in AlarmTags \ shared' PROVE OneAtATime(u)'
  <2>1. OneAtATime(u) /\ StandsOf(u)' = StandsOf(u)
    BY <1>2, <1>3 DEF KpiInv, StandsOf, Standing
  <2>2. CASE u # t
    BY <1>6, <1>8, <2>1, <2>2 DEF OneAtATime, Observing
  <2>3. CASE u = t
    <3>1. \A p \in Observers : p # o => ~(Observing(p)' /\ observer'[p].tag = u)
      BY <1>3, <1>8, <2>3 DEF Observing
    <3>2. \A p \in Observers :
            p # o => observer'[p].phase = "rest" \/ observer'[p].tag # u
      BY <3>1 DEF Observing
    <3>3. r.phase = "raising" => StandsOf(u) = {}
      BY <1>4, <1>5, <1>6, <2>3
    <3>4. r.phase = "returning" => r.active = k /\ StandsOf(u) \subseteq {k}
      BY <1>4, <1>5, <1>6, <2>1, <2>3 DEF OneAtATime
    <3> QED
      BY <1>8, <2>1, <3>1, <3>2, <3>3, <3>4 DEF OneAtATime
  <2> QED
    BY <2>2, <2>3
<1> QED
  BY <1>9, <1>10, <1>11, <1>12 DEF KpiInv

LEMMA ReturnSteps ==
    ASSUME KpiInv, NEW o \in Observers, ReturnFound(o)
    PROVE  KpiInv'
<1>1. KpiTypeOK /\ CallOK(o) /\ observer[o].phase = "returning" /\ setBack' = setBack /\ shared' = shared
  BY DEF KpiInv, ReturnFound
<1> DEFINE a == observer[o].active
           t == observer[o].tag
           s == observer[o].time
           r == observer'[o]
           new == [alarms[a] EXCEPT !.cleared = s]
<1>2. /\ t \in AlarmTags /\ s \in 0..MaxTime /\ a \in DOMAIN alarms /\ alarms[a].tag = t
      /\ t \notin setBack => alarms[a].started <= s
      /\ alarms[a] \in AlarmRecords /\ observer[o] \in BusyRecords(Len(alarms))
  BY <1>1, KpiFacts DEF CallOK
<1>3. alarms' = [alarms EXCEPT ![a] = new] /\ s \in 0..Standing /\ s # Standing
  BY <1>1, <1>2, KpiFacts DEF ReturnFound
<1>4. /\ new \in AlarmRecords /\ new.tag = t /\ new.started = alarms[a].started /\ new.cleared = s
  BY <1>2, <1>3 DEF AlarmRecords
<1>5. /\ r.phase = "rest" => r = AtRest
      /\ r.phase # "rest" => /\ r.phase = "raising" /\ r.tag = t /\ r.hit \in AlarmKinds
                             /\ r \in BusyRecords(Len(alarms))
      /\ observer' = [observer EXCEPT ![o] = r]
      /\ \A p \in Observers : p # o => observer'[p] = observer[p]
  <2> DEFINE going == [observer[o] EXCEPT !.phase = "raising"]
             on == [going EXCEPT !.active = 0]
  <2>1. /\ on.phase = "raising" /\ on.tag = t /\ on.hit = observer[o].hit
        /\ on \in BusyRecords(Len(alarms)) /\ on = [observer[o] EXCEPT !.phase = "raising", !.active = 0]
    <3>1. Len(alarms) \in Nat
      BY <1>1, KpiFacts
    <3>2. /\ going \in BusyRecords(Len(alarms)) /\ going.phase = "raising" /\ going.tag = t
          /\ going.hit = observer[o].hit
      BY <1>2 DEF BusyRecords
    <3>3. on = [observer[o] EXCEPT !.phase = "raising", !.active = 0]
      BY <1>2 DEF BusyRecords
    <3> HIDE DEF going
    <3> QED
      BY <3>1, <3>2, <3>3 DEF BusyRecords
  <2>2. observer' = [observer EXCEPT ![o] = IF observer[o].hit = "none" THEN AtRest ELSE on]
    BY <2>1 DEF ReturnFound
  <2>3. AtRest.phase = "rest"
    BY DEF AtRest
  <2>4. observer[o].hit \in AlarmKinds \cup {"none"}
    BY <1>2 DEF BusyRecords
  <2> HIDE DEF on, going
  <2>5. /\ r = IF observer[o].hit = "none" THEN AtRest ELSE on
        /\ \A p \in Observers : p # o => observer'[p] = observer[p]
        /\ observer' = [observer EXCEPT ![o] = r]
    BY <1>1, <2>2 DEF KpiTypeOK
  <2> QED
    BY <2>1, <2>3, <2>4, <2>5
<1> HIDE DEF a, s, t, r, new
<1>6. /\ alarms' \in Seq(AlarmRecords) /\ DOMAIN alarms' = DOMAIN alarms /\ Len(alarms') = Len(alarms)
      /\ alarms'[a] = new /\ \A i \in DOMAIN alarms : i # a => alarms'[i] = alarms[i]
  BY <1>1, <1>2, <1>3, <1>4, KpiFacts
<1>7. \A i \in DOMAIN alarms : alarms'[i].tag = alarms[i].tag /\ alarms'[i].started = alarms[i].started
  BY <1>2, <1>4, <1>6
<1>8. \A u : StandsOf(u)' = StandsOf(u) \ {a}
  BY <1>3, <1>4, <1>6, <1>7 DEF StandsOf, Standing
<1>9. KpiTypeOK'
  <2>1. observer' \in [Observers -> {AtRest} \cup BusyRecords(Len(alarms))]
    BY <1>1, <1>5 DEF KpiTypeOK, BusyRecords
  <2> QED
    BY <1>1, <1>6, <2>1 DEF KpiTypeOK, BusyRecords, AlarmRecords, AtRest, Standing
<1>10. ASSUME NEW p \in Observers PROVE CallOK(p)'
  <2>1. CASE p # o
    BY <1>1, <1>5, <1>6, <1>7, <2>1 DEF KpiInv, CallOK
  <2>2. CASE p = o
    BY <1>5, <2>2 DEF CallOK, r
  <2> QED
    BY <2>1, <2>2
<1>11. ASSUME NEW u \in AlarmTags \ setBack' PROVE ClearedAfterStart(u)'
  <2>1. ASSUME NEW i \in DOMAIN alarms', alarms'[i].tag = u
        PROVE  alarms'[i].started <= alarms'[i].cleared
    <3>1. CASE i = a
      BY <1>1, <1>2, <1>4, <1>6, <1>7, <2>1, <3>1 DEF t, a, s
    <3>2. CASE i # a
      BY <1>1, <1>6, <2>1, <3>2 DEF KpiInv, ClearedAfterStart
    <3> QED
      BY <3>1, <3>2
  <2> QED
    BY <2>1 DEF ClearedAfterStart
<1>12. ASSUME NEW u \in AlarmTags \ shared' PROVE OneAtATime(u)'
  <2>1. OneAtATime(u)
    BY <1>1 DEF KpiInv
  <2>2. t = u => StandsOf(u)' = {}
    BY <1>1, <1>8, <2>1 DEF OneAtATime, t, a
  <2>3. \A p \in Observers : Observing(p)' /\ observer'[p].tag = u =>
                               Observing(p) /\ observer[p].tag = u
    BY <1>1, <1>5 DEF Observing, r, t
  <2>4. ASSUME NEW p \in Observers, observer'[p].tag = u
        PROVE  /\ observer'[p].phase = "raising" => StandsOf(u)' = {}
               /\ observer'[p].phase = "returning" => StandsOf(u)' \subseteq {observer'[p].active}
    <3>1. CASE p = o
      BY <1>5, <2>2, <2>4, <3>1 DEF r
    <3>2. CASE p # o
      BY <1>5, <1>8, <2>1, <2>4, <3>2 DEF OneAtATime
    <3> QED
      BY <3>1, <3>2
  <2> QED
    BY <1>8, <2>1, <2>3, <2>4 DEF OneAtATime
<1> QED
  BY <1>9, <1>10, <1>11, <1>12 DEF KpiInv

LEMMA RaiseSteps ==
    ASSUME KpiInv, NEW o \in Observers, RaiseAlarm(o)
    PROVE  KpiInv'
<1>1. KpiTypeOK /\ CallOK(o) /\ observer[o].phase = "raising" /\ setBack' = setBack /\ shared' = shared
  BY DEF KpiInv, RaiseAlarm
<1> DEFINE t == observer[o].tag
           new == [tag |-> t, kind |-> observer[o].hit, started |-> observer[o].time,
                   cleared |-> Standing]
           n == Len(alarms) + 1
<1>2. t \in AlarmTags /\ observer[o].hit \in AlarmKinds /\ observer[o].time \in 0..MaxTime
  BY <1>1, KpiFacts DEF CallOK
<1>3. /\ new \in AlarmRecords /\ new.tag = t /\ new.cleared = Standing
      /\ new.started \in Nat /\ new.started <= Standing
      /\ alarms' = Append(alarms, new)
  BY <1>1, <1>2, KpiFacts DEF AlarmRecords, RaiseAlarm
<1>4. /\ observer' = [observer EXCEPT ![o] = AtRest] /\ observer'[o] = AtRest /\ AtRest.phase = "rest"
      /\ \A p \in Observers : p # o => observer'[p] = observer[p]
  BY <1>1 DEF RaiseAlarm, KpiTypeOK, AtRest
<1> HIDE DEF t, new
<1>5. /\ alarms' \in Seq(AlarmRecords) /\ DOMAIN alarms' = DOMAIN alarms \cup {n}
      /\ n \notin DOMAIN alarms /\ Len(alarms') = Len(alarms) + 1 /\ Len(alarms) \in Nat
      /\ alarms'[n] = new /\ \A i \in DOMAIN alarms : alarms'[i] = alarms[i]
  BY <1>1, <1>3, KpiFacts
<1> HIDE DEF n
<1>6. \A u : u # t => StandsOf(u)' = StandsOf(u)
  BY <1>3, <1>5 DEF StandsOf, Standing
<1>7. \A u : StandsOf(u)' \subseteq StandsOf(u) \cup {n}
  BY <1>5 DEF StandsOf, Standing
<1>8. KpiTypeOK'
  <2>1. observer' \in [Observers -> {AtRest} \cup BusyRecords(Len(alarms'))]
    BY <1>1, <1>4, <1>5 DEF KpiTypeOK, BusyRecords
  <2> QED
    BY <1>1, <1>5, <2>1 DEF KpiTypeOK, BusyRecords, AlarmRecords, AtRest, Standing
<1>9. ASSUME NEW p \in Observers PROVE CallOK(p)'
  BY <1>1, <1>4, <1>5 DEF KpiInv, CallOK
<1>10. ASSUME NEW u \in AlarmTags \ setBack' PROVE ClearedAfterStart(u)'
  BY <1>1, <1>3, <1>5 DEF KpiInv, ClearedAfterStart
<1>11. ASSUME NEW u \in AlarmTags \ shared' PROVE OneAtATime(u)'
  <2>1. OneAtATime(u)
    BY <1>1 DEF KpiInv
  <2>2. \A p \in Observers : observer'[p].phase # "rest" => p # o /\ observer'[p] = observer[p]
    BY <1>4
  <2>3. CASE u # t
    BY <1>6, <2>1, <2>2, <2>3 DEF OneAtATime, Observing
  <2>4. CASE u = t
    <3>1. StandsOf(u) = {} /\ StandsOf(u)' \subseteq {n}
      BY <1>1, <1>7, <2>1, <2>4 DEF OneAtATime, t
    <3>2. \A p \in Observers : observer'[p].phase # "rest" => observer'[p].tag # u
      BY <1>1, <2>1, <2>2, <2>4 DEF OneAtATime, Observing, t
    <3> QED
      BY <3>1, <3>2 DEF OneAtATime, Observing
  <2> QED
    BY <2>3, <2>4
<1> QED
  BY <1>8, <1>9, <1>10, <1>11 DEF KpiInv

LEMMA FailSteps ==
    ASSUME KpiInv, NEW o \in Observers, FailObserve(o)
    PROVE  KpiInv'
<1>1. KpiTypeOK /\ UNCHANGED <<alarms, setBack, shared>>
  BY DEF KpiInv, FailObserve
<1>2. /\ observer' = [observer EXCEPT ![o] = AtRest] /\ observer'[o] = AtRest /\ AtRest.phase = "rest"
      /\ \A p \in Observers : p # o => observer'[p] = observer[p]
  BY <1>1 DEF FailObserve, KpiTypeOK, AtRest
<1>3. KpiTypeOK'
  <2>1. observer' \in [Observers -> {AtRest} \cup BusyRecords(Len(alarms))]
    BY <1>1, <1>2 DEF KpiTypeOK, BusyRecords
  <2> QED
    BY <1>1, <2>1 DEF KpiTypeOK, BusyRecords, AtRest, Standing
<1>4. \A p \in Observers : observer'[p].phase # "rest" => observer'[p] = observer[p]
  BY <1>2
<1>5. \A u : StandsOf(u)' = StandsOf(u)
  BY <1>1 DEF StandsOf, Standing
<1>6. \A p \in Observers : CallOK(p)'
  BY <1>1, <1>4 DEF KpiInv, CallOK
<1>7. \A u \in AlarmTags \ setBack' : ClearedAfterStart(u)'
  BY <1>1 DEF KpiInv, ClearedAfterStart
<1>8. ASSUME NEW u \in AlarmTags \ shared' PROVE OneAtATime(u)'
  <2>1. OneAtATime(u)
    BY <1>1 DEF KpiInv
  <2> QED
    BY <1>4, <1>5, <2>1 DEF OneAtATime, Observing
<1> QED
  BY <1>3, <1>6, <1>7, <1>8 DEF KpiInv

LEMMA KpiSteps == KpiInv /\ [KpiNext]_kpiVars => KpiInv'
<1> SUFFICES ASSUME KpiInv, [KpiNext]_kpiVars PROVE KpiInv'
  OBVIOUS
<1>1. CASE UNCHANGED kpiVars
  BY <1>1 DEF kpiVars, KpiInv, KpiTypeOK, CallOK, ClearedAfterStart, OneAtATime, Observing, StandsOf,
              Standing, AtRest
<1>2. CASE KpiNext
  BY <1>2, FindSteps, ReturnSteps, RaiseSteps, FailSteps DEF KpiNext
<1> QED
  BY <1>1, <1>2

----
(* Arithmetic of slots. *)

LEMMA LeastNumber ==
    ASSUME NEW T, T \subseteq Nat, T # {}
    PROVE  \E x \in T : \A y \in T : x <= y
<1> DEFINE R == OpToRel(<, Nat)
<1>1. IsWellFoundedOn(R, Nat)
  BY NatLessThanWellFounded
<1> HIDE DEF R
<1>2. \E x \in T : \A y \in T : ~(<<y, x>> \in R)
  BY <1>1, WFMin
<1>3. ASSUME NEW x \in Nat, NEW y \in Nat, ~(<<y, x>> \in R)
      PROVE  x <= y
  BY <1>3 DEF R, OpToRel
<1> QED
  BY <1>2, <1>3

LEMMA Quotient ==
    ASSUME NEW a \in Nat, NEW d \in Nat \ {0}
    PROVE  /\ a \div d \in Nat
           /\ d * (a \div d) <= a /\ a < d * (a \div d) + d
OBVIOUS

LEMMA ProductOrder ==
    ASSUME NEW d \in Nat \ {0}, NEW x \in Int, NEW y \in Int, d * x < d * y + d
    PROVE  x <= y
OBVIOUS

LEMMA QuotientOrder ==
    ASSUME NEW a \in Nat, NEW b \in Nat, NEW d \in Nat \ {0}, a <= b
    PROVE  /\ a \div d <= b \div d
           /\ b < a + d => b \div d <= (a \div d) + 1
<1> DEFINE p == a \div d
           q == b \div d
<1>1. p \in Nat /\ q \in Nat /\ d * p <= a /\ a < d * p + d /\ d * q <= b /\ b < d * q + d
  BY Quotient
<1> HIDE DEF p, q
<1>2. d * p \in Nat /\ d * q \in Nat /\ d * (p + 1) = d * p + d
  BY <1>1
<1>3. p <= q
  <2>1. d * p < d * q + d
    BY <1>1, <1>2
  <2> QED
    BY <1>1, <2>1, ProductOrder
<1>4. b < a + d => q <= p + 1
  <2>1. b < a + d => d * q < d * (p + 1) + d
    BY <1>1, <1>2
  <2> QED
    BY <1>1, <2>1, ProductOrder
<1> QED
  BY <1>3, <1>4 DEF p, q

----
(* Counting. *)

LEMMA AtMostOneCounts ==
    ASSUME NEW S, \A a, b \in S : a = b
    PROVE  IsFiniteSet(S) /\ Cardinality(S) <= 1
<1>1. CASE S = {}
  BY <1>1, FS_EmptySet
<1>2. ASSUME NEW a \in S PROVE IsFiniteSet(S) /\ Cardinality(S) <= 1
  <2>1. S = {a}
    OBVIOUS
  <2>2. IsFiniteSet({a}) /\ Cardinality({a}) = 1
    BY FS_Singleton
  <2> QED
    BY <2>1, <2>2
<1> QED
  BY <1>1, <1>2

LEMMA AlarmsAreFinite ==
    ASSUME KpiInv
    PROVE  /\ IsFiniteSet(DOMAIN alarms) /\ Cardinality(DOMAIN alarms) = Len(alarms)
           /\ \A S : S \subseteq DOMAIN alarms =>
                IsFiniteSet(S) /\ Cardinality(S) \in Nat /\ Cardinality(S) <= Len(alarms)
<1>1. DOMAIN alarms = 1..Len(alarms) /\ Len(alarms) \in Nat
  BY KpiFacts DEF KpiInv
<1>2. IsFiniteSet(DOMAIN alarms) /\ Cardinality(DOMAIN alarms) = Len(alarms)
  <2>1. IsFiniteSet(1..Len(alarms)) /\ Cardinality(1..Len(alarms)) =
                                        IF 1 > Len(alarms) THEN 0 ELSE Len(alarms) - 1 + 1
    BY <1>1, FS_Interval
  <2> QED
    BY <1>1, <2>1
<1> QED
  BY <1>2, FS_Subset, FS_CardinalityType

LEMMA StartsInWindow ==
    ASSUME KpiInv, NEW e \in 0..MaxTime
    PROVE  /\ e \in Nat /\ WindowStart(e) = e - Hours /\ WindowStart(e) \in Int /\ WindowStart(e) <= e
           /\ Starts(e) \subseteq DOMAIN alarms /\ InWindow(e) \subseteq DOMAIN alarms
           /\ \A i \in Starts(e) : /\ alarms[i].started \in Nat /\ alarms[i].started <= e
                                   /\ alarms[i].started - WindowStart(e) \in 0..Hours
<1>1. e \in Nat /\ WindowStart(e) = e - Hours /\ Hours \in Nat
  BY AlarmKpisAssumption DEF WindowStart
<1>2. Starts(e) \subseteq DOMAIN alarms /\ InWindow(e) \subseteq DOMAIN alarms
  BY DEF Starts, InWindow
<1>3. \A i \in DOMAIN alarms : alarms[i].started \in Nat
  BY KpiFacts DEF KpiInv
<1>4. \A i \in Starts(e) : /\ alarms[i].started \in Nat /\ alarms[i].started <= e
                           /\ alarms[i].started >= WindowStart(e)
  BY <1>2, <1>3 DEF Starts
<1> QED
  BY <1>1, <1>2, <1>4

LEMMA PeakIsThePeak ==
    ASSUME KpiInv, NEW e \in 0..MaxTime
    PROVE  /\ \E k \in Slots : PeakPer10Min(e) = InSlot(k, e)
           /\ \A k \in Slots : InSlot(k, e) <= PeakPer10Min(e)
           /\ \A k \in Slots : InSlot(k, e) \in Nat
<1>1. \A k \in Slots : InSlot(k, e) \in Nat /\ InSlot(k, e) <= Len(alarms)
  <2>1. \A k : {i \in Starts(e) : Bucket(i, e) = k} \subseteq DOMAIN alarms
    BY StartsInWindow
  <2> QED
    BY <2>1, AlarmsAreFinite DEF InSlot
<1>2. 0 \in Slots
  BY AlarmKpisAssumption, Quotient DEF Slots
<1>3. Len(alarms) \in Nat
  BY KpiFacts DEF KpiInv
<1> DEFINE T == {Len(alarms) - InSlot(k, e) : k \in Slots}
<1>4. T \subseteq Nat /\ T # {}
  BY <1>1, <1>2, <1>3
<1>5. PICK x \in T : \A y \in T : x <= y
  BY <1>4, LeastNumber
<1>6. PICK m \in Slots : x = Len(alarms) - InSlot(m, e)
  BY <1>5
<1>7. \A k \in Slots : InSlot(k, e) <= InSlot(m, e)
  <2>1. SUFFICES ASSUME NEW k \in Slots PROVE InSlot(k, e) <= InSlot(m, e)
    OBVIOUS
  <2>2. x <= Len(alarms) - InSlot(k, e)
    BY <1>5
  <2> QED
    BY <1>1, <1>3, <1>6, <2>2
<1>8. \E n \in {InSlot(k, e) : k \in Slots} : \A k \in Slots : InSlot(k, e) <= n
  BY <1>6, <1>7
<1>9. /\ PeakPer10Min(e) \in {InSlot(k, e) : k \in Slots}
      /\ \A k \in Slots : InSlot(k, e) <= PeakPer10Min(e)
  BY <1>8 DEF PeakPer10Min
<1> QED
  BY <1>1, <1>9

\* The alarms of a slot started within the ten minutes from its begin on.
LEMMA SlotIsTenMinutes ==
    ASSUME KpiInv, NEW e \in 0..MaxTime, NEW k \in Slots
    PROVE  \E m \in WindowStart(e)..e : Cardinality(InTenMinutes(m, e)) >= InSlot(k, e)
<1> DEFINE m == WindowStart(e) + Slot * k
           S == {i \in Starts(e) : Bucket(i, e) = k}
<1>1. k \in Nat /\ k <= Hours \div Slot /\ Slot * (Hours \div Slot) <= Hours /\ Hours \div Slot \in Nat
  BY AlarmKpisAssumption, Quotient DEF Slots
<1>2. Slot * k \in Nat /\ Slot * k <= Hours
  <2>1. Slot * k <= Slot * (Hours \div Slot)
    BY <1>1, AlarmKpisAssumption
  <2> QED
    BY <1>1, <2>1, AlarmKpisAssumption
<1>3. m \in WindowStart(e)..e
  BY <1>2, StartsInWindow, AlarmKpisAssumption
<1>4. S \subseteq InTenMinutes(m, e)
  <2>1. SUFFICES ASSUME NEW i \in Starts(e), Bucket(i, e) = k PROVE i \in InTenMinutes(m, e)
    OBVIOUS
  <2>2. /\ alarms[i].started - WindowStart(e) \in Nat /\ alarms[i].started \in Nat
        /\ alarms[i].started <= e /\ i \in DOMAIN alarms /\ WindowStart(e) \in Int
    BY <2>1, StartsInWindow
  <2>3. /\ Slot * k <= alarms[i].started - WindowStart(e)
        /\ alarms[i].started - WindowStart(e) < Slot * k + Slot
    BY <2>1, <2>2, Quotient, AlarmKpisAssumption DEF Bucket
  <2>4. alarms[i].started \in m..(m + Slot - 1)
    BY <1>2, <2>2, <2>3, AlarmKpisAssumption
  <2> QED
    BY <2>2, <2>4 DEF InTenMinutes
<1> HIDE DEF m
<1>5. Cardinality(S) <= Cardinality(InTenMinutes(m, e))
  <2>1. IsFiniteSet(InTenMinutes(m, e))
    BY AlarmsAreFinite DEF InTenMinutes
  <2> QED
    BY <1>4, <2>1, FS_Subset
<1>6. Cardinality(InTenMinutes(m, e)) >= InSlot(k, e)
  <2>1. InSlot(k, e) \in Nat
    BY PeakIsThePeak
  <2>2. Cardinality(InTenMinutes(m, e)) \in Nat
    BY AlarmsAreFinite DEF InTenMinutes
  <2> QED
    BY <1>5, <2>1, <2>2 DEF InSlot
<1> QED
  BY <1>3, <1>6

\* Alarms of ten minutes whose tags were not set back.
Unmoved(m, e) == {i \in InTenMinutes(m, e) : alarms[i].tag \notin setBack}

\* Ten minutes meet two slots at most, and no alarm that was cleared after its start drops out.
LEMMA TenMinutesInTwoSlots ==
    ASSUME KpiInv, NEW e \in 0..MaxTime, NEW m \in WindowStart(e)..e
    PROVE  \E k, l \in Slots : Cardinality(Unmoved(m, e)) <= InSlot(k, e) + InSlot(l, e)
<1> DEFINE k == (m - WindowStart(e)) \div Slot
           A == Unmoved(m, e)
           B(n) == {i \in Starts(e) : Bucket(i, e) = n}
<1>1. /\ WindowStart(e) \in Int /\ m \in Int /\ m - WindowStart(e) \in Nat
      /\ m - WindowStart(e) <= Hours /\ Hours \in Nat /\ Slot \in Nat \ {0} /\ e \in Nat
  BY StartsInWindow, AlarmKpisAssumption
<1>2. k \in Slots /\ k \in Nat
  BY <1>1, Quotient, QuotientOrder DEF Slots
<1>3. ASSUME NEW i \in A
      PROVE  i \in Starts(e) /\ Bucket(i, e) \in {k, k + 1} /\ Bucket(i, e) \in Slots
  <2>1. /\ i \in DOMAIN alarms /\ alarms[i].started \in m..(m + Slot - 1) /\ alarms[i].started <= e
        /\ alarms[i].started \in Nat /\ alarms[i].cleared \in Nat
        /\ alarms[i].tag \in AlarmTags \ setBack
    BY KpiFacts DEF KpiInv, Unmoved, InTenMinutes
  <2>2. alarms[i].started <= alarms[i].cleared
    BY <2>1 DEF KpiInv, ClearedAfterStart
  <2>3. i \in Starts(e)
    BY <1>1, <2>1, <2>2 DEF Starts, InWindow
  <2>4. alarms[i].started - WindowStart(e) \in 0..Hours
    BY <2>3, StartsInWindow
  <2>5. /\ alarms[i].started - WindowStart(e) \in Nat
        /\ m - WindowStart(e) <= alarms[i].started - WindowStart(e)
        /\ alarms[i].started - WindowStart(e) < (m - WindowStart(e)) + Slot
    BY <1>1, <2>1, <2>4
  <2>6. Bucket(i, e) \in Nat /\ k <= Bucket(i, e) /\ Bucket(i, e) <= k + 1
    BY <1>1, <2>5, Quotient, QuotientOrder DEF Bucket
  <2>7. Bucket(i, e) <= Hours \div Slot /\ Hours \div Slot \in Nat
    BY <1>1, <2>4, <2>5, Quotient, QuotientOrder DEF Bucket
  <2> QED
    BY <1>2, <2>3, <2>6, <2>7 DEF Slots
<1> HIDE DEF k, A
<1>4. \A n : IsFiniteSet(B(n)) /\ Cardinality(B(n)) \in Nat
  <2>1. \A n : B(n) \subseteq DOMAIN alarms
    BY StartsInWindow
  <2> QED
    BY <2>1, AlarmsAreFinite
<1>5. PICK l \in Slots : A \subseteq B(k) \cup B(l)
  <2>1. CASE k + 1 \in Slots
    BY <1>3, <2>1
  <2>2. CASE k + 1 \notin Slots
    BY <1>2, <1>3, <2>2
  <2> QED
    BY <2>1, <2>2
<1>6. Cardinality(A) <= Cardinality(B(k)) + Cardinality(B(l))
  <2>1. IsFiniteSet(B(k)) /\ IsFiniteSet(B(l))
    BY <1>4
  <2>2. /\ IsFiniteSet(B(k) \cup B(l))
        /\ Cardinality(B(k) \cup B(l)) =
             Cardinality(B(k)) + Cardinality(B(l)) - Cardinality(B(k) \cap B(l))
    BY <2>1, FS_Union
  <2>3. Cardinality(A) <= Cardinality(B(k) \cup B(l))
    BY <1>5, <2>2, FS_Subset
  <2>4. Cardinality(B(k) \cap B(l)) \in Nat
    BY <2>1, FS_Intersection, FS_CardinalityType
  <2>5. A \subseteq DOMAIN alarms
    BY DEF A, Unmoved, InTenMinutes
  <2>6. Cardinality(A) \in Nat /\ Cardinality(B(k)) \in Nat /\ Cardinality(B(l)) \in Nat
    BY <1>4, <2>5, AlarmsAreFinite
  <2> QED
    BY <2>2, <2>3, <2>4, <2>6
<1>7. Cardinality(Unmoved(m, e)) <= InSlot(k, e) + InSlot(l, e)
  BY <1>6 DEF A, InSlot
<1> QED
  BY <1>2, <1>5, <1>7

LEMMA FloodsAgree ==
    ASSUME KpiInv, NEW e \in 0..MaxTime
    PROVE  /\ Flood(e) => \E m \in WindowStart(e)..e : Cardinality(InTenMinutes(m, e)) >= FloodPer10Min
           /\ (\E m \in WindowStart(e)..e : Cardinality(Unmoved(m, e)) >= 2 * FloodPer10Min - 1)
                => Flood(e)
<1>0. \A m : Cardinality(InTenMinutes(m, e)) \in Nat /\ Cardinality(Unmoved(m, e)) \in Nat
  <2>1. \A m : InTenMinutes(m, e) \subseteq DOMAIN alarms /\ Unmoved(m, e) \subseteq DOMAIN alarms
    BY DEF InTenMinutes, Unmoved
  <2> QED
    BY <2>1, AlarmsAreFinite
<1>1. ASSUME Flood(e)
      PROVE  \E m \in WindowStart(e)..e : Cardinality(InTenMinutes(m, e)) >= FloodPer10Min
  <2>1. PICK k \in Slots : PeakPer10Min(e) = InSlot(k, e) /\ InSlot(k, e) \in Nat
    BY PeakIsThePeak
  <2>2. PICK m \in WindowStart(e)..e : Cardinality(InTenMinutes(m, e)) >= InSlot(k, e)
    BY SlotIsTenMinutes
  <2>3. Cardinality(InTenMinutes(m, e)) >= FloodPer10Min
    BY <1>0, <1>1, <2>1, <2>2, AlarmKpisAssumption DEF Flood
  <2> QED
    BY <2>3
<1>2. ASSUME NEW m \in WindowStart(e)..e, Cardinality(Unmoved(m, e)) >= 2 * FloodPer10Min - 1
      PROVE  Flood(e)
  <2>1. PICK k \in Slots : \E l \in Slots : Cardinality(Unmoved(m, e)) <= InSlot(k, e) + InSlot(l, e)
    BY TenMinutesInTwoSlots
  <2>2. PICK l \in Slots : Cardinality(Unmoved(m, e)) <= InSlot(k, e) + InSlot(l, e)
    BY <2>1
  <2>3. /\ InSlot(k, e) \in Nat /\ InSlot(l, e) \in Nat /\ PeakPer10Min(e) \in Nat
        /\ InSlot(k, e) <= PeakPer10Min(e) /\ InSlot(l, e) <= PeakPer10Min(e)
    BY PeakIsThePeak
  <2> QED
    BY <1>0, <1>2, <2>2, <2>3, AlarmKpisAssumption DEF Flood
<1> QED
  BY <1>1, <1>2

\* Of the starts of a tag that one call at a time observed at most one has not been cleared.
LEMMA ChatterAgrees ==
    ASSUME KpiInv, NEW e \in 0..MaxTime, NEW t \in ChatteringTags(e) \ shared
    PROVE  Cardinality({i \in InWindow(e) : alarms[i].tag = t /\ alarms[i].cleared # Standing})
             >= ChatterChanges - 1
<1> DEFINE S == {i \in Starts(e) : alarms[i].tag = t}
           C == {i \in InWindow(e) : alarms[i].tag = t /\ alarms[i].cleared # Standing}
           X == StandsOf(t)
<1>1. t \in AlarmTags /\ Cardinality(S) >= ChatterChanges
  BY DEF ChatteringTags
<1>2. S \subseteq C \cup X
  BY DEF Starts, InWindow, StandsOf
<1>3. IsFiniteSet(X) /\ Cardinality(X) <= 1
  BY <1>1, AtMostOneCounts DEF KpiInv, OneAtATime
<1>4. IsFiniteSet(C) /\ Cardinality(C) \in Nat /\ Cardinality(S) \in Nat /\ Cardinality(X) \in Nat
  <2>1. C \subseteq DOMAIN alarms /\ S \subseteq DOMAIN alarms /\ X \subseteq DOMAIN alarms
    BY DEF StandsOf, Starts, InWindow
  <2> QED
    BY <2>1, AlarmsAreFinite
<1> HIDE DEF S, C, X
<1>5. /\ IsFiniteSet(C \cup X)
      /\ Cardinality(C \cup X) = Cardinality(C) + Cardinality(X) - Cardinality(C \cap X)
  BY <1>3, <1>4, FS_Union
<1>6. Cardinality(C \cap X) \in Nat
  BY <1>3, <1>4, FS_Intersection, FS_CardinalityType
<1>7. Cardinality(S) <= Cardinality(C \cup X)
  BY <1>2, <1>5, FS_Subset
<1>8. Cardinality(C) >= ChatterChanges - 1
  BY <1>1, <1>3, <1>4, <1>5, <1>6, <1>7, AlarmKpisAssumption
<1> QED
  BY <1>8 DEF C

\* Each tag that stands has an alarm among those that count as standing, and only one if one call
\* at a time observed it.
LEMMA StandingAgrees ==
    ASSUME KpiInv, NEW e \in 0..MaxTime
    PROVE  /\ Cardinality(Up(e)) <= StandingCount(e)
           /\ Up(e) \cap shared = {} => StandingCount(e) = Cardinality(Up(e))
<1> DEFINE I == {i \in InWindow(e) : alarms[i].cleared = Standing}
           T == Up(e)
           f == [i \in I |-> alarms[i].tag]
<1>1. /\ I \subseteq DOMAIN alarms
      /\ \A i \in I : alarms[i].cleared = Standing /\ alarms[i].tag \in T
                      /\ i \in StandsOf(alarms[i].tag) /\ alarms[i].tag \in AlarmTags
      /\ \A t \in T : \E i \in I : alarms[i].tag = t
  BY KpiFacts DEF KpiInv, InWindow, Up, StandsOf
<1>2. IsFiniteSet(I)
  BY <1>1, AlarmsAreFinite
<1>3. f \in Surjection(I, T)
  <2>1. f \in [I -> T]
    BY <1>1
  <2>2. \A t \in T : \E i \in I : f[i] = t
    BY <1>1
  <2> HIDE DEF f, I, T
  <2> QED
    BY <2>1, <2>2, Fun_IsSurj
<1>4. ASSUME T \cap shared = {} PROVE f \in Injection(I, T)
  <2>1. ASSUME NEW a \in I, NEW b \in I, f[a] = f[b] PROVE a = b
    <3>1. /\ a \in StandsOf(alarms[a].tag) /\ b \in StandsOf(alarms[a].tag)
          /\ alarms[a].tag \in AlarmTags \ shared
      BY <1>1, <1>4, <2>1
    <3>2. OneAtATime(alarms[a].tag)
      BY <3>1 DEF KpiInv
    <3> QED
      BY <3>1, <3>2 DEF OneAtATime
  <2>2. f \in [I -> T]
    BY <1>1
  <2> HIDE DEF f, I, T
  <2> QED
    BY <2>1, <2>2, Fun_IsInj
<1> HIDE DEF f, I, T
<1>5. IsFiniteSet(T) /\ Cardinality(T) <= Cardinality(I)
  BY <1>2, <1>3, FS_Surjection
<1>6. T \cap shared = {} => Cardinality(I) = Cardinality(T)
  BY <1>2, <1>3, <1>4, FS_Surjection
<1> QED
  BY <1>5, <1>6 DEF StandingCount, I, T

\* computeIsa182 (isa-18-2.ts) on what observeReading (alarm.service.ts) leaves, whenever it is asked,
\* for any number of overlapping and failing calls, any times of their readings and any length of slots
\* and window: a flood is shown only if some ten minutes had that many alarms, and certainly if some
\* had twice as many less one of tags that were not set back; a tag that chatters was cleared in
\* between, unless two calls observed it at once; a standing tag is counted, and then once.
THEOREM FiguresAgree == KpiSpec => []KpisAgree
<1>1. KpiInit => KpiInv
  BY KpiStarts
<1>2. KpiInv /\ [KpiNext]_kpiVars => KpiInv'
  BY KpiSteps
<1>3. KpiInv => KpisAgree
  BY FloodsAgree, ChatterAgrees, StandingAgrees DEF KpisAgree, Unmoved
<1> QED
  BY <1>1, <1>2, <1>3, PTL DEF KpiSpec

\* AlarmService: the state keeps its shape; a call names an alarm there is, or none.
THEOREM KpiTyped == KpiSpec => []KpiTypeOK
<1>1. KpiInit => KpiInv
  BY KpiStarts
<1>2. KpiInv /\ [KpiNext]_kpiVars => KpiInv'
  BY KpiSteps
<1>3. KpiInv => KpiTypeOK
  BY DEF KpiInv
<1> QED
  BY <1>1, <1>2, <1>3, PTL DEF KpiSpec
====

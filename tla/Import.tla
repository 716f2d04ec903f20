---- MODULE Import ----
(***************************************************************************)
(* Readings on their way into the table: CSV files that users upload and    *)
(* single MQTT messages.  parseCsvReadings looks at all rows of a file      *)
(* before the first one is stored; importCsv then takes one row after the   *)
(* other, each with several awaits, and records the import at its end.      *)
(* Several files and messages are under way at once.  What the alarms and   *)
(* the meters make of a reading is in module Telemetry.                     *)
(***************************************************************************)
EXTENDS Naturals, Sequences, SequencesExt

CONSTANTS
    Tags,       \* the tags of the tenant
    Times,      \* times of readings, from 1
    Values,     \* what they may read, from 1
    Files,      \* the files users may have, each a sequence of rows
    Uploads,    \* names of CSV uploads
    Messages    \* names of MQTT messages

ASSUME ImportAssumption == /\ Times \cup Values \subseteq Nat \ {0} /\ "" \notin Tags
                           /\ Uploads \cap Messages = {}

VARIABLES
    reading,   \* the table: at most one value for a time and a tag
    job,       \* uploads and messages: rows, the next one, and what happens to it
    sent,      \* what was broadcast to the tenant's room, in order
    entries,   \* audit entries of imports
    raced      \* history: keys stored while another value of theirs was not yet broadcast

importVars == <<reading, job, sent, entries, raced>>

Missing == 0

BadTime == 0

\* A row that csvReadingRowSchema refuses.
BadRow == [tag |-> "", time |-> BadTime, value |-> Missing]

\* A row has a tag, a time and a number, unless the schema refuses it.
IsRow(row) == /\ row = [tag |-> row.tag, time |-> row.time, value |-> row.value]
              /\ row = BadRow \/ row.value \in Values

ASSUME FilesAssumption ==
    \A file \in Files : file \in Seq(Range(file)) /\ \A row \in Range(file) : IsRow(row)

Keys == Tags \X Times

Key(row) == <<row.tag, row.time>>

NoJob == [rows |-> <<>>, next |-> 1, phase |-> "idle"]

ImportInit ==
    /\ reading = [k \in Keys |-> Missing]
    /\ job = [j \in Uploads \cup Messages |-> NoJob]
    /\ sent = <<>> /\ entries = <<>> /\ raced = {}

----
\* parseCsvReadings: a header, at least one row, and every row must be one.
Parses(file) == file # <<>> /\ BadRow \notin Range(file)

\* parseMqttIngest: one reading.
ParsesMessage(file) == Len(file) = 1 /\ BadRow \notin Range(file)

\* POST telemetry/csv-import up to the first row.
Upload(j) ==
    /\ j \in Uploads /\ job[j].phase = "idle"
    /\ \E file \in Files :
         job' = [job EXCEPT ![j] = [rows |-> file, next |-> 1,
                                    phase |-> IF Parses(file) THEN "row" ELSE "failed"]]
    /\ UNCHANGED <<reading, sent, entries, raced>>

\* onMessage: the broker's message names a tag and holds one reading.
Message(j) ==
    /\ j \in Messages /\ job[j].phase = "idle"
    /\ \E file \in Files :
         /\ ParsesMessage(file)
         /\ job' = [job EXCEPT ![j] = [rows |-> file, next |-> 1, phase |-> "row"]]
    /\ UNCHANGED <<reading, sent, entries, raced>>

Row(j) == job[j].rows[job[j].next]

\* The tag is looked up, the time parsed, the reading inserted or overwritten.
Store(j) ==
    /\ job[j].phase = "row" /\ Key(Row(j)) \in Keys
    /\ reading' = [reading EXCEPT ![Key(Row(j))] = Row(j).value]
    /\ raced' = raced \cup {k \in {Key(Row(j))} : \E o \in DOMAIN job :
                               job[o].phase = "stored" /\ Key(Row(o)) = k}
    /\ job' = [job EXCEPT ![j].phase = "stored"]
    /\ UNCHANGED <<sent, entries>>

\* The job after a row: the next row, or the end.
Advanced(j) ==
    IF job[j].next < Len(job[j].rows) THEN [job[j] EXCEPT !.next = @ + 1, !.phase = "row"]
    ELSE [job[j] EXCEPT !.phase = IF j \in Uploads THEN "recording" ELSE "ended"]

\* The reading goes to the room; alarms and meters see it; the row counts.
Broadcast(j) ==
    /\ job[j].phase = "stored"
    /\ sent' = Append(sent, Row(j))
    /\ job' = [job EXCEPT ![j] = Advanced(j)]
    /\ UNCHANGED <<reading, entries, raced>>

\* Variant with a defect: the loop of ingestMany, which goes on after a bad row.
SkipRow(j) ==
    /\ job[j].phase = "row"
    /\ job' = [job EXCEPT ![j] = Advanced(j)]
    /\ UNCHANGED <<reading, sent, entries, raced>>

\* No such tag, a time that is none, or a failed call (the observers of the row
\* before and the audit entry included): the import ends with an error, the message
\* is ignored.  What is stored remains.
StopAtRow(j) ==
    /\ job[j].phase \in {"row", "recording"}
    /\ job' = [job EXCEPT ![j].phase = "failed"]
    /\ UNCHANGED <<reading, sent, entries, raced>>

\* audit.record of the whole import.
RecordImport(j) ==
    /\ job[j].phase = "recording"
    /\ entries' = Append(entries, [upload |-> j, imported |-> job[j].next])
    /\ job' = [job EXCEPT ![j].phase = "ended"]
    /\ UNCHANGED <<reading, sent, raced>>

ImportNext ==
    \E j \in Uploads \cup Messages :
        \/ Upload(j) \/ Message(j) \/ Store(j) \/ Broadcast(j)
        \/ StopAtRow(j) \/ RecordImport(j)

ImportSpec == ImportInit /\ [][ImportNext]_importVars

----
ImportTypeOK ==
    /\ reading \in [Keys -> Values \cup {Missing}]
    /\ \A j \in Uploads \cup Messages :
         /\ job[j].rows \in Files \cup {<<>>}
         /\ job[j].phase \in {"idle", "row", "stored", "recording", "ended", "failed"}
         /\ job[j].next \in 1..(Len(job[j].rows) + 1)
    /\ \A i \in DOMAIN sent : Key(sent[i]) \in Keys /\ sent[i].value \in Values
    /\ raced \subseteq Keys

\* The rows of a job that may be in the table.
Reached(j) == {i \in DOMAIN job[j].rows :
                 job[j].phase \notin {"idle", "failed"} \/ i <= job[j].next}

\* An import is recorded once and only if all of its rows were stored, with their
\* number; the table holds no reading that no upload or message got to, and each
\* value in it was broadcast or is about to be.  Whatever fails on the way, and
\* with other uploads and messages in between.
ImportsAddUp ==
    /\ \A i \in DOMAIN entries :
         LET rows == job[entries[i].upload].rows
         IN  /\ \A o \in DOMAIN entries : entries[o].upload = entries[i].upload => o = i
             /\ entries[i].imported = Len(rows)
             /\ \A r \in DOMAIN rows :
                  Key(rows[r]) \in Keys /\ reading[Key(rows[r])] # Missing
    /\ \A k \in Keys : reading[k] # Missing =>
         /\ \E j \in DOMAIN job : \E i \in Reached(j) :
              job[j].rows[i] # BadRow /\ Key(job[j].rows[i]) = k
         /\ \/ \E i \in DOMAIN sent : Key(sent[i]) = k /\ sent[i].value = reading[k]
            \/ \E j \in DOMAIN job : /\ job[j].phase = "stored" /\ Key(Row(j)) = k
                                    /\ Row(j).value = reading[k]
====

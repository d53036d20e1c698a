------------------------------- MODULE Backint -------------------------------
(***************************************************************************)
(* backint: SAP HANA runs the command once for a function (BACKUP,         *)
(* RESTORE, INQUIRE or DELETE), gives it lines of requests and reads one   *)
(* answer for each.  Commands run one after another over the same bucket   *)
(* (internal/backint, internal/onetime/backint).                           *)
(*                                                                         *)
(* The reader takes the lines in order and hands tasks to a worker pool;   *)
(* a file of a backup with parallel streams becomes one task per chunk,    *)
(* and the last chunk to finish composes the object.  Workers write the    *)
(* answers under a mutex.                                                  *)
(*                                                                         *)
(* An object is named by file, external backup ID (here the number of the  *)
(* backup command that made it) and part: 0 is the object itself (.bak),   *)
(* i a chunk (.bak<i>).  Listing a prefix returns the latest object first. *)
(***************************************************************************)
EXTENDS Naturals, Sequences, FiniteSets, Subsequences

CONSTANTS
    None,
    Streams,        \* parallel_streams of the configuration
    Threads,        \* threads, the size of the worker pool
    Inputs,         \* the sets of inputs HANA may give to the 1st, 2nd...
                    \* command: [fn, lines]
    MaxLines        \* bound on the number of lines of an input

ASSUME ParametersAssumption ==
    /\ Streams \in Nat \ {0} /\ Threads \in Nat \ {0} /\ MaxLines \in Nat
    /\ Len(Inputs) \in Nat /\ DOMAIN Inputs = 1..Len(Inputs)
    /\ \A i \in DOMAIN Inputs : \A in \in Inputs[i] :
         /\ in.fn \in {"BACKUP", "RESTORE", "INQUIRE", "DELETE"}
         /\ Len(in.lines) \in 0..MaxLines
         /\ \A l \in DOMAIN in.lines :
              in.lines[l].op \in IF in.fn = "BACKUP" THEN {"FILE", "PIPE", "malformed"}
                                ELSE {"NULL", "EBID", "malformed"}

Tasks == [line : 1..MaxLines, part : 0..Streams]

ASSUME NoneAssumption == None \notin Tasks

VARIABLES
    shared,     \* whether the parameter file sets metadata: the map is then one
                \* for all uploads
    n,          \* the number of commands so far
    exit,       \* "running", "failing" (the reader returned an error), "failed"
                \* (and the output is closed), "ok" or "ended"
    cmd,        \* the input of the command
    next,       \* the index of the next line
    stage,      \* where each task is
    result,     \* what the task is going to answer
    mu,         \* the task that holds the mutex, or None
    done,       \* [line -> chunks completed]
    chunkError, \* the lines with a failed chunk
    metaType,   \* X-Backup-Type in the shared map
    bucket,     \* the sequence of objects in order of creation
    answers,    \* [line -> sequence of answers]
    saved,      \* history: <<file, id>> answered #SAVED and not deleted since
    tainted     \* history: files with an upload that was not answered #SAVED, or
                \* with a chunk that could not be deleted

reader == <<shared, n, exit, cmd, next>>
chunks == <<done, chunkError>>
hist   == <<saved, tainted>>
vars   == <<shared, n, exit, cmd, next, stage, result, mu, done, chunkError,
            metaType, bucket, answers, saved, tainted>>

Alive == exit \in {"running", "failing", "failed"}
NumLines == Len(cmd.lines)
Line(t) == cmd.lines[t.line]
AtWork(t) == stage[t] \notin {"none", "queued", "finished"}

Init ==
    /\ shared \in BOOLEAN
    /\ n = 0 /\ exit = "ok" /\ next = 1
    /\ cmd = [fn |-> "INQUIRE", lines |-> <<>>]
    /\ stage = [t \in Tasks |-> "none"]
    /\ result = [t \in Tasks |-> None]
    /\ mu = None
    /\ done = [l \in 1..MaxLines |-> 0] /\ chunkError = {}
    /\ metaType = None /\ bucket = <<>>
    /\ answers = [l \in 1..MaxLines |-> <<>>]
    /\ saved = {} /\ tainted = {}

(* Execute, backintHandler, runBackint: the configuration is valid, the bucket
   answers, both files are open.  A command that cannot get so far changes
   nothing. *)
Begin ==
    /\ exit \in {"ok", "ended"}
    /\ n < Len(Inputs)
    /\ n' = n + 1 /\ exit' = "running"
    /\ cmd' \in Inputs[n + 1]
    /\ answers' = [l \in 1..MaxLines |-> <<>>]
    /\ UNCHANGED <<shared, next, stage, result, mu, chunks, metaType, bucket, hist>>

(* Nothing is left of a process. *)
ClearProcess ==
    /\ next' = 1
    /\ stage' = [t \in Tasks |-> "none"]
    /\ result' = [t \in Tasks |-> None]
    /\ mu' = None
    /\ done' = [l \in 1..MaxLines |-> 0] /\ chunkError' = {}
    /\ metaType' = None

------------------------------------------------------------------------------
(* The reader. *)

(* A write to the output, which is closed when the function has returned. *)
Answer(l, a) ==
    answers' = IF exit = "failed" THEN answers ELSE [answers EXCEPT ![l] = Append(@, a)]

(* Log backups are restored by the reader itself. *)
Serial(l) == cmd.fn = "RESTORE" /\ cmd.lines[l].log

Submit(l, parts) ==
    stage' = [t \in Tasks |-> IF t.line = l /\ t.part \in parts THEN "queued" ELSE stage[t]]

(* Mutant: the chunks are submitted although the error was answered. *)
SubmitChunksAnyway(l) ==
    /\ Submit(l, 1..Streams)
    /\ \/ UNCHANGED <<answers, tainted>>
       \/ /\ mu = None
          /\ Answer(l, [verdict |-> "ERROR"])
          /\ tainted' = tainted \cup {cmd.lines[l].file}

(* backupFileParallel: the chunks are submitted unless the file cannot be opened,
   sized or read; then the reader answers. *)
SubmitChunks(l) ==
    \/ /\ Submit(l, 1..Streams)
       /\ UNCHANGED <<answers, tainted>>
    \/ /\ mu = None
       /\ Answer(l, [verdict |-> "ERROR"])
       /\ tainted' = tainted \cup {cmd.lines[l].file}
       /\ UNCHANGED stage

(* A line that has too few parameters: the reader returns an error. *)
Malformed ==
    /\ cmd.lines[next].op = "malformed"
    /\ exit' = "failing"
    /\ UNCHANGED <<next, stage, answers, tainted>>

(* backup: a file of a backup with parallel streams is cut into chunks. *)
BackupLine ==
    /\ cmd.fn = "BACKUP" /\ cmd.lines[next].op \in {"FILE", "PIPE"}
    /\ IF cmd.lines[next].op = "FILE" /\ Streams > 1
         THEN SubmitChunks(next)
         ELSE Submit(next, {0}) /\ UNCHANGED <<answers, tainted>>
    /\ next' = next + 1 /\ UNCHANGED exit

(* restore: log backups are restored in the reader, others by the pool. *)
RestoreLine ==
    /\ cmd.fn = "RESTORE" /\ cmd.lines[next].op \in {"NULL", "EBID"}
    /\ IF Serial(next) THEN stage' = [stage EXCEPT ![[line |-> next, part |-> 0]] = "work"]
                       ELSE Submit(next, {0})
    /\ next' = next + 1 /\ UNCHANGED <<exit, answers, tainted>>

(* inquire. *)
InquireLine ==
    /\ cmd.fn = "INQUIRE" /\ cmd.lines[next].op \in {"NULL", "EBID"}
    /\ Submit(next, {0})
    /\ next' = next + 1 /\ UNCHANGED <<exit, answers, tainted>>

(* delete. *)
DeleteLine ==
    /\ cmd.fn = "DELETE" /\ cmd.lines[next].op = "EBID"
    /\ Submit(next, {0})
    /\ next' = next + 1 /\ UNCHANGED <<exit, answers, tainted>>

(* The scanner's next line, unless the reader is at work on a log backup. *)
ReadLine ==
    /\ exit = "running" /\ next <= NumLines
    /\ ~\E t \in Tasks : AtWork(t) /\ Serial(t.line)
    /\ Malformed \/ BackupLine \/ RestoreLine \/ InquireLine \/ DeleteLine
    /\ UNCHANGED <<shared, n, cmd, result, mu, chunks, metaType, bucket, saved>>

(* wp.StopWait has returned: the command ends. *)
EndCommand ==
    /\ exit = "running" /\ next > NumLines
    /\ \A t \in Tasks : stage[t] \in {"none", "finished"}
    /\ exit' = "ok"
    /\ ClearProcess
    /\ UNCHANGED <<shared, n, cmd, bucket, answers, hist>>

(* The reader has returned an error and the output is closed; workers go on until
   the process ends. *)
FailCommand ==
    /\ exit = "failing"
    /\ exit' = "failed"
    /\ UNCHANGED <<shared, n, cmd, next, stage, result, mu, chunks, metaType, bucket, answers, hist>>

(* A failed command exits whatever its workers do, and any command may be killed;
   a concurrent write to a map, when the runtime notices it, kills it too. *)
EndProcess ==
    /\ Alive
    /\ exit' = "ended"
    /\ tainted' = tainted \cup {Line(t).file : t \in {u \in Tasks : cmd.fn = "BACKUP"
                                                 /\ stage[u] \notin {"none", "finished"}}}
    /\ ClearProcess
    /\ UNCHANGED <<shared, n, cmd, bucket, answers, saved>>

------------------------------------------------------------------------------
(* Workers.  Tasks start in the order in which they were submitted. *)

Before(t, u) == t.line < u.line \/ (t.line = u.line /\ t.part < u.part)

Goto(t, s) == stage' = [stage EXCEPT ![t] = s]

StartTask(t) ==
    /\ stage[t] = "queued"
    /\ \A u \in Tasks : stage[u] = "queued" => u = t \/ Before(t, u)
    /\ Cardinality({u \in Tasks : AtWork(u) /\ ~Serial(u.line)}) < Threads
    /\ Goto(t, IF cmd.fn = "BACKUP" THEN "label" ELSE "work")
    /\ UNCHANGED <<reader, result, mu, chunks, metaType, bucket, answers, hist>>

(* backupFile: X-Backup-Type is set in the metadata, which is the map of the
   configuration if that has one. *)
LabelFile(t) ==
    /\ stage[t] = "label"
    /\ metaType' = IF shared THEN Line(t).op ELSE metaType
    /\ Goto(t, IF t.part = 0 THEN "open" ELSE "upload")
    /\ UNCHANGED <<reader, result, mu, chunks, bucket, answers, hist>>

(* backupFile without a reader: open with retries, stat. *)
OpenFile(t) ==
    /\ stage[t] = "open"
    /\ \/ Goto(t, "upload") /\ UNCHANGED result
       \/ Goto(t, "reply") /\ result' = [result EXCEPT ![t] = [verdict |-> "ERROR"]]
    /\ UNCHANGED <<reader, mu, chunks, metaType, bucket, answers, hist>>

Object(t, whole) ==
    [file |-> Line(t).file, id |-> n, part |-> t.part,
     kind |-> Line(t).op, type |-> IF shared THEN metaType ELSE Line(t).op,
     whole |-> whole]

SameName(o, p) == o.file = p.file /\ o.id = p.id /\ o.part = p.part

InBucket == {bucket[i] : i \in DOMAIN bucket}

(* An object of the same name is replaced. *)
Put(o) == bucket' = Append(Dropped(bucket, {p \in InBucket : SameName(o, p)}), o)

(* rw.Upload with verification.  A failing upload may leave an object that is not
   what was to be stored. *)
UploadFile(t) ==
    /\ stage[t] = "upload"
    /\ Goto(t, "reply")
    /\ \/ Put(Object(t, TRUE)) /\ result' = [result EXCEPT ![t] = [verdict |-> "SAVED"]]
       \/ /\ Put(Object(t, FALSE)) \/ UNCHANGED bucket
          /\ result' = [result EXCEPT ![t] = [verdict |-> "ERROR"]]
    /\ UNCHANGED <<reader, mu, chunks, metaType, answers, hist>>

(* Histories of an answer to a request of a backup. *)
Record(t, verdict) ==
    IF verdict = "SAVED" /\ exit # "failed"
      THEN /\ saved' = saved \cup {<<Line(t).file, n>>} /\ UNCHANGED tainted
      ELSE tainted' = tainted \cup {Line(t).file} /\ UNCHANGED saved

(* The worker locks the mutex, writes the answer and unlocks. *)
ReplyWhole(t) ==
    /\ stage[t] = "reply" /\ t.part = 0
    /\ mu = None
    /\ Answer(t.line, result[t])
    /\ IF cmd.fn = "BACKUP" THEN Record(t, result[t].verdict) ELSE UNCHANGED hist
    /\ Goto(t, "finished")
    /\ result' = [result EXCEPT ![t] = None]
    /\ UNCHANGED <<reader, mu, chunks, metaType, bucket>>

(* Mutant: a later chunk that succeeds clears the error of an earlier one. *)
CountChunkForgets(t) ==
    /\ stage[t] = "reply" /\ t.part # 0
    /\ mu = None
    /\ chunkError' = IF result[t].verdict = "ERROR" THEN chunkError \cup {t.line}
                     ELSE chunkError \ {t.line}
    /\ done' = [done EXCEPT ![t.line] = @ + 1]
    /\ IF done'[t.line] = Streams
         THEN mu' = t /\ Goto(t, "compose")
         ELSE UNCHANGED mu /\ Goto(t, "finished")
    /\ result' = [result EXCEPT ![t] = None]
    /\ UNCHANGED <<reader, metaType, bucket, answers, hist>>

(* The worker locks the mutex and counts its chunk; the last one keeps the mutex
   and composes. *)
CountChunk(t) ==
    /\ stage[t] = "reply" /\ t.part # 0
    /\ mu = None
    /\ chunkError' = IF result[t].verdict = "ERROR" THEN chunkError \cup {t.line} ELSE chunkError
    /\ done' = [done EXCEPT ![t.line] = @ + 1]
    /\ IF done'[t.line] = Streams
         THEN mu' = t /\ Goto(t, "compose")
         ELSE UNCHANGED mu /\ Goto(t, "finished")
    /\ result' = [result EXCEPT ![t] = None]
    /\ UNCHANGED <<reader, metaType, bucket, answers, hist>>

IsChunk(o, t) == o.file = Line(t).file /\ o.id = n /\ o.part # 0
Chunks(t) == {o \in InBucket : IsChunk(o, t)}

(* Mutant: returns once the object is composed. *)
ComposeChunksKeepsThem(t) ==
    /\ stage[t] = "compose"
    /\ LET parts == Chunks(t)
           first == CHOOSE o \in parts : \A p \in parts : o.part <= p.part
       IN \/ /\ Cardinality(parts) = Streams
             /\ Put([file |-> Line(t).file, id |-> n, part |-> 0,
                     kind |-> Line(t).op, type |-> first.type,
                     whole |-> \A o \in parts : o.whole])
             /\ Goto(t, "composed") /\ UNCHANGED chunkError
          \/ /\ chunkError' = chunkError \cup {t.line}
             /\ Goto(t, "clean")
             /\ UNCHANGED bucket
    /\ UNCHANGED <<reader, result, mu, done, metaType, answers, hist>>

(* composeChunks: the chunks are composed although one may have failed; without
   a bucket handle it answers at once. *)
ComposeChunks(t) ==
    /\ stage[t] = "compose"
    /\ LET parts == Chunks(t)
           first == CHOOSE o \in parts : \A p \in parts : o.part <= p.part
       IN \/ /\ Cardinality(parts) = Streams
             /\ Put([file |-> Line(t).file, id |-> n, part |-> 0,
                     kind |-> Line(t).op, type |-> first.type,
                     whole |-> \A o \in parts : o.whole])
             /\ Goto(t, "clean") /\ UNCHANGED chunkError
          \/ /\ chunkError' = chunkError \cup {t.line}
             /\ \/ Goto(t, "clean")
                \/ Goto(t, "composed")
             /\ UNCHANGED bucket
    /\ UNCHANGED <<reader, result, mu, done, metaType, answers, hist>>

(* composeChunks: each chunk is deleted; a failure is logged. *)
DeleteChunks(t) ==
    /\ stage[t] = "clean"
    /\ \E left \in SUBSET Chunks(t) :
         /\ bucket' = Dropped(bucket, Chunks(t) \ left)
         /\ tainted' = IF left = {} THEN tainted ELSE tainted \cup {Line(t).file}
    /\ Goto(t, "composed")
    /\ UNCHANGED <<reader, result, mu, chunks, metaType, answers, saved>>

(* The answer for the file; the mutex is released. *)
ReplyComposed(t) ==
    /\ stage[t] = "composed"
    /\ LET verdict == IF t.line \in chunkError THEN "ERROR" ELSE "SAVED" IN
         Answer(t.line, [verdict |-> verdict]) /\ Record(t, verdict)
    /\ mu' = None
    /\ Goto(t, "finished")
    /\ UNCHANGED <<reader, result, chunks, metaType, bucket>>

------------------------------------------------------------------------------
(* The other functions. *)

(* CreateObjectPath: #NULL lists all objects of the file, #EBID those whose name
   begins with the object's, its chunks among them. *)
Matches(t, o) == o.file = Line(t).file /\ (Line(t).op = "EBID" => o.id = Line(t).id)

Listed(t) == Kept(bucket, {o \in InBucket : Matches(t, o)})

(* restoreFile: the latest object; files are created, a pipe must be there, as it
   is when HANA backed up a pipe. *)
RestoreFile(t) ==
    /\ stage[t] = "work" /\ cmd.fn = "RESTORE"
    /\ \/ result' = [result EXCEPT ![t] = [verdict |-> "ERROR"]]
       \/ /\ Listed(t) = <<>>
          /\ result' = [result EXCEPT ![t] = [verdict |-> "NOTFOUND"]]
       \/ /\ Listed(t) # <<>>
          /\ LET o == Listed(t)[Len(Listed(t))] IN
               result' = [result EXCEPT ![t] = [verdict |-> "RESTORED", object |-> o]]
    /\ Goto(t, "reply")
    /\ UNCHANGED <<reader, mu, chunks, metaType, bucket, answers, hist>>

(* inquireFiles: one line for each object listed. *)
InquireFiles(t) ==
    /\ stage[t] = "work" /\ cmd.fn = "INQUIRE"
    /\ \/ result' = [result EXCEPT ![t] = [verdict |-> "ERROR"]]
       \/ result' = [result EXCEPT ![t] =
             IF Listed(t) = <<>> THEN [verdict |-> "NOTFOUND"]
             ELSE [verdict |-> "BACKUP", objects |-> Listed(t)]]
    /\ Goto(t, "reply")
    /\ UNCHANGED <<reader, mu, chunks, metaType, bucket, answers, hist>>

(* delete: the object itself.  A request that fails may have worked. *)
DeleteObject(t) ==
    /\ stage[t] = "work" /\ cmd.fn = "DELETE"
    /\ LET hit(o) == o.part = 0 /\ o.file = Line(t).file /\ o.id = Line(t).id
           gone == Dropped(bucket, {o \in InBucket : hit(o)})
       IN \/ /\ bucket' = gone /\ gone # bucket
             /\ result' = [result EXCEPT ![t] = [verdict |-> "DELETED"]]
          \/ /\ bucket' = bucket /\ gone = bucket
             /\ result' = [result EXCEPT ![t] = [verdict |-> "NOTFOUND"]]
          \/ /\ bucket' \in {bucket, gone}
             /\ result' = [result EXCEPT ![t] = [verdict |-> "ERROR"]]
    /\ saved' = saved \ {<<Line(t).file, Line(t).id>>}
    /\ Goto(t, "reply")
    /\ UNCHANGED <<reader, mu, chunks, metaType, answers, tainted>>

TaskStep(t) ==
    \/ StartTask(t) \/ LabelFile(t) \/ OpenFile(t) \/ UploadFile(t)
    \/ ReplyWhole(t) \/ CountChunk(t) \/ ComposeChunks(t) \/ DeleteChunks(t)
    \/ ReplyComposed(t)
    \/ RestoreFile(t) \/ InquireFiles(t) \/ DeleteObject(t)

Next ==
    \/ Begin \/ ReadLine \/ EndCommand \/ FailCommand \/ EndProcess
    \/ Alive /\ \E t \in Tasks : TaskStep(t)

Fairness ==
    /\ WF_vars(ReadLine \/ EndCommand \/ FailCommand)
    /\ \A t \in Tasks : WF_vars(Alive /\ TaskStep(t))

Spec == Init /\ [][Next]_vars /\ Fairness

------------------------------------------------------------------------------
(* Properties. *)

(* What the requests' side sees of a command: the lines read that have no answer
   yet, the number of answers to each, and how the command ended. *)
Taken == IF exit \notin {"running", "failing"} THEN {}
         ELSE {l \in 1..(next - 1) : answers[l] = <<>>}
Replies == [l \in 1..MaxLines |-> Len(answers[l])]
Over == CASE exit = "ok" -> "well"
          [] exit \in {"running", "failing"} -> "no"
          [] OTHER -> "badly"

(* A command takes requests and answers each of them once, however many tasks
   work for it, and ends well only when every request has its answer: the lines
   in the input are the requests, a line is taken when it was read. *)
Abstract == INSTANCE RequestAnswers WITH
    Requests <- 1..MaxLines, taken <- Taken, replies <- Replies, over <- Over

AnswersOnce == Abstract!Spec

(* What was answered #SAVED is in the bucket, whole, with the type of the
   request unless all uploads write theirs to the configuration's map, and is the
   object that a restore by its ID takes even if chunks were left behind. A restore
   of the latest backup delivers whole data unless an upload of that file was cut off
   or answered with an error, or a chunk was left: the leftovers are listed like
   backups, and after a delete they may be all that is listed. *)
SavedIsRestorable ==
    /\ \A s \in saved :
         LET named == Kept(bucket, {o \in InBucket : o.file = s[1] /\ o.id = s[2]})
         IN /\ named # <<>>
            /\ named[Len(named)].part = 0
            /\ named[Len(named)].whole
            /\ shared \/ named[Len(named)].type = named[Len(named)].kind
    /\ \A l \in 1..MaxLines : \A i \in DOMAIN answers[l] :
         LET a == answers[l][i] IN
         (a.verdict = "RESTORED" /\ a.object.file \notin tainted) => a.object.whole /\ a.object.part = 0
=============================================================================

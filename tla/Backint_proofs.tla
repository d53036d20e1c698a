---------------------------- MODULE Backint_proofs ----------------------------
(***************************************************************************)
(* Why a Backint command answers each request once, for any number of      *)
(* lines, parallel streams, threads and commands: its steps are steps of   *)
(* RequestAnswers.  And why what it answered #SAVED can be restored: what  *)
(* the bucket holds for each line follows the stages of the line's tasks.  *)
(***************************************************************************)
EXTENDS Backint, Subsequences_proofs, FiniteSetTheorems, TLAPS

Exits == {"running", "failing", "failed", "ended", "ok"}

Stages == {"none", "queued", "label", "open", "upload", "reply", "work",
           "compose", "clean", "composed", "finished"}

Task(l, p) == [line |-> l, part |-> p]

(* The reader is at work, or has returned an error that is not yet known. *)
Open == exit \in {"running", "failing"}

(* The task composes the object of its line and holds the mutex. *)
Composing(t) == stage[t] \in {"compose", "clean", "composed"}

(* The chunks that chunksCompleted has counted. *)
Counted(l) == {p \in 1..Streams :
                 stage[Task(l, p)] \in {"compose", "clean", "composed", "finished"}}

Types ==
    /\ n \in Nat /\ exit \in Exits
    /\ NumLines \in 0..MaxLines
    /\ next \in 1..(MaxLines + 1)
    /\ Alive => next <= NumLines + 1
    /\ stage \in [Tasks -> Stages]
    /\ done \in [1..MaxLines -> Nat]
    /\ DOMAIN answers = 1..MaxLines

(* No process, no task. *)
Cleared ==
    ~Alive => /\ next = 1 /\ mu = None
              /\ \A t \in Tasks : stage[t] = "none"
              /\ \A l \in 1..MaxLines : done[l] = 0

(* A line that has no task, one task, or one for each chunk. *)
NoTask(l) == done[l] = 0 /\ \A p \in 0..Streams : stage[Task(l, p)] = "none"

WholeFile(l) ==
    /\ stage[Task(l, 0)] # "none" /\ ~Composing(Task(l, 0))
    /\ done[l] = 0 /\ \A p \in 1..Streams : stage[Task(l, p)] = "none"
    /\ stage[Task(l, 0)] # "finished" <=> answers[l] = <<>>

InChunks(l) ==
    /\ stage[Task(l, 0)] = "none"
    /\ \A p \in 1..Streams : stage[Task(l, p)] # "none"
    /\ done[l] = Cardinality(Counted(l))
    /\ done[l] # Streams => answers[l] = <<>> /\ \A p \in 1..Streams : ~Composing(Task(l, p))
    /\ answers[l] = <<>> => done[l] # Streams \/ \E p \in 1..Streams : Composing(Task(l, p))
    /\ answers[l] # <<>> => \A p \in 1..Streams : stage[Task(l, p)] = "finished"

(* What has become of a line: not read, refused by the reader, or handed to the
   pool. *)
LineOK(l) ==
    /\ answers[l] = <<>> \/ Len(answers[l]) = 1
    /\ IF l >= next THEN NoTask(l) /\ answers[l] = <<>>
                    ELSE (NoTask(l) /\ answers[l] # <<>>) \/ WholeFile(l) \/ InChunks(l)

(* The inductive invariant: while a command is read, every line is in order, and
   only the holder of the mutex composes. *)
LinesInv ==
    /\ Types /\ Cleared
    /\ Open => \A t \in Tasks : Composing(t) => mu = t
    /\ Open => \A l \in 1..MaxLines : LineOK(l)
------------------------------------------------------------------------------
(* The first answer to a line is the only one so far. *)
LEMMA OneAnswer ==
    ASSUME NEW e
    PROVE  Append(<<>>, e) # <<>> /\ Len(Append(<<>>, e)) = 1
<1>1. <<>> \in Seq({e}) /\ e \in {e}
  OBVIOUS
<1>2. Len(Append(<<>>, e)) = 1
  BY <1>1
<1> QED
  BY <1>2

(* Tasks are named by line and part. *)
LEMMA TaskNames ==
    /\ \A t \in Tasks : /\ t.line \in 1..MaxLines /\ t.part \in 0..Streams
                        /\ t = Task(t.line, t.part)
    /\ \A l \in 1..MaxLines : \A p \in 0..Streams :
         Task(l, p) \in Tasks /\ Task(l, p).line = l /\ Task(l, p).part = p
BY DEF Tasks, Task

(* All chunks of a file have completed when chunksCompleted is their number. *)
LEMMA ChunkCount ==
    /\ IsFiniteSet(1..Streams) /\ Cardinality(1..Streams) = Streams
    /\ \A l : Counted(l) \in SUBSET (1..Streams)
<1>1. Streams \in Int /\ 1 \in Int /\ ~(1 > Streams) /\ Streams - 1 + 1 = Streams
  BY ParametersAssumption
<1>2. IsFiniteSet(1..Streams) /\ Cardinality(1..Streams) = Streams
  BY <1>1, FS_Interval
<1> QED
  BY <1>2 DEF Counted

(* A line is in order as long as its tasks, its count and its answer look the
   same. *)
LEMMA SameShape ==
    ASSUME NEW l \in 1..MaxLines, LineOK(l),
           \A p \in 0..Streams :
             /\ stage'[Task(l, p)] = "none" <=> stage[Task(l, p)] = "none"
             /\ stage'[Task(l, p)] = "finished" <=> stage[Task(l, p)] = "finished"
             /\ Composing(Task(l, p))' <=> Composing(Task(l, p)),
           done'[l] = done[l], answers'[l] = answers[l], l >= next' <=> l >= next
    PROVE  LineOK(l)'
<1>1. \A p \in 1..Streams : p \in 0..Streams
  BY ParametersAssumption
<1>2. 0 \in 0..Streams
  BY ParametersAssumption
<1>3. Counted(l)' = Counted(l)
  BY <1>1 DEF Counted, Composing
<1>4. /\ NoTask(l) => NoTask(l)'
      /\ WholeFile(l) => WholeFile(l)'
  BY <1>1, <1>2 DEF NoTask, WholeFile
<1>5. InChunks(l) => InChunks(l)'
  BY <1>1, <1>2, <1>3 DEF InChunks
<1> QED
  BY <1>4, <1>5 DEF LineOK

Working == {"queued", "label", "open", "upload", "work", "reply"}
Composes == {"compose", "clean", "composed"}

(* A task that goes on to its next stage, not yet counted or while it composes. *)
LEMMA MovesKeep ==
    ASSUME LinesInv, NEW t \in Tasks, NEW s \in Stages,
           stage' = [stage EXCEPT ![t] = s],
           \/ stage[t] \in Working /\ s \in Working
           \/ stage[t] \in Composes /\ s \in Composes,
           UNCHANGED <<reader, mu, done, answers>>, Alive
    PROVE  LinesInv'
<1>1. Types'
  BY DEF LinesInv, Types, reader, NumLines, Alive
<1>2. Cleared'
  BY DEF Cleared, Alive, reader
<1>3. \A u \in Tasks : /\ stage'[u] = "none" <=> stage[u] = "none"
                       /\ stage'[u] = "finished" <=> stage[u] = "finished"
                       /\ Composing(u)' <=> Composing(u)
  BY DEF LinesInv, Types, Composing, Working, Composes
<1>4. Open' => \A u \in Tasks : Composing(u)' => mu' = u
  BY <1>3 DEF LinesInv, Open, reader
<1>5. ASSUME Open', NEW l \in 1..MaxLines PROVE LineOK(l)'
  <2>1. LineOK(l)
    BY <1>5 DEF LinesInv, Open, reader
  <2> QED
    BY <2>1, <1>3, TaskNames, SameShape DEF reader
<1> QED
  BY <1>1, <1>2, <1>4, <1>5 DEF LinesInv
------------------------------------------------------------------------------
(* How a command ended, as the side of the requests sees it. *)
LEMMA OverIs ==
    /\ exit = "ok" => Over = "well"
    /\ Open => Over = "no"
    /\ exit \in {"failed", "ended"} => Over = "badly"
    /\ exit' = "ok" => Over' = "well"
    /\ Open' => Over' = "no"
    /\ exit' \in {"failed", "ended"} => Over' = "badly"
<1>1. /\ exit = "ok" => Over = "well"
      /\ exit' = "ok" => Over' = "well"
  BY Zenon DEF Over
<1>2. /\ exit = "running" => Over = "no"
      /\ exit' = "running" => Over' = "no"
  BY Zenon DEF Over
<1>3. /\ exit = "failing" => Over = "no"
      /\ exit' = "failing" => Over' = "no"
  BY Zenon DEF Over
<1>4. /\ exit = "failed" => Over = "badly"
      /\ exit' = "failed" => Over' = "badly"
  BY Zenon DEF Over
<1>5. /\ exit = "ended" => Over = "badly"
      /\ exit' = "ended" => Over' = "badly"
  BY Zenon DEF Over
<1> QED
  BY <1>1, <1>2, <1>3, <1>4, <1>5 DEF Open

(* What neither answers nor reads nor ends is no step of the requests. *)
LEMMA Stutters ==
    ASSUME exit' = exit, next' = next, answers' = answers
    PROVE  [Abstract!Next]_(Abstract!avars)
BY DEF Abstract!avars, Taken, Replies, Over

(* Begin: no request is taken, none has an answer. *)
LEMMA BeginStep ==
    ASSUME LinesInv, Begin
    PROVE  LinesInv' /\ Abstract!Begin
<1>1. /\ n' = n + 1 /\ exit' = "running" /\ next' = 1 /\ mu' = mu /\ stage' = stage
      /\ done' = done /\ answers' = [l \in 1..MaxLines |-> <<>>]
      /\ \A t \in Tasks : stage[t] = "none"
      /\ \A l \in 1..MaxLines : done[l] = 0
      /\ n \in Nat /\ exit \in {"ok", "ended"}
  BY DEF Begin, reader, chunks, LinesInv, Types, Cleared, Alive
<1>2. NumLines' \in 0..MaxLines
  <2>1. n + 1 \in DOMAIN Inputs /\ cmd' \in Inputs[n + 1]
    BY <1>1, ParametersAssumption DEF Begin
  <2> QED
    BY <2>1, ParametersAssumption DEF NumLines
<1>3. Types' /\ Cleared'
  <2>1. n' \in Nat /\ exit' \in Exits /\ Alive'
    BY <1>1 DEF Exits, Alive
  <2>2. next' \in 1..(MaxLines + 1) /\ next' <= NumLines' + 1
    <3>1. MaxLines \in Nat
      BY ParametersAssumption
    <3>2. next' = 1
      BY <1>1
    <3>3. 1 \in 1..(MaxLines + 1)
      BY <3>1
    <3>4. \A k \in 0..MaxLines : 1 <= k + 1
      BY <3>1
    <3> QED
      BY <1>2, <3>2, <3>3, <3>4
  <2>3. /\ stage' \in [Tasks -> Stages] /\ done' \in [1..MaxLines -> Nat]
        /\ DOMAIN answers' = 1..MaxLines
    BY <1>1 DEF LinesInv, Types
  <2> QED
    BY <1>2, <2>1, <2>2, <2>3 DEF Types, Cleared
<1>4. \A t \in Tasks : ~Composing(t)'
  BY <1>1 DEF Composing
<1>5. ASSUME NEW l \in 1..MaxLines PROVE LineOK(l)'
  BY <1>1, <1>5, TaskNames DEF LineOK, NoTask
<1>6. Taken' = {}
  BY <1>1 DEF Taken
<1>7. Replies' = [l \in 1..MaxLines |-> 0]
  <2>1. Len(<<>>) = 0
    OBVIOUS
  <2> QED
    BY <1>1, <2>1 DEF Replies
<1>8. Over # "no" /\ Over' = "no"
  BY <1>1, OverIs DEF Open
<1> QED
  BY <1>3, <1>4, <1>5, <1>6, <1>7, <1>8 DEF LinesInv, Abstract!Begin

(* EndCommand: StopWait has waited for every task, so every line has its answer. *)
LEMMA EndCommandStep ==
    ASSUME LinesInv, EndCommand
    PROVE  LinesInv' /\ Abstract!EndWell
<1>1. /\ exit = "running" /\ next > NumLines /\ exit' = "ok" /\ next' = 1 /\ mu' = None
      /\ stage' = [t \in Tasks |-> "none"] /\ done' = [l \in 1..MaxLines |-> 0]
      /\ answers' = answers /\ n' = n /\ cmd' = cmd
      /\ \A t \in Tasks : stage[t] \in {"none", "finished"}
  BY DEF EndCommand, ClearProcess
<1>2. LinesInv'
  BY <1>1, ParametersAssumption
     DEF LinesInv, Types, Cleared, Exits, Alive, NumLines, Stages, Open
<1>3. ASSUME NEW l \in 1..(next - 1) PROVE answers[l] # <<>>
  <2>1. l \in 1..MaxLines /\ ~(l >= next)
    BY <1>3, ParametersAssumption DEF LinesInv, Types
  <2>2. LineOK(l)
    BY <1>1, <2>1 DEF LinesInv, Open
  <2>3. \A p \in 0..Streams : stage[Task(l, p)] \in {"none", "finished"}
    BY <1>1, <2>1, TaskNames
  <2>4. 0 \in 0..Streams /\ \A p \in 1..Streams : p \in 0..Streams
    BY ParametersAssumption
  <2>5. CASE WholeFile(l)
    BY <2>3, <2>4, <2>5 DEF WholeFile
  <2>6. CASE InChunks(l)
    <3>1. \A p \in 1..Streams : stage[Task(l, p)] = "finished"
      BY <2>3, <2>4, <2>6 DEF InChunks
    <3>2. Counted(l) = 1..Streams
      BY <3>1 DEF Counted
    <3>3. done[l] = Streams
      BY <2>6, <3>2, ChunkCount DEF InChunks
    <3> QED
      BY <2>6, <3>1, <3>3 DEF InChunks, Composing
  <2> QED
    BY <2>1, <2>2, <2>5, <2>6 DEF LineOK
<1>4. Taken = {} /\ Taken' = {}
  BY <1>1, <1>3 DEF Taken
<1>5. Over = "no" /\ Over' = "well"
  BY <1>1, OverIs DEF Open
<1> QED
  BY <1>1, <1>2, <1>4, <1>5 DEF Abstract!EndWell, Replies

(* FailCommand: the error of the reader ends the command. *)
LEMMA FailCommandStep ==
    ASSUME LinesInv, FailCommand
    PROVE  LinesInv' /\ Abstract!EndBadly
<1>1. LinesInv'
  BY DEF FailCommand, LinesInv, Types, Cleared, Exits, Alive, NumLines, Open, chunks
<1>2. Taken' = {} /\ Replies' = Replies
  BY DEF FailCommand, Taken, Replies
<1>3. Over = "no" /\ Over' = "badly"
  BY OverIs DEF FailCommand, Open
<1> QED
  BY <1>1, <1>2, <1>3 DEF Abstract!EndBadly

(* EndProcess: a command that had not returned ends badly, one that has failed
   stays so. *)
LEMMA EndProcessStep ==
    ASSUME LinesInv, EndProcess
    PROVE  LinesInv' /\ [Abstract!Next]_(Abstract!avars)
<1>1. /\ Alive /\ exit' = "ended" /\ next' = 1 /\ mu' = None
      /\ stage' = [t \in Tasks |-> "none"] /\ done' = [l \in 1..MaxLines |-> 0]
      /\ answers' = answers /\ n' = n /\ cmd' = cmd
  BY DEF EndProcess, ClearProcess
<1>2. LinesInv'
  BY <1>1, ParametersAssumption
     DEF LinesInv, Types, Cleared, Exits, Alive, NumLines, Stages, Open
<1>3. Taken' = {} /\ Replies' = Replies /\ Over' = "badly"
  BY <1>1, OverIs DEF Taken, Replies
<1>4. CASE Open
  BY <1>2, <1>3, <1>4, OverIs DEF Abstract!EndBadly, Abstract!Next
<1>5. CASE exit = "failed"
  <2>1. Taken = {} /\ Over = "badly"
    BY <1>5, OverIs DEF Taken
  <2> QED
    BY <1>2, <1>3, <2>1 DEF Abstract!avars
<1> QED
  BY <1>1, <1>2, <1>4, <1>5 DEF Alive, Open
(* A step of the reader at the line next: no other line changes. *)
LEMMA OtherLines ==
    ASSUME LinesInv, Open, Open', next' = next \/ next' = next + 1,
           \A t \in Tasks : t.line # next => stage'[t] = stage[t],
           done' = done, \A l \in 1..MaxLines : l # next => answers'[l] = answers[l],
           NEW l \in 1..MaxLines, l # next
    PROVE  LineOK(l)'
<1>1. LineOK(l) /\ next \in Nat
  BY ParametersAssumption DEF LinesInv, Types
<1>2. l >= next' <=> l >= next
  BY <1>1
<1>3. \A p \in 0..Streams : stage'[Task(l, p)] = stage[Task(l, p)]
  BY TaskNames
<1> QED
  BY <1>1, <1>2, <1>3, SameShape DEF Composing

(* Submit: the line has the tasks that were handed to the pool. *)
LEMMA SubmitStep ==
    ASSUME LinesInv, ReadLine, NEW l, l = next, next' = l + 1, exit' = exit, answers' = answers,
           \/ \E s \in Working : stage' = [stage EXCEPT ![Task(l, 0)] = s]
           \/ Submit(l, {0})
           \/ Submit(l, 1..Streams)
    PROVE  LinesInv' /\ l \in 1..MaxLines /\ Abstract!Take(l)
<1>1. /\ l \in 1..MaxLines /\ l <= NumLines /\ Open /\ Open' /\ exit = "running"
      /\ NoTask(l) /\ answers[l] = <<>> /\ Alive /\ Alive'
      /\ n' = n /\ cmd' = cmd /\ mu' = mu /\ done' = done
  <2>1. l \in 1..MaxLines /\ l <= NumLines
    BY ParametersAssumption DEF ReadLine, LinesInv, Types
  <2> QED
    BY <2>1 DEF ReadLine, LinesInv, LineOK, Open, Alive, chunks
<1>2. \A p \in 0..Streams : Task(l, p) \in Tasks /\ stage[Task(l, p)] = "none"
  BY <1>1, TaskNames DEF NoTask
<1>3. 0 \in 0..Streams /\ \A p \in 1..Streams : p \in 0..Streams /\ p # 0
  BY ParametersAssumption
<1>4. \A t \in Tasks : t.line # l => stage'[t] = stage[t]
  BY <1>1, <1>3, TaskNames DEF Submit, LinesInv, Types
<1>5. stage' \in [Tasks -> Stages]
  BY <1>1 DEF Submit, LinesInv, Types, Stages, Working
<1>6. Types' /\ Cleared'
  <2>1. next' \in 1..(MaxLines + 1) /\ next' <= NumLines' + 1
    <3>1. MaxLines \in Nat /\ NumLines' = NumLines /\ NumLines \in Nat
      BY <1>1, ParametersAssumption DEF NumLines, LinesInv, Types
    <3> QED
      BY <1>1, <3>1
  <2>2. NumLines' \in 0..MaxLines
    BY <1>1 DEF NumLines, LinesInv, Types
  <2> QED
    BY <1>1, <1>5, <2>1, <2>2 DEF LinesInv, Types, Cleared, Exits
<1>7. \/ /\ stage'[Task(l, 0)] \in Working
         /\ \A p \in 1..Streams : stage'[Task(l, p)] = "none"
      \/ /\ stage'[Task(l, 0)] = "none"
         /\ \A p \in 1..Streams : stage'[Task(l, p)] = "queued"
  BY <1>1, <1>2, <1>3, TaskNames DEF Submit, LinesInv, Types, Working
<1>8. LineOK(l)'
  <2>1. done'[l] = 0 /\ answers'[l] = <<>> /\ ~(l >= next')
    BY <1>1 DEF NoTask
  <2>2. CASE stage'[Task(l, 0)] \in Working /\ \A p \in 1..Streams : stage'[Task(l, p)] = "none"
    BY <2>1, <2>2 DEF LineOK, WholeFile, Composing, Working
  <2>3. CASE stage'[Task(l, 0)] = "none" /\ \A p \in 1..Streams : stage'[Task(l, p)] = "queued"
    <3>1. Counted(l)' = {}
      BY <2>3 DEF Counted
    <3>2. InChunks(l)'
      BY <2>1, <2>3, <3>1, FS_EmptySet, ParametersAssumption DEF InChunks, Composing
    <3> QED
      BY <2>1, <3>2 DEF LineOK
  <2> QED
    BY <1>7, <2>2, <2>3
<1>9. \A t \in Tasks : Composing(t)' => mu' = t
  <2>1. \A t \in Tasks : Composing(t)' => stage'[t] = stage[t]
    BY <1>3, <1>4, <1>7, TaskNames DEF Composing, Working
  <2> QED
    BY <1>1, <2>1 DEF LinesInv, Composing
<1>10. ASSUME NEW k \in 1..MaxLines, k # l PROVE LineOK(k)'
  BY <1>1, <1>4, <1>10, OtherLines
<1>11. Taken' = Taken \cup {l} /\ l \notin Taken /\ Replies[l] = 0 /\ Replies' = Replies
  <2>1. Len(<<>>) = 0
    OBVIOUS
  <2> QED
    BY <1>1, <2>1 DEF Taken, Replies, Open
<1> QED
  BY <1>1, <1>6, <1>8, <1>9, <1>10, <1>11, OverIs DEF LinesInv, Abstract!Take
(* The reader answers a line it cannot cut into chunks itself. *)
LEMMA RefuseStep ==
    ASSUME LinesInv, ReadLine, NEW l, l = next, next' = l + 1, exit' = exit, stage' = stage,
           NEW e, Answer(l, e)
    PROVE  LinesInv' /\ l \in 1..MaxLines /\ Abstract!Refuse(l)
<1>1. /\ l \in 1..MaxLines /\ l <= NumLines /\ Open /\ Open' /\ exit = "running"
      /\ NoTask(l) /\ answers[l] = <<>> /\ Alive /\ Alive'
      /\ n' = n /\ cmd' = cmd /\ mu' = mu /\ done' = done
  <2>1. l \in 1..MaxLines /\ l <= NumLines
    BY ParametersAssumption DEF ReadLine, LinesInv, Types
  <2> QED
    BY <2>1 DEF ReadLine, LinesInv, LineOK, Open, Alive, chunks
<1>2. /\ DOMAIN answers' = 1..MaxLines /\ answers'[l] # <<>> /\ Len(answers'[l]) = 1
      /\ \A k \in 1..MaxLines : k # l => answers'[k] = answers[k]
  BY <1>1, OneAnswer DEF Answer, LinesInv, Types
<1>3. Types' /\ Cleared'
  <2>1. next' \in 1..(MaxLines + 1) /\ next' <= NumLines' + 1
    <3>1. MaxLines \in Nat /\ NumLines' = NumLines /\ NumLines \in Nat
      BY <1>1, ParametersAssumption DEF NumLines, LinesInv, Types
    <3> QED
      BY <1>1, <3>1
  <2>2. NumLines' \in 0..MaxLines
    BY <1>1 DEF NumLines, LinesInv, Types
  <2> QED
    BY <1>1, <1>2, <2>1, <2>2 DEF LinesInv, Types, Cleared, Exits
<1>4. LineOK(l)'
  BY <1>1, <1>2 DEF LineOK, NoTask
<1>5. ASSUME NEW k \in 1..MaxLines, k # l PROVE LineOK(k)'
  BY <1>1, <1>2, <1>5, OtherLines
<1>6. \A t \in Tasks : Composing(t)' => mu' = t
  BY <1>1 DEF LinesInv, Composing
<1>7. Taken' = Taken /\ l \notin Taken /\ Replies[l] = 0 /\ Replies' = [Replies EXCEPT ![l] = 1]
  <2>1. Len(<<>>) = 0
    OBVIOUS
  <2>2. Taken' = Taken /\ l \notin Taken
    BY <1>1, <1>2, ParametersAssumption DEF Taken, Open, LinesInv, Types
  <2> QED
    BY <1>1, <1>2, <2>1, <2>2 DEF Replies
<1> QED
  BY <1>1, <1>3, <1>4, <1>5, <1>6, <1>7, OverIs DEF LinesInv, Abstract!Refuse

(* A malformed line is not taken. *)
LEMMA MalformedStep ==
    ASSUME LinesInv, ReadLine, Malformed
    PROVE  LinesInv' /\ [Abstract!Next]_(Abstract!avars)
<1>1. /\ exit = "running" /\ exit' = "failing" /\ next' = next /\ answers' = answers
      /\ stage' = stage /\ done' = done /\ mu' = mu /\ n' = n /\ cmd' = cmd
  BY DEF ReadLine, Malformed, chunks
<1>2. LinesInv'
  <2>1. Types' /\ Cleared'
    BY <1>1 DEF LinesInv, Types, Cleared, Exits, Alive, NumLines
  <2>2. \A t \in Tasks : Composing(t)' => mu' = t
    BY <1>1 DEF LinesInv, Composing, Open
  <2>3. ASSUME NEW l \in 1..MaxLines PROVE LineOK(l)'
    BY <1>1, <2>3, SameShape DEF LinesInv, Open, Composing
  <2> QED
    BY <2>1, <2>2, <2>3 DEF LinesInv
<1>3. Taken' = Taken /\ Replies' = Replies /\ Over' = Over
  BY <1>1, OverIs DEF Taken, Replies, Open
<1> QED
  BY <1>2, <1>3 DEF Abstract!avars

(* Each line the reader takes is a request taken, or one refused. *)
LEMMA ReadLineStep ==
    ASSUME LinesInv, ReadLine
    PROVE  LinesInv' /\ [Abstract!Next]_(Abstract!avars)
<1>1. CASE Malformed
  BY <1>1, MalformedStep
<1>2. CASE BackupLine
  <2>1. PICK l : l = next
    OBVIOUS
  <2>2. CASE \E e : Answer(l, e) /\ stage' = stage
    <3>1. LinesInv' /\ l \in 1..MaxLines /\ Abstract!Refuse(l)
      BY <1>2, <2>1, <2>2, RefuseStep DEF BackupLine
    <3> QED
      BY <3>1 DEF Abstract!Next
  <2>3. CASE answers' = answers /\ (Submit(l, {0}) \/ Submit(l, 1..Streams))
    <3>1. LinesInv' /\ l \in 1..MaxLines /\ Abstract!Take(l)
      BY <1>2, <2>1, <2>3, SubmitStep DEF BackupLine
    <3> QED
      BY <3>1 DEF Abstract!Next
  <2> QED
    BY <1>2, <2>1, <2>2, <2>3 DEF BackupLine, SubmitChunks
<1>3. CASE RestoreLine \/ InquireLine \/ DeleteLine
  <2>1. PICK l : l = next
    OBVIOUS
  <2>2. /\ next' = l + 1 /\ exit' = exit /\ answers' = answers
        /\ \/ \E s \in Working : stage' = [stage EXCEPT ![Task(l, 0)] = s]
           \/ Submit(l, {0})
    BY <1>3, <2>1 DEF RestoreLine, InquireLine, DeleteLine, Task, Working
  <2>3. LinesInv' /\ l \in 1..MaxLines /\ Abstract!Take(l)
    BY <2>1, <2>2, SubmitStep
  <2> QED
    BY <2>3 DEF Abstract!Next
<1> QED
  BY <1>1, <1>2, <1>3 DEF ReadLine
------------------------------------------------------------------------------
(* The workers. *)

(* A task of another line leaves a line in order. *)
LEMMA OtherTasks ==
    ASSUME LinesInv, Open, NEW t \in Tasks, NEW s, stage' = [stage EXCEPT ![t] = s],
           next' = next, NEW l \in 1..MaxLines, l # t.line,
           done'[l] = done[l], answers'[l] = answers[l]
    PROVE  LineOK(l)'
<1>1. \A p \in 0..Streams : stage'[Task(l, p)] = stage[Task(l, p)]
  BY TaskNames DEF LinesInv, Types
<1> QED
  BY <1>1, SameShape DEF LinesInv, Composing

(* ReplyWhole: the one task of a line answers it, once. *)
LEMMA ReplyWholeStep ==
    ASSUME LinesInv, Alive, NEW t \in Tasks, ReplyWhole(t)
    PROVE  LinesInv' /\ [Abstract!Next]_(Abstract!avars)
<1>1. /\ stage[t] = "reply" /\ t.part = 0 /\ exit' = exit /\ next' = next /\ n' = n /\ cmd' = cmd
      /\ done' = done /\ mu' = mu /\ stage' = [stage EXCEPT ![t] = "finished"]
      /\ Answer(t.line, result[t])
  BY DEF ReplyWhole, reader, chunks, Goto
<1>2. Types' /\ Cleared'
  BY <1>1 DEF LinesInv, Types, Cleared, Exits, Alive, NumLines, Answer, Stages
<1>3. CASE exit = "failed"
  BY <1>1, <1>2, <1>3, Stutters DEF Answer, LinesInv, Open
<1>4. CASE Open
  <2>1. PICK l \in 1..MaxLines : l = t.line /\ t = Task(l, 0)
    BY <1>1, TaskNames
  <2>2. /\ LineOK(l) /\ ~(l >= next) /\ WholeFile(l) /\ answers[l] = <<>>
        /\ 0 \in 0..Streams /\ \A p \in 1..Streams : p \in 0..Streams /\ p # 0
    BY <1>1, <1>4, <2>1, ParametersAssumption
       DEF LinesInv, LineOK, NoTask, WholeFile, InChunks
  <2>3. /\ DOMAIN answers' = 1..MaxLines /\ answers'[l] # <<>> /\ Len(answers'[l]) = 1
        /\ \A k \in 1..MaxLines : k # l => answers'[k] = answers[k]
    BY <1>1, <1>4, <2>1, <2>2, OneAnswer DEF Answer, LinesInv, Types, Open
  <2>4. LineOK(l)'
    <3>1. stage'[Task(l, 0)] = "finished" /\ \A p \in 1..Streams : stage'[Task(l, p)] = "none"
      BY <1>1, <2>1, <2>2, TaskNames DEF LinesInv, Types, WholeFile
    <3> QED
      BY <1>1, <2>2, <2>3, <3>1 DEF LineOK, WholeFile, Composing
  <2>5. ASSUME NEW k \in 1..MaxLines, k # l PROVE LineOK(k)'
    BY <1>1, <1>4, <2>1, <2>3, <2>5, OtherTasks
  <2>6. \A u \in Tasks : Composing(u)' => mu' = u
    BY <1>1, <1>4 DEF LinesInv, Types, Composing
  <2>7. LinesInv'
    BY <1>2, <2>4, <2>5, <2>6 DEF LinesInv
  <2>8. l \in Taken /\ Taken' = Taken \ {l} /\ Replies' = [Replies EXCEPT ![l] = 1]
    <3>1. l \in Taken /\ Taken' = Taken \ {l}
      BY <1>1, <1>4, <2>2, <2>3, ParametersAssumption DEF Taken, Open, LinesInv, Types
    <3> QED
      BY <2>3, <3>1 DEF Replies
  <2>9. Abstract!Reply(l)
    BY <1>1, <1>4, <2>8, OverIs DEF Abstract!Reply, Open
  <2> QED
    BY <2>7, <2>9 DEF Abstract!Next
<1> QED
  BY <1>3, <1>4 DEF Alive, Open
(* CountChunk: under the mutex nobody composes, so the chunk that completes the
   count is the one that begins to. *)
LEMMA CountChunkStep ==
    ASSUME LinesInv, Alive, NEW t \in Tasks, CountChunk(t)
    PROVE  LinesInv' /\ [Abstract!Next]_(Abstract!avars)
<1>1. /\ stage[t] = "reply" /\ t.part # 0 /\ mu = None
      /\ exit' = exit /\ next' = next /\ n' = n /\ cmd' = cmd /\ answers' = answers
      /\ done' = [done EXCEPT ![t.line] = @ + 1]
      /\ \/ /\ done'[t.line] = Streams /\ mu' = t
            /\ stage' = [stage EXCEPT ![t] = "compose"]
         \/ /\ done'[t.line] # Streams /\ mu' = mu
            /\ stage' = [stage EXCEPT ![t] = "finished"]
  BY DEF CountChunk, reader, Goto
<1>2. Types' /\ Cleared'
  <2>1. stage' \in [Tasks -> Stages]
    BY <1>1 DEF LinesInv, Types, Stages
  <2>2. done' \in [1..MaxLines -> Nat]
    <3>1. done \in [1..MaxLines -> Nat] /\ t.line \in 1..MaxLines /\ done[t.line] + 1 \in Nat
      BY TaskNames DEF LinesInv, Types
    <3> QED
      BY <1>1, <3>1
  <2> QED
    BY <1>1, <2>1, <2>2 DEF LinesInv, Types, Cleared, Alive, NumLines
<1>3. [Abstract!Next]_(Abstract!avars)
  BY <1>1, Stutters
<1>4. CASE Open
  <2>1. PICK l \in 1..MaxLines, p \in 1..Streams : l = t.line /\ p = t.part /\ t = Task(l, p)
    BY <1>1, TaskNames, ParametersAssumption
  <2>2. 0 \in 0..Streams /\ \A q \in 1..Streams : q \in 0..Streams /\ q # 0
    BY ParametersAssumption
  <2>3. \A u \in Tasks : ~Composing(u)
    BY <1>1, <1>4, NoneAssumption DEF LinesInv
  <2>4. ~(l >= next) /\ InChunks(l)
    BY <1>1, <1>4, <2>1, <2>2 DEF LinesInv, LineOK, NoTask, WholeFile
  <2>5. done[l] # Streams /\ answers[l] = <<>>
    BY <1>1, <2>1, <2>2, <2>3, <2>4, TaskNames DEF InChunks
  <2>6. \A q \in 0..Streams : q # p => stage'[Task(l, q)] = stage[Task(l, q)]
    BY <1>1, <2>1, TaskNames DEF LinesInv, Types
  <2>7. stage'[t] \in {"compose", "finished"}
    BY <1>1 DEF LinesInv, Types
  <2>8. Counted(l)' = Counted(l) \cup {p} /\ p \notin Counted(l)
    BY <1>1, <2>1, <2>2, <2>6, <2>7 DEF Counted
  <2>9. done'[l] = Cardinality(Counted(l)')
    <3>2. IsFiniteSet(Counted(l))
      BY ChunkCount, FS_Subset
    <3>3. Cardinality(Counted(l) \cup {p}) = Cardinality(Counted(l)) + 1
      BY <2>8, <3>2, FS_AddElement
    <3> QED
      BY <1>1, <2>1, <2>4, <2>8, <3>3 DEF InChunks, LinesInv, Types
  <2>10. stage'[Task(l, 0)] = "none" /\ \A q \in 1..Streams : stage'[Task(l, q)] # "none"
    BY <2>1, <2>2, <2>4, <2>6, <2>7 DEF InChunks
  <2>11. done'[l] # Streams => \A q \in 1..Streams : ~Composing(Task(l, q))'
    BY <1>1, <2>1, <2>2, <2>3, <2>6, TaskNames DEF Composing, LinesInv, Types
  <2>12. done'[l] = Streams => Composing(Task(l, p))'
    BY <1>1, <2>1 DEF Composing, LinesInv, Types
  <2>13. LineOK(l)'
    BY <1>1, <2>4, <2>5, <2>9, <2>10, <2>11, <2>12 DEF LineOK, InChunks
  <2>14. ASSUME NEW k \in 1..MaxLines, k # l PROVE LineOK(k)'
    BY <1>1, <1>4, <2>1, <2>14, OtherTasks DEF LinesInv, Types
  <2>15. \A u \in Tasks : Composing(u)' => mu' = u
    BY <1>1, <2>3 DEF Composing, LinesInv, Types
  <2> QED
    BY <1>2, <1>3, <2>13, <2>14, <2>15 DEF LinesInv
<1>5. CASE exit = "failed"
  BY <1>1, <1>2, <1>3, <1>5 DEF LinesInv, Open
<1> QED
  BY <1>4, <1>5 DEF Alive, Open

(* ReplyComposed: the chunk that composed answers for all of them, which have
   finished. *)
LEMMA ReplyComposedStep ==
    ASSUME LinesInv, Alive, NEW t \in Tasks, ReplyComposed(t)
    PROVE  LinesInv' /\ [Abstract!Next]_(Abstract!avars)
<1>1. /\ stage[t] = "composed" /\ Composing(t)
      /\ exit' = exit /\ next' = next /\ n' = n /\ cmd' = cmd
      /\ done' = done /\ mu' = None /\ stage' = [stage EXCEPT ![t] = "finished"]
      /\ \E e : Answer(t.line, e)
  BY DEF ReplyComposed, reader, chunks, Goto, Composing
<1>2. Types' /\ Cleared'
  BY <1>1 DEF LinesInv, Types, Cleared, Exits, Alive, NumLines, Answer, Stages
<1>3. CASE exit = "failed"
  BY <1>1, <1>2, <1>3, Stutters DEF Answer, LinesInv, Open
<1>4. CASE Open
  <2>0. 0 \in 0..Streams /\ \A q \in 1..Streams : q \in 0..Streams /\ q # 0
    BY ParametersAssumption
  <2>1. PICK l \in 1..MaxLines, p \in 0..Streams : l = t.line /\ p = t.part /\ t = Task(l, p)
    BY TaskNames
  <2>2. ~(l >= next) /\ InChunks(l) /\ p # 0 /\ p \in 1..Streams
    <3>1. LineOK(l) /\ (p = 0 \/ p \in 1..Streams)
      BY <1>4, ParametersAssumption DEF LinesInv
    <3> QED
      BY <1>1, <2>0, <2>1, <3>1 DEF LineOK, NoTask, WholeFile, InChunks, Composing
  <2>3. answers[l] = <<>> /\ done[l] = Streams
    BY <1>1, <2>1, <2>2 DEF InChunks
  <2>4. /\ DOMAIN answers' = 1..MaxLines /\ answers'[l] # <<>> /\ Len(answers'[l]) = 1
        /\ \A k \in 1..MaxLines : k # l => answers'[k] = answers[k]
    BY <1>1, <1>4, <2>1, <2>3, OneAnswer DEF Answer, LinesInv, Types, Open
  <2>5. \A q \in 1..Streams : q # p => stage[Task(l, q)] = "finished"
    <3>2. Counted(l) = 1..Streams
      BY <2>2, <2>3, ChunkCount, FS_Subset DEF InChunks
    <3>3. \A q \in 1..Streams : Composing(Task(l, q)) => Task(l, q) = t
      BY <1>1, <1>4, <2>0, TaskNames DEF LinesInv
    <3>4. \A q \in 1..Streams : Composing(Task(l, q)) => q = p
      BY <2>0, <2>1, <3>3, TaskNames
    <3> QED
      BY <3>2, <3>4 DEF Counted, Composing
  <2>6. /\ stage'[Task(l, 0)] = "none"
        /\ \A q \in 1..Streams : stage'[Task(l, q)] = "finished"
    BY <1>1, <2>0, <2>1, <2>2, <2>5, TaskNames DEF LinesInv, Types, InChunks
  <2>7. LineOK(l)'
    <3>1. Counted(l)' = Counted(l)
      BY <1>1, <2>1, <2>5, <2>6 DEF Counted
    <3> QED
      BY <1>1, <2>2, <2>3, <2>4, <2>6, <3>1 DEF LineOK, InChunks, Composing
  <2>8. ASSUME NEW k \in 1..MaxLines, k # l PROVE LineOK(k)'
    BY <1>1, <1>4, <2>1, <2>4, <2>8, OtherTasks
  <2>9. \A u \in Tasks : ~Composing(u)'
    BY <1>1, <1>4 DEF LinesInv, Types, Composing
  <2>10. LinesInv'
    BY <1>2, <2>7, <2>8, <2>9 DEF LinesInv
  <2>11. l \in Taken /\ Taken' = Taken \ {l} /\ Replies' = [Replies EXCEPT ![l] = 1]
    <3>1. l \in Taken /\ Taken' = Taken \ {l}
      BY <1>1, <1>4, <2>2, <2>3, <2>4, ParametersAssumption DEF Taken, Open, LinesInv, Types
    <3> QED
      BY <2>4, <3>1 DEF Replies
  <2>12. Abstract!Reply(l)
    BY <1>1, <1>4, <2>11, OverIs DEF Abstract!Reply, Open
  <2> QED
    BY <2>10, <2>12 DEF Abstract!Next
<1> QED
  BY <1>3, <1>4 DEF Alive, Open
(* The steps of a worker that neither answer nor count. *)
LEMMA WorkerStep ==
    ASSUME LinesInv, Alive, NEW t \in Tasks,
           \/ StartTask(t) \/ LabelFile(t) \/ OpenFile(t) \/ UploadFile(t)
           \/ ComposeChunks(t) \/ DeleteChunks(t)
           \/ RestoreFile(t) \/ InquireFiles(t) \/ DeleteObject(t)
    PROVE  LinesInv' /\ [Abstract!Next]_(Abstract!avars)
<1>1. UNCHANGED <<reader, mu, done, answers>>
  BY DEF StartTask, LabelFile, OpenFile, UploadFile, ComposeChunks, DeleteChunks, RestoreFile,
         InquireFiles, DeleteObject, chunks
<1>2. PICK s \in Stages :
        /\ stage' = [stage EXCEPT ![t] = s]
        /\ \/ stage[t] \in Working /\ s \in Working
           \/ stage[t] \in Composes /\ s \in Composes
  BY DEF StartTask, LabelFile, OpenFile, UploadFile, ComposeChunks, DeleteChunks, RestoreFile,
         InquireFiles, DeleteObject, Goto, Stages, Working, Composes
<1>3. LinesInv'
  BY <1>1, <1>2, MovesKeep
<1> QED
  BY <1>1, <1>3, Stutters DEF reader

------------------------------------------------------------------------------
(* The command answers each request once: every behaviour of Backint, seen from
   the requests, starts and goes on as RequestAnswers allows.  (That it ends, the
   fairness of RequestAnswers, is checked by TLC.) *)
LEMMA LinesInit == Init => LinesInv /\ Abstract!Init
<1> SUFFICES ASSUME Init PROVE LinesInv /\ Abstract!Init
  OBVIOUS
<1>1. /\ n = 0 /\ exit = "ok" /\ next = 1 /\ mu = None /\ stage = [t \in Tasks |-> "none"]
      /\ done = [l \in 1..MaxLines |-> 0] /\ answers = [l \in 1..MaxLines |-> <<>>]
      /\ cmd.lines = <<>>
  BY DEF Init
<1>2. MaxLines \in Nat /\ Len(<<>>) = 0
  BY ParametersAssumption
<1>3. NumLines \in 0..MaxLines /\ next \in 1..(MaxLines + 1)
  BY <1>1, <1>2 DEF NumLines
<1>4. LinesInv
  BY <1>1, <1>3 DEF LinesInv, Types, Cleared, Exits, Stages, Alive, Open
<1>5. Taken = {} /\ Replies = [r \in 1..MaxLines |-> 0]
  BY <1>1, <1>2 DEF Taken, Replies
<1> QED
  BY <1>1, <1>4, <1>5, OverIs DEF Abstract!Init

(* Each step of Backint is a step of the requests, or none. *)
LEMMA LinesNext ==
    LinesInv /\ [Next]_vars => LinesInv' /\ [Abstract!Next]_(Abstract!avars)
<1> SUFFICES ASSUME LinesInv, [Next]_vars
             PROVE  LinesInv' /\ [Abstract!Next]_(Abstract!avars)
  OBVIOUS
<1>1. CASE Begin
  BY <1>1, BeginStep DEF Abstract!Next
<1>2. CASE ReadLine
  BY <1>2, ReadLineStep
<1>3. CASE EndCommand
  BY <1>3, EndCommandStep DEF Abstract!Next
<1>4. CASE FailCommand
  BY <1>4, FailCommandStep DEF Abstract!Next
<1>5. CASE EndProcess
  BY <1>5, EndProcessStep
<1>6. ASSUME Alive, NEW t \in Tasks, TaskStep(t)
      PROVE  LinesInv' /\ [Abstract!Next]_(Abstract!avars)
  BY <1>6, WorkerStep, ReplyWholeStep, CountChunkStep, ReplyComposedStep DEF TaskStep
<1>7. CASE UNCHANGED vars
  <2>1. /\ exit' = exit /\ next' = next /\ n' = n /\ cmd' = cmd /\ answers' = answers
        /\ stage' = stage /\ done' = done /\ mu' = mu
    BY <1>7 DEF vars
  <2>2. Types' /\ Cleared' /\ (Open' => \A t \in Tasks : Composing(t)' => mu' = t)
    BY <2>1 DEF LinesInv, Types, Cleared, Alive, NumLines, Open, Composing
  <2>3. ASSUME Open', NEW l \in 1..MaxLines PROVE LineOK(l)'
    BY <2>1, <2>3, SameShape DEF LinesInv, Open, Composing
  <2> QED
    BY <2>1, <2>2, <2>3, Stutters DEF LinesInv
<1> QED
  BY <1>1, <1>2, <1>3, <1>4, <1>5, <1>6, <1>7 DEF Next

(* Between any two states of a command the lines are in order: handed to the pool
   whole or in chunks, counted and answered, with one chunk at most composing. *)
THEOREM LinesInOrder == Spec => []LinesInv
<1> QED
  BY LinesInit, LinesNext, PTL DEF Spec

(* Every request is answered at most once and only after it was taken, and a
   command ends well only when each has its answer, for any number of lines,
   streams, threads and commands: Backint implements RequestAnswers. *)
THEOREM AnswersEachOnce == Spec => Abstract!Init /\ [][Abstract!Next]_(Abstract!avars)
<1> QED
  BY LinesInit, LinesNext, LinesInOrder, PTL DEF Spec

------------------------------------------------------------------------------
(* Sequences and their last elements. *)

(* The elements of a sequence. *)
Elements(s) == {s[i] : i \in DOMAIN s}

(* A sequence is one of its own elements. *)
LEMMA OwnElements ==
    ASSUME NEW R, NEW s \in Seq(R)
    PROVE  /\ s \in Seq(Elements(s)) /\ DOMAIN s = 1..Len(s) /\ Len(s) \in Nat
           /\ \A i \in 1..Len(s) : s[i] \in Elements(s)
           /\ \A e \in Elements(s) : e \in R /\ \E i \in 1..Len(s) : e = s[i]
<1>1. DOMAIN s = 1..Len(s) /\ Len(s) \in Nat
  OBVIOUS
<1>2. \A i \in 1..Len(s) : s[i] \in Elements(s) /\ s[i] \in R
  BY <1>1 DEF Elements
<1>3. s = [i \in 1..Len(s) |-> s[i]]
  BY <1>1
<1>4. s \in [1..Len(s) -> Elements(s)]
  BY <1>2, <1>3
<1>5. s \in Seq(Elements(s))
  BY <1>1, <1>4
<1> QED
  BY <1>1, <1>2, <1>5 DEF Elements

(* Append adds one element, at the end. *)
LEMMA AppendedElements ==
    ASSUME NEW s, s \in Seq(Elements(s)), NEW e
    PROVE  /\ Append(s, e) \in Seq(Elements(Append(s, e)))
           /\ Elements(Append(s, e)) = Elements(s) \cup {e}
           /\ Len(Append(s, e)) = Len(s) + 1 /\ Append(s, e)[Len(s) + 1] = e
           /\ \A i \in 1..Len(s) : Append(s, e)[i] = s[i]
<1> DEFINE R == Elements(s) \cup {e}
           q == Append(s, e)
<1>1. s \in Seq(R) /\ e \in R
  OBVIOUS
<1> HIDE DEF R
<1>2. q \in Seq(R) /\ Len(q) = Len(s) + 1 /\ q[Len(s) + 1] = e /\ \A i \in 1..Len(s) : q[i] = s[i]
  BY <1>1
<1>3. Len(s) \in Nat /\ DOMAIN s = 1..Len(s)
  BY <1>1
<1> HIDE DEF q
<1>4. q \in Seq(Elements(q)) /\ DOMAIN q = 1..Len(q) /\ \A x \in Elements(q) : x \in R
  BY <1>2, OwnElements
<1>5. Len(s) + 1 \in 1..Len(q) /\ \A i \in 1..Len(s) : i \in 1..Len(q)
  BY <1>2, <1>3
<1>6. \A x \in R : x \in Elements(q)
  <2>1. e \in Elements(q)
    BY <1>2, <1>4, <1>5 DEF Elements
  <2>2. ASSUME NEW x \in Elements(s) PROVE x \in Elements(q)
    <3>1. PICK i \in 1..Len(s) : x = s[i]
      BY <1>3, <2>2 DEF Elements
    <3> QED
      BY <1>2, <1>4, <1>5, <3>1 DEF Elements
  <2> QED
    BY <2>1, <2>2 DEF R
<1>7. Elements(q) = R
  BY <1>4, <1>6
<1> QED
  BY <1>2, <1>4, <1>7 DEF R, q

(* What is kept of a sequence is a sequence of the elements that are to be kept. *)
LEMMA KeptIs ==
    ASSUME NEW s, s \in Seq(Elements(s)), NEW S
    PROVE  /\ Kept(s, S) \in Seq(Elements(Kept(s, S)))
           /\ Elements(Kept(s, S)) = Elements(s) \cap S
<1> DEFINE q == Kept(s, S)
<1>1. q \in Seq(Elements(s)) /\ \E f : Selects(f, q, Len(s), s, S)
  BY KeptSelects
<1>2. PICK f : Selects(f, q, Len(s), s, S)
  BY <1>1
<1> HIDE DEF q
<1>3. q \in Seq(Elements(q)) /\ DOMAIN q = 1..Len(q) /\ \A x \in Elements(q) : x \in Elements(s)
  BY <1>1, OwnElements
<1>4. DOMAIN s = 1..Len(s)
  OBVIOUS
<1>5. \A x \in Elements(q) : x \in S
  BY <1>2, <1>3, SMTT(30) DEF Elements, Selects
<1>6. ASSUME NEW x \in Elements(s), x \in S PROVE x \in Elements(q)
  <2>1. PICK i \in 1..Len(s) : x = s[i]
    BY <1>4 DEF Elements
  <2>2. PICK k \in 1..Len(q) : f[k] = i
    BY <1>2, <1>6, <2>1 DEF Selects
  <2>3. q[k] = x
    BY <1>2, <2>1, <2>2 DEF Selects
  <2> QED
    BY <1>3, <2>3 DEF Elements
<1> QED
  BY <1>3, <1>5, <1>6 DEF q

(* e is the last element of s that is in P. *)
LastIs(s, P, e) == \E i \in 1..Len(s) : s[i] = e /\ e \in P /\ \A j \in 1..Len(s) : j > i => s[j] \notin P

(* The last element in P stays the last when others are dropped. *)
LEMMA LastKept ==
    ASSUME NEW s, s \in Seq(Elements(s)), NEW S, NEW P, NEW e, LastIs(s, P, e), e \in S
    PROVE  LastIs(Kept(s, S), P, e)
<1> DEFINE q == Kept(s, S)
<1>1. q \in Seq(Elements(s)) /\ \E f : Selects(f, q, Len(s), s, S)
  BY KeptSelects
<1>2. PICK f : Selects(f, q, Len(s), s, S)
  BY <1>1
<1> HIDE DEF q
<1>3. PICK i \in 1..Len(s) : s[i] = e /\ e \in P /\ \A j \in 1..Len(s) : j > i => s[j] \notin P
  BY DEF LastIs
<1>4. PICK k \in 1..Len(q) : f[k] = i
  BY <1>2, <1>3 DEF Selects
<1>5. q[k] = e
  BY <1>2, <1>3, <1>4 DEF Selects
<1>6. ASSUME NEW j \in 1..Len(q), j > k PROVE q[j] \notin P
  <2>1. Len(q) \in Nat /\ Len(s) \in Nat
    BY <1>1
  <2>2. f[k] < f[j] /\ f[j] \in 1..Len(s)
    BY <1>2, <1>6, <2>1 DEF Selects
  <2>3. f[j] > i
    BY <1>4, <2>1, <2>2
  <2>4. q[j] = s[f[j]]
    BY <1>2 DEF Selects
  <2> QED
    BY <1>3, <2>2, <2>3, <2>4
<1>7. LastIs(q, P, e)
  BY <1>3, <1>5, <1>6 DEF LastIs
<1> QED
  BY <1>7 DEF q

(* An appended element is the last in P if it is in P, and changes nothing
   otherwise. *)
LEMMA LastAppended ==
    ASSUME NEW s, s \in Seq(Elements(s)), NEW P, NEW e, NEW o,
           \/ LastIs(s, P, e) /\ o \notin P
           \/ o = e /\ e \in P
    PROVE  LastIs(Append(s, o), P, e)
<1> DEFINE q == Append(s, o)
<1>1. Len(q) = Len(s) + 1 /\ q[Len(s) + 1] = o /\ Len(s) \in Nat /\ \A i \in 1..Len(s) : q[i] = s[i]
  BY AppendedElements, OwnElements
<1> HIDE DEF q
<1>2. CASE LastIs(s, P, e) /\ o \notin P
  <2>1. PICK i \in 1..Len(s) : s[i] = e /\ e \in P /\ \A j \in 1..Len(s) : j > i => s[j] \notin P
    BY <1>2 DEF LastIs
  <2>2. i \in 1..Len(q)
    BY <1>1
  <2>3. ASSUME NEW j \in 1..Len(q), j > i PROVE q[j] \notin P
    <3>1. j \in 1..Len(s) \/ j = Len(s) + 1
      BY <1>1
    <3> QED
      BY <1>1, <1>2, <2>1, <2>3, <3>1
  <2>4. LastIs(q, P, e)
    BY <1>1, <2>1, <2>2, <2>3 DEF LastIs
  <2> QED
    BY <2>4 DEF q
<1>3. CASE o = e /\ e \in P
  <2>1. Len(q) \in 1..Len(q) /\ \A j \in 1..Len(q) : ~(j > Len(q))
    BY <1>1
  <2>2. LastIs(q, P, e)
    BY <1>1, <1>3, <2>1 DEF LastIs
  <2> QED
    BY <2>2 DEF q
<1> QED
  BY <1>2, <1>3

(* The last element in P is the last of those kept. *)
LEMMA LastOfKept ==
    ASSUME NEW s, s \in Seq(Elements(s)), NEW P, NEW e, LastIs(s, P, e)
    PROVE  Kept(s, P) # <<>> /\ Kept(s, P)[Len(Kept(s, P))] = e
<1> DEFINE q == Kept(s, P)
<1>1. LastIs(q, P, e) /\ q \in Seq(Elements(q)) /\ Elements(q) = Elements(s) \cap P
  BY LastKept, KeptIs DEF LastIs
<1> HIDE DEF q
<1>2. PICK i \in 1..Len(q) : q[i] = e /\ \A j \in 1..Len(q) : j > i => q[j] \notin P
  BY <1>1 DEF LastIs
<1>3. Len(q) \in Nat /\ Len(q) \in 1..Len(q) /\ DOMAIN q = 1..Len(q) /\ Len(<<>>) = 0
  BY <1>1
<1>4. q[Len(q)] \in P
  BY <1>1, <1>3 DEF Elements
<1>5. i = Len(q)
  <2>1. ~(Len(q) > i)
    BY <1>2, <1>3, <1>4
  <2>2. i \in 1..Len(q) /\ Len(q) \in Nat
    BY <1>3
  <2> QED
    BY <2>1, <2>2
<1>6. q # <<>> /\ q[Len(q)] = e
  BY <1>2, <1>3, <1>5
<1> QED
  BY <1>6 DEF q

------------------------------------------------------------------------------
(* What was saved is restorable: the inductive invariant. *)

(* The latest of the objects of file f and backup id in bucket b is the object
   itself, whole, and has the type of its request unless uploads share a map. *)
WholeIn(b, untyped, f, id) ==
    \E i \in 1..Len(b) :
      /\ b[i].file = f /\ b[i].id = id /\ b[i].part = 0 /\ b[i].whole
      /\ untyped \/ b[i].type = b[i].kind
      /\ \A j \in 1..Len(b) : j > i => ~(b[j].file = f /\ b[j].id = id)
(* A restore by the ID delivers the file. *)
Restorable(f, id) == WholeIn(bucket, shared, f, id)

(* The file of a line. *)
FileOf(l) == cmd.lines[l].file
(* A line that stores a file or what a pipe delivers. *)
Upload(l) == cmd.lines[l].op \in {"FILE", "PIPE"}
(* The objects this backup command has made for a line. *)
OfLine(l) == {o \in InBucket : o.file = FileOf(l) /\ o.id = n}
(* A backup command is at work. *)
Storing == Alive /\ cmd.fn = "BACKUP"

(* No two lines of a backup name one file. *)
Unlike(in) ==
    in.fn = "BACKUP" =>
      \A l, k \in 1..Len(in.lines) :
        in.lines[l].op \in {"FILE", "PIPE"} /\ in.lines[k].op \in {"FILE", "PIPE"} /\ in.lines[l].file = in.lines[k].file
          => l = k

(* HANA names each file once in the input of a backup. *)
FilesAreDistinct == \A i \in DOMAIN Inputs : \A in \in Inputs[i] : Unlike(in)

(* Object names are unique, IDs are numbers of commands up to this one, and an
   object has the type of its request unless uploads share a map. *)
StoreTypes ==
    /\ bucket \in Seq(InBucket)
    /\ \A o, p \in InBucket : SameName(o, p) => o = p
    /\ \A o \in InBucket : o.part \in 0..Streams /\ o.id \in Nat /\ o.id <= n /\ (~shared => o.type = o.kind)
    /\ \A s \in saved : s = <<s[1], s[2]>> /\ s[2] \in Nat /\ s[2] <= n
    /\ \A l \in 1..MaxLines : answers[l] \in Seq(Elements(answers[l]))
    /\ DOMAIN result = Tasks
    /\ Alive => Unlike(cmd)
    /\ Storing => \A l \in 1..(next - 1) : Upload(l)

(* A line has no task before it is read, and then one task or one for each chunk;
   done counts its chunks, and the one that composes is the last. *)
LineTasks(l) ==
    /\ done[l] = Cardinality(Counted(l))
    /\ l >= next => \A p \in 0..Streams : stage[Task(l, p)] = "none"
    /\ stage[Task(l, 0)] # "none" => \A p \in 1..Streams : stage[Task(l, p)] = "none"
    /\ ~Composing(Task(l, 0))
    /\ \A p, q \in 1..Streams : stage[Task(l, p)] # "none" => stage[Task(l, q)] # "none"
    /\ \A p, q \in 1..Streams : p # q /\ Composing(Task(l, p)) => stage[Task(l, q)] = "finished"

(* The tasks of every line are in order and only the holder of the mutex composes;
   other functions have one task for a line. *)
TasksInv ==
    /\ \A t \in Tasks : Composing(t) => mu = t
    /\ \A l \in 1..MaxLines : LineTasks(l)
    /\ cmd.fn # "BACKUP" =>
         \A t \in Tasks : /\ stage[t] \in {"none", "queued", "work", "reply", "finished"}
                          /\ t.part # 0 => stage[t] = "none"

(* An object with the ID of this command was made for a line that has been read, a
   chunk by the task for it. *)
OwnersInv ==
    \A o \in InBucket : Alive /\ o.id = n =>
      /\ cmd.fn = "BACKUP"
      /\ \E l \in 1..(next - 1) :
           /\ FileOf(l) = o.file /\ cmd.lines[l].op = o.kind
           /\ o.part # 0 => stage[Task(l, o.part)] # "none"

(* A task is at work on the file. *)
Attempted(f) == \E t \in Tasks : stage[t] \notin {"none", "finished"} /\ Line(t).file = f
(* What is not a whole object is being worked on, or its file is tainted. *)
LeftInv ==
    \A o \in InBucket : o.file \notin tainted =>
      \/ o.whole /\ o.part = 0
      \/ Storing /\ o.id = n /\ Attempted(o.file)

(* The stages before a file is composed. *)
Unfinished == {"queued", "label", "open", "upload", "work", "reply", "compose"}
(* Chunk p of the line was uploaded and is needed: its task is about to report it,
   or has, no chunk failed and the line is not composed. *)
HasChunk(l, p) ==
    \/ stage[Task(l, p)] = "reply" /\ result[Task(l, p)].verdict = "SAVED"
    \/ /\ stage[Task(l, p)] \in {"finished", "compose"} /\ l \notin chunkError
       /\ \E q \in 1..Streams : stage[Task(l, q)] \in Unfinished
(* What is in the bucket for a line: the object when an upload is about to be
   answered #SAVED, each chunk that is needed, and the composed object when no chunk
   failed, without chunks if all were deleted. *)
LineStored(l) ==
    /\ stage[Task(l, 0)] = "reply" /\ result[Task(l, 0)].verdict = "SAVED" =>
         Restorable(FileOf(l), n) /\ \A o \in OfLine(l) : o.part = 0 /\ o.whole
    /\ \A p \in 1..Streams : HasChunk(l, p) => \E o \in OfLine(l) : o.part = p /\ o.whole
    /\ \A p \in 1..Streams : stage[Task(l, p)] \in {"clean", "composed"} /\ l \notin chunkError =>
         Restorable(FileOf(l), n) /\ \A o \in OfLine(l) : o.part = 0 => o.whole
    /\ \A p \in 1..Streams : stage[Task(l, p)] = "composed" /\ l \notin chunkError /\ FileOf(l) \notin tainted =>
         \A o \in OfLine(l) : o.part = 0
(* This holds for every line of a backup, and uploads succeed or fail. *)
StoredInv ==
    Storing => /\ \A l \in 1..MaxLines : LineStored(l)
               /\ \A t \in Tasks : stage[t] = "reply" => result[t].verdict \in {"SAVED", "ERROR"}

(* What was answered #SAVED can be restored, and no task is at work on it. *)
SavedInv ==
    \A s \in saved :
      /\ Restorable(s[1], s[2])
      /\ Alive /\ s[2] = n =>
           /\ cmd.fn = "BACKUP"
           /\ \E l \in 1..(next - 1) : /\ FileOf(l) = s[1]
                                       /\ \A p \in 0..Streams : stage[Task(l, p)] \in {"none", "finished"}

(* A restore that succeeded has delivered whole data unless the file is tainted. *)
Sound(e) == e.verdict = "RESTORED" /\ e.object.file \notin tainted => e.object.whole /\ e.object.part = 0
(* Restores are sound when they are answered and before. *)
AnswersInv ==
    /\ \A t \in Tasks : stage[t] = "reply" => Sound(result[t])
    /\ \A l \in 1..MaxLines : \A e \in Elements(answers[l]) : Sound(e)

(* The inductive invariant of the bucket. *)
StoreInv ==
    /\ StoreTypes /\ TasksInv /\ OwnersInv /\ LeftInv /\ StoredInv /\ SavedInv /\ AnswersInv

------------------------------------------------------------------------------
(* The bucket. *)

(* The objects of a file and a backup ID. *)
Named(b, f, id) == {o \in Elements(b) : o.file = f /\ o.id = id}
(* An object that can be restored. *)
Good(e, untyped) == e.part = 0 /\ e.whole /\ (untyped \/ e.type = e.kind)

(* WholeIn in terms of the last object. *)
LEMMA WholeIs ==
    ASSUME NEW b, b \in Seq(Elements(b)), NEW u, NEW f, NEW id
    PROVE  WholeIn(b, u, f, id) <=> \E e : LastIs(b, Named(b, f, id), e) /\ Good(e, u)
<1>1. DOMAIN b = 1..Len(b) /\ \A i \in 1..Len(b) : b[i] \in Elements(b)
  BY DEF Elements
<1>2. \A i \in 1..Len(b) : b[i] \in Named(b, f, id) <=> b[i].file = f /\ b[i].id = id
  BY <1>1 DEF Named
<1>3. ASSUME WholeIn(b, u, f, id) PROVE \E e : LastIs(b, Named(b, f, id), e) /\ Good(e, u)
  <2>1. PICK i \in 1..Len(b) :
      /\ b[i].file = f /\ b[i].id = id /\ b[i].part = 0 /\ b[i].whole
      /\ u \/ b[i].type = b[i].kind
      /\ \A j \in 1..Len(b) : j > i => ~(b[j].file = f /\ b[j].id = id)
    BY <1>3 DEF WholeIn
  <2>2. LastIs(b, Named(b, f, id), b[i]) /\ Good(b[i], u)
    BY <1>2, <2>1 DEF LastIs, Good
  <2> QED
    BY <2>2
<1>4. ASSUME NEW e, LastIs(b, Named(b, f, id), e), Good(e, u) PROVE WholeIn(b, u, f, id)
  <2>1. PICK i \in 1..Len(b) :
          b[i] = e /\ e \in Named(b, f, id) /\ \A j \in 1..Len(b) : j > i => b[j] \notin Named(b, f, id)
    BY <1>4 DEF LastIs
  <2> QED
    BY <1>2, <1>4, <2>1 DEF WholeIn, Good
<1> QED
  BY <1>3, <1>4

(* Removing objects other than the object itself leaves it restorable. *)
LEMMA WholeKept ==
    ASSUME NEW b, b \in Seq(Elements(b)), NEW S, NEW u, NEW f, NEW id, WholeIn(b, u, f, id),
           \A o \in Elements(b) : o.file = f /\ o.id = id /\ o.part = 0 => o \in S
    PROVE  WholeIn(Kept(b, S), u, f, id)
<1> DEFINE k == Kept(b, S)
<1>1. PICK e : LastIs(b, Named(b, f, id), e) /\ Good(e, u)
  BY WholeIs
<1>2. e \in S
  BY <1>1 DEF LastIs, Named, Good
<1>3. LastIs(k, Named(b, f, id), e)
  BY <1>1, <1>2, LastKept
<1>4. k \in Seq(Elements(k)) /\ Elements(k) = Elements(b) \cap S
  BY KeptIs
<1> HIDE DEF k
<1>5. DOMAIN k = 1..Len(k)
  BY <1>4
<1>6. \A j \in 1..Len(k) : k[j] \in Elements(k)
  BY <1>5 DEF Elements
<1>7. \A x \in Elements(k) : x \in Named(k, f, id) <=> x \in Named(b, f, id)
  BY <1>4 DEF Named
<1>8. LastIs(k, Named(k, f, id), e)
  BY <1>3, <1>6, <1>7 DEF LastIs
<1>9. WholeIn(k, u, f, id)
  BY <1>1, <1>4, <1>8, WholeIs
<1> QED
  BY <1>9 DEF k

(* A new object leaves other files as they are and makes its own restorable if it is
   good. *)
LEMMA WholeAppended ==
    ASSUME NEW b, b \in Seq(Elements(b)), NEW o, NEW u, NEW f, NEW id,
           \/ WholeIn(b, u, f, id) /\ ~(o.file = f /\ o.id = id)
           \/ o.file = f /\ o.id = id /\ Good(o, u)
    PROVE  WholeIn(Append(b, o), u, f, id)
<1> DEFINE k == Append(b, o)
<1>1. k \in Seq(Elements(k)) /\ Elements(k) = Elements(b) \cup {o}
  BY AppendedElements
<1>2. PICK e : LastIs(k, Named(b, f, id) \cup (IF o.file = f /\ o.id = id THEN {o} ELSE {}), e) /\ Good(e, u)
  <2>1. CASE WholeIn(b, u, f, id) /\ ~(o.file = f /\ o.id = id)
    <3>1. PICK e : LastIs(b, Named(b, f, id), e) /\ Good(e, u)
      BY <2>1, WholeIs
    <3>2. o \notin Named(b, f, id)
      BY <2>1 DEF Named
    <3>3. LastIs(k, Named(b, f, id), e)
      BY <3>1, <3>2, LastAppended
    <3>4. Named(b, f, id) \cup (IF o.file = f /\ o.id = id THEN {o} ELSE {}) = Named(b, f, id)
      BY <2>1
    <3> QED
      BY <3>1, <3>3, <3>4, Zenon
  <2>2. CASE o.file = f /\ o.id = id /\ Good(o, u)
    <3>1. o \in Named(b, f, id) \cup (IF o.file = f /\ o.id = id THEN {o} ELSE {})
      BY <2>2
    <3>2. LastIs(k, Named(b, f, id) \cup (IF o.file = f /\ o.id = id THEN {o} ELSE {}), o)
      BY <3>1, LastAppended
    <3> QED
      BY <2>2, <3>2
  <2> QED
    BY <2>1, <2>2
<1> HIDE DEF k
<1>3. Named(k, f, id) = Named(b, f, id) \cup (IF o.file = f /\ o.id = id THEN {o} ELSE {})
  BY <1>1 DEF Named
<1>4. WholeIn(k, u, f, id)
  BY <1>1, <1>2, <1>3, WholeIs
<1> QED
  BY <1>4 DEF k

(* The bucket changes for one file and backup ID only. *)
Touches(f, id) ==
    /\ bucket' \in Seq(InBucket')
    /\ \A g, i : ~(g = f /\ i = id) /\ Restorable(g, i) => Restorable(g, i)'
    /\ \A o : ~(o.file = f /\ o.id = id) => (o \in InBucket <=> o \in InBucket')

(* The objects in the bucket are its elements. *)
LEMMA InBucketIs == InBucket = Elements(bucket) /\ InBucket' = Elements(bucket')
BY DEF InBucket, Elements

(* What a removal from the bucket changes. *)
LEMMA RemovalIs ==
    ASSUME bucket \in Seq(InBucket), shared' = shared, NEW S, bucket' = Dropped(bucket, S)
    PROVE  /\ bucket' \in Seq(InBucket') /\ InBucket' = InBucket \ S
           /\ \A f, i : Restorable(f, i) /\ (\A o \in S : ~(o.file = f /\ o.id = i /\ o.part = 0)) => Restorable(f, i)'
<1>1. bucket' = Kept(bucket, InBucket \ S)
  BY DEF Dropped, InBucket
<1>2. bucket' \in Seq(InBucket') /\ InBucket' = InBucket \ S
  BY <1>1, InBucketIs, KeptIs
<1>3. ASSUME NEW f, NEW i, Restorable(f, i), \A o \in S : ~(o.file = f /\ o.id = i /\ o.part = 0)
      PROVE  Restorable(f, i)'
  <2>1. \A o \in Elements(bucket) : o.file = f /\ o.id = i /\ o.part = 0 => o \in InBucket \ S
    BY <1>3, InBucketIs
  <2>2. WholeIn(bucket', shared, f, i)
    BY <1>1, <1>3, <2>1, InBucketIs, WholeKept DEF Restorable
  <2> QED
    BY <2>2 DEF Restorable
<1> QED
  BY <1>2, <1>3

(* What storing an object changes. *)
LEMMA PutIs ==
    ASSUME bucket \in Seq(InBucket), shared' = shared, NEW o, Put(o)
    PROVE  /\ Touches(o.file, o.id)
           /\ InBucket' = {p \in InBucket : ~SameName(o, p)} \cup {o}
           /\ Good(o, shared) => Restorable(o.file, o.id)'
<1> DEFINE S == {p \in InBucket : SameName(o, p)}
           k == Kept(bucket, InBucket \ S)
<1>1. bucket' = Append(k, o)
  BY DEF Put, Dropped, InBucket
<1>2. k \in Seq(Elements(k)) /\ Elements(k) = InBucket \ S
  BY InBucketIs, KeptIs
<1>3. \A g, i : ~(g = o.file /\ i = o.id) /\ WholeIn(bucket, shared, g, i) => WholeIn(k, shared, g, i)
  <2>1. TAKE g, i
  <2>2. HAVE ~(g = o.file /\ i = o.id) /\ WholeIn(bucket, shared, g, i)
  <2>3. \A x \in Elements(bucket) : x.file = g /\ x.id = i /\ x.part = 0 => x \in InBucket \ S
    BY <2>2, InBucketIs DEF SameName
  <2> HIDE DEF S
  <2> QED
    BY <2>2, <2>3, InBucketIs, WholeKept
<1> HIDE DEF k
<1>4. bucket' \in Seq(InBucket') /\ InBucket' = (InBucket \ S) \cup {o}
  BY <1>1, <1>2, InBucketIs, AppendedElements
<1>5. ASSUME NEW g, NEW i, ~(g = o.file /\ i = o.id), Restorable(g, i) PROVE Restorable(g, i)'
  <2>1. WholeIn(k, shared, g, i)
    BY <1>3, <1>5 DEF Restorable
  <2>2. WholeIn(bucket', shared, g, i)
    BY <1>1, <1>2, <1>5, <2>1, WholeAppended
  <2> QED
    BY <2>2 DEF Restorable
<1>6. ASSUME Good(o, shared) PROVE Restorable(o.file, o.id)'
  <2>1. WholeIn(bucket', shared, o.file, o.id)
    BY <1>1, <1>2, <1>6, WholeAppended
  <2> QED
    BY <2>1 DEF Restorable
<1>7. \A x : ~(x.file = o.file /\ x.id = o.id) => (x \in InBucket <=> x \in InBucket')
  BY <1>4 DEF SameName
<1> QED
  BY <1>4, <1>5, <1>6, <1>7 DEF Touches

------------------------------------------------------------------------------
(* The tasks of a line. *)

(* Part 0 is the object itself, the others are chunks. *)
LEMMA PartsAre ==
    /\ 0 \in 0..Streams /\ \A p \in 1..Streams : p \in 0..Streams /\ p # 0
    /\ \A p \in 0..Streams : p = 0 \/ p \in 1..Streams
BY ParametersAssumption

(* A task that composes is at work. *)
LEMMA ComposingIs == \A t : Composing(t) => stage[t] # "none" /\ stage[t] # "finished"
BY DEF Composing

(* A line whose tasks do not start, finish or compose is in order as before. *)
LEMMA TasksAlike ==
    ASSUME NEW l \in 1..MaxLines, LineTasks(l), done'[l] = done[l], l >= next' => l >= next,
           \A p \in 0..Streams : /\ stage'[Task(l, p)] = "none" <=> stage[Task(l, p)] = "none"
                                 /\ Composing(Task(l, p))' <=> Composing(Task(l, p)),
           \A p \in 1..Streams : stage'[Task(l, p)] = "finished" <=> stage[Task(l, p)] = "finished"
    PROVE  LineTasks(l)'
<1>1. Counted(l)' = Counted(l)
  BY PartsAre DEF Counted, Composing
<1> QED
  BY <1>1, PartsAre DEF LineTasks

(* Without tasks the lines are in order. *)
LEMMA NoTasks ==
    ASSUME \A t \in Tasks : stage'[t] = "none", \A l \in 1..MaxLines : done'[l] = 0
    PROVE  TasksInv'
<1>1. \A l \in 1..MaxLines : \A p \in 0..Streams : stage'[Task(l, p)] = "none"
  BY TaskNames
<1>2. \A t \in Tasks : ~Composing(t)'
  BY DEF Composing
<1>3. ASSUME NEW l \in 1..MaxLines PROVE LineTasks(l)'
  <2>1. Counted(l)' = {}
    BY <1>1, PartsAre DEF Counted
  <2>2. Cardinality({}) = 0
    BY FS_EmptySet
  <2>3. \A p \in 0..Streams : ~Composing(Task(l, p))'
    BY <1>1 DEF Composing
  <2> QED
    BY <1>1, <2>1, <2>2, <2>3, PartsAre DEF LineTasks
<1> QED
  BY <1>2, <1>3 DEF TasksInv

(* A step of one task leaves the tasks of the other lines alone. *)
LEMMA OthersAlike ==
    ASSUME LinesInv, TasksInv, NEW t \in Tasks, NEW s, stage' = [stage EXCEPT ![t] = s], next' = next,
           NEW l \in 1..MaxLines, l # t.line, done'[l] = done[l]
    PROVE  LineTasks(l)'
<1>1. \A p \in 0..Streams : stage'[Task(l, p)] = stage[Task(l, p)]
  BY TaskNames DEF LinesInv, Types
<1> QED
  BY <1>1, TasksAlike, PartsAre DEF TasksInv, Composing

(* A task goes from one stage to the next without counting its line. *)
Moving(t, s) ==
    \/ stage[t] \in Working /\ s \in Working
    \/ stage[t] \in Composes /\ s \in Composes
    \/ stage[t] \in Working /\ s = "finished" /\ t.part = 0

(* Such a step leaves the tasks in order. *)
LEMMA MoveTasks ==
    ASSUME LinesInv, TasksInv, NEW t \in Tasks, NEW s, stage' = [stage EXCEPT ![t] = s], Moving(t, s),
           next' = next, done' = done, mu' = mu, cmd' = cmd,
           cmd.fn # "BACKUP" => s \in {"queued", "work", "reply", "finished"}
    PROVE  TasksInv'
<1>1. \A u \in Tasks : /\ stage'[u] = "none" <=> stage[u] = "none"
                       /\ Composing(u)' <=> Composing(u)
                       /\ u.part # 0 => (stage'[u] = "finished" <=> stage[u] = "finished")
                       /\ u # t => stage'[u] = stage[u]
  BY DEF Moving, Working, Composes, Composing, LinesInv, Types
<1>2. \A l \in 1..MaxLines : LineTasks(l)'
  BY <1>1, TaskNames, TasksAlike, PartsAre DEF TasksInv
<1>3. cmd.fn # "BACKUP" =>
         \A u \in Tasks : /\ stage'[u] \in {"none", "queued", "work", "reply", "finished"}
                          /\ u.part # 0 => stage'[u] = "none"
  BY <1>1 DEF TasksInv, LinesInv, Types
<1> QED
  BY <1>1, <1>2, <1>3 DEF TasksInv

(* Submitting a line leaves the tasks in order. *)
LEMMA SubmitTasks ==
    ASSUME LinesInv, TasksInv, NEW m \in 1..MaxLines, m = next, next' = m + 1, done' = done, mu' = mu, cmd' = cmd,
           \/ \E s \in Working : /\ stage' = [stage EXCEPT ![Task(m, 0)] = s]
                                 /\ cmd.fn # "BACKUP" => s \in {"queued", "work"}
           \/ Submit(m, {0})
           \/ Submit(m, 1..Streams) /\ cmd.fn = "BACKUP"
           \/ stage' = stage
    PROVE  TasksInv'
<1>1. \A p \in 0..Streams : Task(m, p) \in Tasks /\ stage[Task(m, p)] = "none"
  BY TaskNames, ParametersAssumption DEF TasksInv, LineTasks
<1>2. \A t \in Tasks : t.line # m => stage'[t] = stage[t]
  BY TaskNames, PartsAre DEF Submit, LinesInv, Types
<1>3. \/ /\ stage'[Task(m, 0)] \in Working /\ (cmd.fn # "BACKUP" => stage'[Task(m, 0)] \in {"queued", "work"})
         /\ \A p \in 1..Streams : stage'[Task(m, p)] = "none"
      \/ /\ stage'[Task(m, 0)] = "none" /\ cmd.fn = "BACKUP"
         /\ \A p \in 1..Streams : stage'[Task(m, p)] = "queued"
      \/ \A p \in 0..Streams : stage'[Task(m, p)] = "none"
  BY <1>1, TaskNames, PartsAre DEF Submit, LinesInv, Types, Working
<1>4. \A p \in 0..Streams : ~Composing(Task(m, p))'
  <2>1. \A p \in 0..Streams : stage'[Task(m, p)] \in Working \/ stage'[Task(m, p)] \in {"none", "queued"}
    BY <1>3, PartsAre, Zenon
  <2> QED
    BY <2>1 DEF Working, Composing
<1>5. LineTasks(m)'
  <2>1. Counted(m)' = {}
    <3>1. \A p \in 1..Streams : stage'[Task(m, p)] \in {"none", "queued"}
      BY <1>3, PartsAre
    <3> QED
      BY <3>1 DEF Counted
  <2>2. Cardinality({}) = 0
    BY FS_EmptySet
  <2>3. done[m] = 0
    <3>1. Counted(m) = {}
      BY <1>1, PartsAre DEF Counted
    <3> QED
      BY <2>2, <3>1 DEF TasksInv, LineTasks
  <2>4. ~(m >= next')
    BY ParametersAssumption
  <2>5. stage'[Task(m, 0)] # "none" => \A p \in 1..Streams : stage'[Task(m, p)] = "none"
    BY <1>3, PartsAre, Zenon
  <2>6. \A p, q \in 1..Streams : stage'[Task(m, p)] # "none" => stage'[Task(m, q)] # "none"
    BY <1>3, PartsAre
  <2> QED
    BY <1>4, <2>1, <2>2, <2>3, <2>4, <2>5, <2>6, PartsAre DEF LineTasks
<1>6. ASSUME NEW l \in 1..MaxLines, l # m PROVE LineTasks(l)'
  <2>1. \A p \in 0..Streams : stage'[Task(l, p)] = stage[Task(l, p)]
    BY <1>2, <1>6, TaskNames
  <2>2. l >= next' => l >= next
    BY ParametersAssumption
  <2> QED
    BY <2>1, <2>2, TasksAlike, PartsAre DEF TasksInv, Composing
<1>7. ASSUME NEW t \in Tasks, Composing(t)' PROVE mu' = t
  <2>1. t.line # m
    <3>1. t.part \in 0..Streams /\ t = Task(t.line, t.part)
      BY TaskNames
    <3> QED
      BY <1>4, <1>7, <3>1
  <2> QED
    BY <1>2, <1>7, <2>1 DEF Composing, TasksInv
<1>8. cmd'.fn # "BACKUP" =>
         \A t \in Tasks : /\ stage'[t] \in {"none", "queued", "work", "reply", "finished"}
                          /\ t.part # 0 => stage'[t] = "none"
  <2> SUFFICES ASSUME cmd'.fn # "BACKUP", NEW t \in Tasks
               PROVE  /\ stage'[t] \in {"none", "queued", "work", "reply", "finished"}
                      /\ t.part # 0 => stage'[t] = "none"
    OBVIOUS
  <2>1. CASE t.line # m
    BY <1>2, <2>1 DEF TasksInv
  <2>2. CASE t.line = m
    <3>1. t = Task(m, t.part) /\ (t.part = 0 \/ t.part \in 1..Streams) /\ t.part \in 0..Streams
      BY <2>2, TaskNames, ParametersAssumption
    <3> QED
      BY <1>3, <3>1
  <2> QED
    BY <2>1, <2>2
<1>9. \A l \in 1..MaxLines : LineTasks(l)'
  BY <1>5, <1>6
<1> QED
  BY <1>7, <1>8, <1>9 DEF TasksInv

(* Counting a chunk leaves the tasks in order: the last one finds the others
   finished. *)
LEMMA CountTasks ==
    ASSUME LinesInv, TasksInv, NEW t \in Tasks, CountChunk(t)
    PROVE  TasksInv'
<1>1. /\ stage[t] = "reply" /\ t.part # 0 /\ mu = None /\ next' = next /\ cmd' = cmd
      /\ done' = [done EXCEPT ![t.line] = @ + 1]
      /\ \/ /\ done'[t.line] = Streams /\ mu' = t /\ stage' = [stage EXCEPT ![t] = "compose"]
         \/ /\ done'[t.line] # Streams /\ mu' = mu /\ stage' = [stage EXCEPT ![t] = "finished"]
  BY DEF CountChunk, reader, Goto
<1>2. PICK l \in 1..MaxLines, p \in 1..Streams : l = t.line /\ p = t.part /\ t = Task(l, p)
  BY <1>1, TaskNames, ParametersAssumption
<1>3. \A u \in Tasks : ~Composing(u)
  BY <1>1, NoneAssumption DEF TasksInv
<1>4. \A q \in 0..Streams : q # p => stage'[Task(l, q)] = stage[Task(l, q)]
  BY <1>1, <1>2, TaskNames DEF LinesInv, Types
<1>5. stage'[t] \in {"compose", "finished"} /\ \A u \in Tasks : u # t => stage'[u] = stage[u]
  BY <1>1 DEF LinesInv, Types
<1>6. Counted(l)' = Counted(l) \cup {p} /\ p \notin Counted(l)
  BY <1>1, <1>2, <1>4, <1>5, PartsAre DEF Counted
<1>7. done'[l] = Cardinality(Counted(l)')
  <2>1. IsFiniteSet(Counted(l))
    BY ChunkCount, FS_Subset
  <2>2. Cardinality(Counted(l) \cup {p}) = Cardinality(Counted(l)) + 1
    BY <1>6, <2>1, FS_AddElement
  <2> QED
    BY <1>1, <1>2, <1>6, <2>2 DEF TasksInv, LineTasks, LinesInv, Types
<1>8. ASSUME NEW q \in 1..Streams, NEW r \in 1..Streams, q # r, Composing(Task(l, q))'
      PROVE  stage'[Task(l, r)] = "finished"
  <2>1. q = p
    BY <1>3, <1>4, <1>8, TaskNames, PartsAre DEF Composing
  <2>2. stage'[t] = "compose" /\ done'[l] = Streams
    BY <1>1, <1>2, <1>8, <2>1 DEF Composing, LinesInv, Types
  <2>3. Counted(l)' = 1..Streams
    <3>1. Counted(l)' \in SUBSET (1..Streams)
      BY ChunkCount, <1>6
    <3> QED
      BY <1>7, <2>2, <3>1, ChunkCount, FS_Subset
  <2>4. stage'[Task(l, r)] \in {"compose", "clean", "composed", "finished"}
    BY <2>3 DEF Counted
  <2>5. ~Composing(Task(l, r)) /\ stage'[Task(l, r)] = stage[Task(l, r)]
    BY <1>3, <1>4, <1>8, <2>1, TaskNames, PartsAre
  <2> QED
    BY <2>4, <2>5 DEF Composing
<1>9. LineTasks(l)'
  <2>1. LineTasks(l) /\ stage[Task(l, p)] # "none"
    BY <1>1, <1>2 DEF TasksInv
  <2>2. stage'[Task(l, 0)] = stage[Task(l, 0)] /\ stage'[Task(l, 0)] = "none"
    BY <1>4, <2>1, PartsAre DEF LineTasks
  <2>3. \A q \in 1..Streams : stage[Task(l, q)] # "none" /\ stage'[Task(l, q)] # "none"
    BY <1>2, <1>4, <1>5, <2>1, PartsAre DEF LineTasks
  <2>4. ~(l >= next)
    BY <2>1, PartsAre DEF LineTasks
  <2>5. ~Composing(Task(l, 0))'
    BY <2>2 DEF Composing
  <2> QED
    BY <1>1, <1>7, <1>8, <2>2, <2>3, <2>4, <2>5 DEF LineTasks
<1>10. ASSUME NEW k \in 1..MaxLines, k # l PROVE LineTasks(k)'
  BY <1>1, <1>2, <1>10, OthersAlike DEF LinesInv, Types
<1>11. \A u \in Tasks : Composing(u)' => mu' = u
  BY <1>1, <1>3, <1>5 DEF Composing, LinesInv, Types
<1>12. cmd.fn = "BACKUP"
  BY <1>1 DEF TasksInv
<1> QED
  BY <1>1, <1>9, <1>10, <1>11, <1>12 DEF TasksInv

(* The answer for a composed file leaves the tasks in order. *)
LEMMA ComposedTasks ==
    ASSUME LinesInv, TasksInv, NEW t \in Tasks, ReplyComposed(t)
    PROVE  TasksInv'
<1>1. /\ stage[t] = "composed" /\ Composing(t) /\ next' = next /\ cmd' = cmd
      /\ done' = done /\ mu' = None /\ stage' = [stage EXCEPT ![t] = "finished"]
  BY DEF ReplyComposed, reader, chunks, Goto, Composing
<1>2. \A u \in Tasks : ~Composing(u)'
  BY <1>1 DEF TasksInv, Composing, LinesInv, Types
<1>3. PICK l \in 1..MaxLines, p \in 1..Streams : l = t.line /\ p = t.part /\ t = Task(l, p)
  <2>1. PICK l \in 1..MaxLines, p \in 0..Streams : l = t.line /\ p = t.part /\ t = Task(l, p)
    BY TaskNames
  <2>2. p # 0
    BY <1>1, <2>1 DEF TasksInv, LineTasks
  <2> QED
    BY <2>1, <2>2, ParametersAssumption
<1>4. \A q \in 0..Streams : q # p => stage'[Task(l, q)] = stage[Task(l, q)]
  BY <1>1, <1>3, TaskNames DEF LinesInv, Types
<1>5. stage'[Task(l, p)] = "finished"
  BY <1>1, <1>3 DEF LinesInv, Types
<1>6. LineTasks(l)'
  <2>1. LineTasks(l)
    BY DEF TasksInv
  <2>2. Counted(l)' = Counted(l)
    BY <1>1, <1>3, <1>4, <1>5, PartsAre DEF Counted
  <2>3. stage'[Task(l, 0)] = "none" /\ stage[Task(l, 0)] = "none"
    BY <1>1, <1>3, <1>4, <2>1, PartsAre DEF LineTasks
  <2>4. \A q \in 0..Streams : ~Composing(Task(l, q))'
    BY <1>2, TaskNames
  <2>5. \A q \in 1..Streams : stage[Task(l, q)] # "none" /\ stage'[Task(l, q)] # "none"
    BY <1>1, <1>3, <1>4, <1>5, <2>1, PartsAre DEF LineTasks
  <2>6. ~(l >= next)
    BY <2>1, <2>5, PartsAre, <1>3 DEF LineTasks
  <2> QED
    BY <1>1, <2>1, <2>2, <2>3, <2>4, <2>5, <2>6, PartsAre DEF LineTasks
<1>7. ASSUME NEW k \in 1..MaxLines, k # l PROVE LineTasks(k)'
  BY <1>1, <1>3, <1>7, OthersAlike
<1>8. cmd.fn = "BACKUP"
  BY <1>1 DEF TasksInv
<1> QED
  BY <1>1, <1>2, <1>6, <1>7, <1>8 DEF TasksInv

------------------------------------------------------------------------------
(* What a step leaves alone. *)

(* An unchanged bucket restores the same. *)
LEMMA SameBucket ==
    ASSUME bucket' = bucket, shared' = shared
    PROVE  InBucket' = InBucket /\ \A f, i : Restorable(f, i)' <=> Restorable(f, i)
BY DEF InBucket, Restorable

(* Lines of a backup that name one file are the same line. *)
LEMMA LinesDiffer ==
    ASSUME LinesInv, StoreTypes, Storing, NEW l \in 1..(next - 1), NEW k \in 1..(next - 1), FileOf(l) = FileOf(k)
    PROVE  l = k
<1>1. l \in 1..NumLines /\ k \in 1..NumLines
  BY ParametersAssumption DEF LinesInv, Types, Storing
<1>2. Upload(l) /\ Upload(k) /\ Unlike(cmd) /\ cmd.fn = "BACKUP"
  BY DEF StoreTypes, Storing
<1> QED
  BY <1>1, <1>2 DEF Unlike, Upload, FileOf, NumLines

(* A task belongs to a line that was read. *)
LEMMA ActiveLine ==
    ASSUME LinesInv, TasksInv, NEW t \in Tasks, stage[t] # "none"
    PROVE  /\ t.line \in 1..MaxLines /\ t.line \in 1..(next - 1) /\ t.part \in 0..Streams /\ t = Task(t.line, t.part)
           /\ Line(t).file = FileOf(t.line) /\ (t.part = 0 \/ t.part \in 1..Streams)
<1>1. t.line \in 1..MaxLines /\ t.part \in 0..Streams /\ t = Task(t.line, t.part)
  BY TaskNames
<1>2. ~(t.line >= next)
  BY <1>1 DEF TasksInv, LineTasks
<1>3. t.line \in 1..(next - 1)
  BY <1>1, <1>2, ParametersAssumption DEF LinesInv, Types
<1> QED
  BY <1>1, <1>3, PartsAre DEF Line, FileOf

(* No file that a task is at work on was answered #SAVED by this command. *)
LEMMA SavedBefore ==
    ASSUME LinesInv, StoreTypes, TasksInv, SavedInv, Alive, NEW t \in Tasks, stage[t] \notin {"none", "finished"}, NEW s \in saved
    PROVE  /\ ~(s[1] = Line(t).file /\ s[2] = n)
           /\ s[2] = n => cmd.fn = "BACKUP" /\ \E l \in 1..(next - 1) :
                 /\ FileOf(l) = s[1] /\ l # t.line
                 /\ \A p \in 0..Streams : stage[Task(l, p)] \in {"none", "finished"}
<1> SUFFICES ASSUME s[2] = n
             PROVE  /\ s[1] # Line(t).file
                    /\ cmd.fn = "BACKUP" /\ \E l \in 1..(next - 1) :
                         /\ FileOf(l) = s[1] /\ l # t.line
                         /\ \A p \in 0..Streams : stage[Task(l, p)] \in {"none", "finished"}
  OBVIOUS
<1>1. PICK l \in 1..(next - 1) : /\ FileOf(l) = s[1]
                                 /\ \A p \in 0..Streams : stage[Task(l, p)] \in {"none", "finished"}
  BY DEF SavedInv
<1>2. cmd.fn = "BACKUP"
  BY DEF SavedInv
<1>3. l # t.line
  BY <1>1, ActiveLine
<1>4. s[1] # Line(t).file
  BY <1>1, <1>2, <1>3, ActiveLine, LinesDiffer DEF Storing
<1> QED
  BY <1>1, <1>2, <1>3, <1>4

(* What is stored for a line stays so when its tasks do not advance. *)
LEMMA LineKept ==
    ASSUME NEW l \in 1..MaxLines, LineStored(l), cmd' = cmd, n' = n, tainted \subseteq tainted',
           \A o : o \in OfLine(l)' <=> o \in OfLine(l),
           Restorable(FileOf(l), n) => Restorable(FileOf(l), n)',
           l \in chunkError => l \in chunkError',
           \A p \in 0..Streams :
             /\ stage'[Task(l, p)] = "reply" /\ result'[Task(l, p)].verdict = "SAVED"
                  => stage[Task(l, p)] = "reply" /\ result[Task(l, p)].verdict = "SAVED"
             /\ stage'[Task(l, p)] \in {"clean", "composed"} => stage[Task(l, p)] \in {"clean", "composed"}
             /\ stage'[Task(l, p)] = "composed" => stage[Task(l, p)] = "composed"
             /\ stage'[Task(l, p)] \in Unfinished => stage[Task(l, p)] \in Unfinished,
           \A p \in 1..Streams :
             stage'[Task(l, p)] \in {"finished", "compose"} => stage[Task(l, p)] \in {"finished", "compose"}
    PROVE  LineStored(l)'
<1>1. FileOf(l)' = FileOf(l)
  BY DEF FileOf
<1>2. stage'[Task(l, 0)] = "reply" /\ result'[Task(l, 0)].verdict = "SAVED" =>
         Restorable(FileOf(l), n)' /\ \A o \in OfLine(l)' : o.part = 0 /\ o.whole
  BY PartsAre DEF LineStored
<1>3. ASSUME NEW p \in 1..Streams, HasChunk(l, p)' PROVE \E o \in OfLine(l)' : o.part = p /\ o.whole
  <2>1. HasChunk(l, p)
    <3>1. CASE stage'[Task(l, p)] = "reply" /\ result'[Task(l, p)].verdict = "SAVED"
      BY <3>1, PartsAre DEF HasChunk
    <3>2. CASE /\ stage'[Task(l, p)] \in {"finished", "compose"} /\ l \notin chunkError'
               /\ \E q \in 1..Streams : stage'[Task(l, q)] \in Unfinished
      BY <3>2, PartsAre DEF HasChunk
    <3> QED
      BY <1>3, <3>1, <3>2 DEF HasChunk
  <2> QED
    BY <2>1 DEF LineStored
<1>4. ASSUME NEW p \in 1..Streams, stage'[Task(l, p)] \in {"clean", "composed"}, l \notin chunkError'
      PROVE  Restorable(FileOf(l), n)' /\ \A o \in OfLine(l)' : o.part = 0 => o.whole
  BY <1>4, PartsAre DEF LineStored
<1>5. ASSUME NEW p \in 1..Streams, stage'[Task(l, p)] = "composed", l \notin chunkError', FileOf(l)' \notin tainted'
      PROVE  \A o \in OfLine(l)' : o.part = 0
  BY <1>1, <1>5, PartsAre DEF LineStored
<1> QED
  BY <1>2, <1>3, <1>4, <1>5 DEF LineStored

(* Nothing is stored yet for a line whose tasks have not reached the bucket. *)
LEMMA NoLine ==
    ASSUME NEW l \in 1..MaxLines, \A p \in 0..Streams : stage'[Task(l, p)] \in {"none", "queued", "work"}
    PROVE  LineStored(l)'
BY PartsAre DEF LineStored, HasChunk

(* A step of one task leaves alone what is stored for the other lines. *)
LEMMA OtherLine ==
    ASSUME LinesInv, StoreTypes, TasksInv, StoredInv, Storing, NEW t \in Tasks, stage[t] # "none", NEW s,
           stage' = [stage EXCEPT ![t] = s],
           \A u \in Tasks : u # t => result'[u] = result[u],
           \A l \in 1..MaxLines : l \in chunkError => l \in chunkError',
           tainted \subseteq tainted', cmd' = cmd, n' = n, shared' = shared, next' = next,
           bucket' = bucket \/ Touches(Line(t).file, n),
           NEW l \in 1..MaxLines, l # t.line
    PROVE  LineStored(l)'
<1>1. \A p \in 0..Streams : /\ stage'[Task(l, p)] = stage[Task(l, p)]
                            /\ result'[Task(l, p)] = result[Task(l, p)]
  BY TaskNames DEF LinesInv, Types
<1>2. CASE l \in 1..(next - 1)
  <2>1. FileOf(l) # Line(t).file /\ FileOf(l)' = FileOf(l)
    <3>1. FileOf(l)' = FileOf(l)
      BY DEF FileOf
    <3>2. t.line \in 1..(next - 1) /\ Line(t).file = FileOf(t.line)
      BY ActiveLine
    <3>3. FileOf(l) = FileOf(t.line) => l = t.line
      BY <1>2, <3>2, LinesDiffer
    <3> QED
      BY <3>1, <3>2, <3>3
  <2>2. \A o : o \in OfLine(l)' <=> o \in OfLine(l)
    BY <2>1, SameBucket DEF OfLine, Touches
  <2>3. Restorable(FileOf(l), n) => Restorable(FileOf(l), n)'
    BY <2>1, SameBucket DEF Touches
  <2>4. LineStored(l)
    BY DEF StoredInv
  <2> QED
    BY <1>1, <2>2, <2>3, <2>4, LineKept, PartsAre
<1>3. CASE l \notin 1..(next - 1)
  <2>1. l >= next
    BY <1>3, ParametersAssumption DEF LinesInv, Types
  <2>2. \A p \in 0..Streams : stage'[Task(l, p)] = "none"
    BY <1>1, <2>1 DEF TasksInv, LineTasks
  <2> QED
    BY <2>2, NoLine
<1> QED
  BY <1>2, <1>3

(* An object keeps its owner. *)
LEMMA OwnersKept ==
    ASSUME OwnersInv, LinesInv, cmd' = cmd, n' = n, next' = next \/ next' = next + 1, Alive' => Alive,
           \A t \in Tasks : stage[t] # "none" => stage'[t] # "none",
           NEW o \in InBucket, o.part \in 0..Streams, Alive', o.id = n'
    PROVE  /\ cmd'.fn = "BACKUP"
           /\ \E l \in 1..(next' - 1) :
                /\ FileOf(l)' = o.file /\ cmd'.lines[l].op = o.kind
                /\ o.part # 0 => stage'[Task(l, o.part)] # "none"
<1>1. PICK l \in 1..(next - 1) :
           /\ FileOf(l) = o.file /\ cmd.lines[l].op = o.kind
           /\ o.part # 0 => stage[Task(l, o.part)] # "none"
  BY DEF OwnersInv
<1>2. cmd.fn = "BACKUP"
  BY DEF OwnersInv
<1>3. l \in 1..(next' - 1) /\ l \in 1..MaxLines
  BY ParametersAssumption DEF LinesInv, Types
<1>4. o.part # 0 => stage'[Task(l, o.part)] # "none"
  BY <1>1, <1>3, TaskNames
<1>5. FileOf(l)' = FileOf(l)
  BY DEF FileOf
<1> QED
  BY <1>1, <1>2, <1>3, <1>4, <1>5

(* A file stays attempted while its tasks go on. *)
LEMMA AttemptedKept ==
    ASSUME NEW f, Attempted(f), cmd' = cmd,
           \A t \in Tasks : stage[t] \notin {"none", "finished"} => stage'[t] \notin {"none", "finished"}
    PROVE  Attempted(f)'
BY DEF Attempted, Line

(* What was answered #SAVED stays so through a step of a task. *)
LEMMA SavedKept ==
    ASSUME LinesInv, StoreTypes, TasksInv, SavedInv, Alive, cmd' = cmd, n' = n, next' = next,
           NEW t \in Tasks, NEW e, stage' = [stage EXCEPT ![t] = e], stage[t] \notin {"none", "finished"},
           NEW s \in saved, Restorable(s[1], s[2]) => Restorable(s[1], s[2])'
    PROVE  /\ Restorable(s[1], s[2])'
           /\ Alive' /\ s[2] = n' =>
                /\ cmd'.fn = "BACKUP"
                /\ \E l \in 1..(next' - 1) : /\ FileOf(l)' = s[1]
                                             /\ \A p \in 0..Streams : stage'[Task(l, p)] \in {"none", "finished"}
<1>1. Restorable(s[1], s[2])'
  BY DEF SavedInv
<1>2. ASSUME s[2] = n
      PROVE  cmd.fn = "BACKUP" /\ \E l \in 1..(next' - 1) : /\ FileOf(l)' = s[1]
                                  /\ \A p \in 0..Streams : stage'[Task(l, p)] \in {"none", "finished"}
  <2>1. cmd.fn = "BACKUP" /\ \E l \in 1..(next - 1) :
                 /\ FileOf(l) = s[1] /\ l # t.line
                 /\ \A p \in 0..Streams : stage[Task(l, p)] \in {"none", "finished"}
    BY <1>2, SavedBefore
  <2>2. PICK l \in 1..(next - 1) :
                 /\ FileOf(l) = s[1] /\ l # t.line
                 /\ \A p \in 0..Streams : stage[Task(l, p)] \in {"none", "finished"}
    BY <2>1
  <2>3. l \in 1..MaxLines /\ FileOf(l)' = FileOf(l)
    BY ParametersAssumption DEF LinesInv, Types, FileOf
  <2>4. \A p \in 0..Streams : stage'[Task(l, p)] = stage[Task(l, p)]
    BY <2>2, <2>3, TaskNames DEF LinesInv, Types
  <2> QED
    BY <2>1, <2>2, <2>3, <2>4
<1> QED
  BY <1>1, <1>2

(* A sound answer stays sound. *)
LEMMA SoundKept ==
    ASSUME tainted \subseteq tainted', NEW e, Sound(e)
    PROVE  Sound(e)'
BY DEF Sound

(* A step of one task that leaves bucket, answers and histories alone preserves the
   invariant. *)
LEMMA QuietStep ==
    ASSUME LinesInv, StoreInv, Alive, NEW t \in Tasks, NEW s, stage' = [stage EXCEPT ![t] = s],
           stage[t] \in Working \ {"reply"}, s \in Working,
           cmd.fn # "BACKUP" => s \in {"queued", "work", "reply", "finished"},
           \/ s # "reply" /\ result' = result
           \/ \E e : /\ result' = [result EXCEPT ![t] = e] /\ Sound(e)
                     /\ s = "reply" /\ cmd.fn = "BACKUP" => e.verdict = "ERROR",
           UNCHANGED <<reader, mu, chunks, bucket, answers, hist>>
    PROVE  StoreInv'
<1> USE DEF StoreInv
<1>1. /\ n' = n /\ cmd' = cmd /\ next' = next /\ exit' = exit /\ shared' = shared /\ bucket' = bucket
      /\ saved' = saved /\ tainted' = tainted /\ chunkError' = chunkError /\ answers' = answers /\ mu' = mu /\ done' = done
  BY DEF reader, chunks, hist
<1>2. InBucket' = InBucket /\ \A f, i : Restorable(f, i)' <=> Restorable(f, i)
  BY <1>1, SameBucket
<1>3. Alive' /\ (Storing' <=> Storing)
  BY <1>1 DEF Alive, Storing
<1>4. \A u \in Tasks : /\ stage[u] # "none" => stage'[u] # "none"
                       /\ stage[u] \notin {"none", "finished"} => stage'[u] \notin {"none", "finished"}
  BY DEF LinesInv, Types, Working
<1>5. StoreTypes'
  <2>1. DOMAIN result' = Tasks
    BY DEF StoreTypes
  <2> QED
    BY <1>1, <1>2, <1>3, <2>1 DEF StoreTypes, SameName, Unlike, Upload
<1>6. TasksInv'
  <2>1. Moving(t, s)
    BY DEF Moving
  <2> QED
    BY <1>1, <2>1, MoveTasks
<1>7. OwnersInv'
  <2>1. ASSUME NEW o \in InBucket', Alive', o.id = n'
        PROVE  /\ cmd'.fn = "BACKUP"
               /\ \E l \in 1..(next' - 1) :
                    /\ FileOf(l)' = o.file /\ cmd'.lines[l].op = o.kind
                    /\ o.part # 0 => stage'[Task(l, o.part)] # "none"
    <3>1. o \in InBucket /\ o.part \in 0..Streams
      BY <1>2, <2>1 DEF StoreTypes
    <3> QED
      BY <1>1, <1>4, <2>1, <3>1, OwnersKept
  <2> QED
    BY <2>1 DEF OwnersInv
<1>8. LeftInv'
  <2>1. \A f : Attempted(f) => Attempted(f)'
    BY <1>1, <1>4, AttemptedKept
  <2> QED
    BY <1>1, <1>2, <1>3, <2>1 DEF LeftInv
<1>9. StoredInv'
  <2> SUFFICES ASSUME Storing
               PROVE  /\ \A l \in 1..MaxLines : LineStored(l)'
                      /\ \A u \in Tasks : stage'[u] = "reply" => result'[u].verdict \in {"SAVED", "ERROR"}
    BY <1>3 DEF StoredInv
  <2>1. \A u \in Tasks : u # t => result'[u] = result[u] /\ stage'[u] = stage[u]
    BY DEF StoreTypes, LinesInv, Types
  <2>2. stage'[t] = s /\ (s = "reply" => result'[t].verdict = "ERROR")
    BY DEF StoreTypes, LinesInv, Types, Storing
  <2>3. \A u \in Tasks : stage'[u] = "reply" => result'[u].verdict \in {"SAVED", "ERROR"}
    BY <2>1, <2>2 DEF StoredInv
  <2>4. ASSUME NEW l \in 1..MaxLines PROVE LineStored(l)'
    <3>1. CASE l # t.line
      <4>1. stage[t] # "none"
        BY DEF Working
      <4> QED
        BY <1>1, <2>1, <3>1, <4>1, OtherLine
    <3>2. CASE l = t.line
      <4>1. \A o : o \in OfLine(l)' <=> o \in OfLine(l)
        BY <1>1, <1>2 DEF OfLine, FileOf
      <4>2. Restorable(FileOf(l), n) => Restorable(FileOf(l), n)'
        BY <1>1, <1>2 DEF FileOf
      <4>3. \A u \in Tasks :
              /\ stage'[u] = "reply" /\ result'[u].verdict = "SAVED" => stage[u] = "reply" /\ result[u].verdict = "SAVED"
              /\ stage'[u] \in {"clean", "composed"} => stage[u] \in {"clean", "composed"}
              /\ stage'[u] = "composed" => stage[u] = "composed"
              /\ stage'[u] \in Unfinished => stage[u] \in Unfinished
              /\ stage'[u] \in {"finished", "compose"} => stage[u] \in {"finished", "compose"}
        BY <2>1, <2>2 DEF Working, Unfinished
      <4>4. LineStored(l)
        BY DEF StoredInv
      <4> QED
        BY <1>1, <4>1, <4>2, <4>3, <4>4, LineKept, TaskNames, PartsAre
    <3> QED
      BY <3>1, <3>2
  <2> QED
    BY <2>3, <2>4
<1>10. SavedInv'
  <2>1. stage[t] \notin {"none", "finished"}
    BY DEF Working
  <2>2. ASSUME NEW r \in saved'
        PROVE  /\ Restorable(r[1], r[2])'
               /\ Alive' /\ r[2] = n' =>
                    /\ cmd'.fn = "BACKUP"
                    /\ \E l \in 1..(next' - 1) : /\ FileOf(l)' = r[1]
                                                 /\ \A p \in 0..Streams : stage'[Task(l, p)] \in {"none", "finished"}
    BY <1>1, <1>2, <2>1, <2>2, SavedKept
  <2> QED
    BY <2>2 DEF SavedInv
<1>11. AnswersInv'
  <2>1. \A u \in Tasks : u # t => result'[u] = result[u] /\ stage'[u] = stage[u]
    BY DEF StoreTypes, LinesInv, Types
  <2>2. stage'[t] = s /\ (s = "reply" => Sound(result'[t]))
    BY DEF StoreTypes, LinesInv, Types
  <2>3. \A e : Sound(e)' <=> Sound(e)
    BY <1>1 DEF Sound
  <2>4. \A u \in Tasks : stage'[u] = "reply" => Sound(result'[u])
    BY <2>1, <2>2 DEF AnswersInv
  <2>5. \A u \in Tasks : stage'[u] = "reply" => Sound(result[u])'
    BY <2>3, <2>4 DEF Sound
  <2> QED
    BY <1>1, <2>3, <2>5 DEF AnswersInv, Elements
<1> QED
  BY <1>5, <1>6, <1>7, <1>8, <1>9, <1>10, <1>11

------------------------------------------------------------------------------
(* The steps of workers. *)

(* The types of the bucket after a step that adds no object. *)
LEMMA StoreTypesKept ==
    ASSUME LinesInv, StoreTypes, bucket' \in Seq(InBucket'), \A o \in InBucket' : o \in InBucket,
           shared' = shared, n' = n, cmd' = cmd, next' = next, exit' = exit,
           \A s \in saved' : s \in saved \/ \E f : s = <<f, n>>,
           DOMAIN result' = Tasks, \A l \in 1..MaxLines : answers'[l] \in Seq(Elements(answers'[l]))
    PROVE  StoreTypes'
<1>1. Alive' <=> Alive
  BY DEF Alive
<1>2. \A o, p : SameName(o, p)' <=> SameName(o, p)
  BY DEF SameName
<1>3. \A o, p \in InBucket' : SameName(o, p)' => o = p
  BY <1>2 DEF StoreTypes
<1>4. \A o \in InBucket' : o.part \in 0..Streams /\ o.id \in Nat /\ o.id <= n' /\ (~shared' => o.type = o.kind)
  BY DEF StoreTypes
<1>5. (Alive' => Unlike(cmd')) /\ (Storing' => \A l \in 1..(next' - 1) : Upload(l)')
  BY <1>1 DEF StoreTypes, Unlike, Upload, Storing
<1>6. \A s \in saved' : s = <<s[1], s[2]>> /\ s[2] \in Nat /\ s[2] <= n'
  BY DEF StoreTypes, LinesInv, Types
<1> QED
  BY <1>3, <1>4, <1>5, <1>6 DEF StoreTypes

(* UploadFile preserves the invariant. *)
LEMMA UploadStored ==
    ASSUME LinesInv, StoreInv, Alive, NEW t \in Tasks, UploadFile(t)
    PROVE  StoreInv'
<1> USE DEF StoreInv
<1>0. PICK f, l : f = Line(t).file /\ l = t.line
  OBVIOUS
<1>1. /\ n' = n /\ cmd' = cmd /\ next' = next /\ exit' = exit /\ shared' = shared
      /\ saved' = saved /\ tainted' = tainted /\ chunkError' = chunkError /\ answers' = answers /\ mu' = mu /\ done' = done
      /\ stage[t] = "upload" /\ stage' = [stage EXCEPT ![t] = "reply"]
  BY DEF UploadFile, reader, chunks, hist, Goto
<1>2. /\ l \in 1..MaxLines /\ l \in 1..(next - 1) /\ t.part \in 0..Streams /\ t = Task(l, t.part)
      /\ f = FileOf(l) /\ (t.part = 0 \/ t.part \in 1..Streams)
  <2>1. stage[t] # "none"
    BY <1>1
  <2> QED
    BY <1>0, <2>1, ActiveLine
<1>3. cmd.fn = "BACKUP" /\ Storing /\ Alive' /\ Storing' /\ Upload(l)
  BY <1>1, <1>2 DEF TasksInv, Storing, Alive, StoreTypes
<1>4. PICK v \in {"SAVED", "ERROR"} : \E o :
        /\ result' = [result EXCEPT ![t] = [verdict |-> v]]
        /\ o.file = f /\ o.id = n /\ o.part = t.part /\ o.kind = Line(t).op /\ (~shared => o.type = o.kind)
        /\ v = "SAVED" => o.whole
        /\ Put(o) \/ (v = "ERROR" /\ bucket' = bucket)
  <2>1. \A x \in BOOLEAN : /\ Object(t, x).file = f /\ Object(t, x).id = n /\ Object(t, x).part = t.part
                           /\ Object(t, x).kind = Line(t).op /\ (~shared => Object(t, x).type = Object(t, x).kind)
                           /\ Object(t, x).whole = x
    BY <1>0 DEF Object
  <2>2. CASE Put(Object(t, TRUE)) /\ result' = [result EXCEPT ![t] = [verdict |-> "SAVED"]]
    <3>1. PICK o : o = Object(t, TRUE)
      OBVIOUS
    <3>2. /\ o.file = f /\ o.id = n /\ o.part = t.part /\ o.kind = Line(t).op /\ (~shared => o.type = o.kind)
          /\ o.whole
      BY <2>1, <3>1
    <3>3. Put(o)
      BY <2>2, <3>1
    <3> QED
      <4>1. "SAVED" \in {"SAVED", "ERROR"}
        OBVIOUS
      <4>2. result' = [result EXCEPT ![t] = [verdict |-> "SAVED"]]
        BY <2>2
      <4> QED
        BY <3>2, <3>3, <4>1, <4>2, Zenon
  <2>3. CASE /\ Put(Object(t, FALSE)) \/ UNCHANGED bucket
             /\ result' = [result EXCEPT ![t] = [verdict |-> "ERROR"]]
    <3>1. PICK o : o = Object(t, FALSE)
      OBVIOUS
    <3>2. o.file = f /\ o.id = n /\ o.part = t.part /\ o.kind = Line(t).op /\ (~shared => o.type = o.kind)
      BY <2>1, <3>1
    <3>3. Put(o) \/ bucket' = bucket
      BY <2>3, <3>1
    <3> QED
      <4>1. "ERROR" \in {"SAVED", "ERROR"} /\ "ERROR" # "SAVED"
        OBVIOUS
      <4>2. result' = [result EXCEPT ![t] = [verdict |-> "ERROR"]]
        BY <2>3
      <4> QED
        BY <3>2, <3>3, <4>1, <4>2, Zenon
  <2> QED
    BY <2>2, <2>3 DEF UploadFile
<1>5. v = "SAVED" \/ v = "ERROR"
  OBVIOUS
<1>6. PICK o :
        /\ result' = [result EXCEPT ![t] = [verdict |-> v]]
        /\ o.file = f /\ o.id = n /\ o.part = t.part /\ o.kind = Line(t).op /\ (~shared => o.type = o.kind)
        /\ v = "SAVED" => o.whole
        /\ Put(o) \/ (v = "ERROR" /\ bucket' = bucket)
  BY <1>4, Zenon
<1>7. /\ bucket' \in Seq(InBucket')
      /\ \A x \in InBucket' : x = o \/ (x \in InBucket /\ (x.file = f /\ x.id = n /\ x.part = t.part => v = "ERROR"))
      /\ \A x \in InBucket : ~(x.file = f /\ x.id = n /\ x.part = t.part) => x \in InBucket'
      /\ bucket' = bucket \/ Touches(f, n)
      /\ v = "SAVED" => o \in InBucket' /\ (t.part = 0 => Restorable(f, n)')
      /\ \A x, y \in InBucket' : SameName(x, y) => x = y
  <2>1. CASE Put(o)
    <3>1. /\ Touches(f, n) /\ InBucket' = {p \in InBucket : ~SameName(o, p)} \cup {o}
          /\ Good(o, shared) => Restorable(f, n)'
      BY <1>1, <1>6, <1>5, <2>1, PutIs DEF StoreTypes
    <3>2. v = "SAVED" /\ t.part = 0 => Good(o, shared)
      BY <1>6, <1>5 DEF Good
    <3>3. \A x, y \in InBucket' : SameName(x, y) => x = y
      BY <3>1 DEF SameName, StoreTypes
    <3>4. bucket' \in Seq(InBucket')
      BY <3>1 DEF Touches
    <3>5. \A x : SameName(o, x) <=> x.file = f /\ x.id = n /\ x.part = t.part
      BY <1>6, <1>5 DEF SameName
    <3>6. \A x \in InBucket' : x = o \/ (x \in InBucket /\ (x.file = f /\ x.id = n /\ x.part = t.part => v = "ERROR"))
      <4>1. ASSUME NEW x \in InBucket', x # o PROVE x \in InBucket /\ ~(x.file = f /\ x.id = n /\ x.part = t.part)
        <5>1. x \in InBucket /\ ~SameName(o, x)
          BY <3>1, <4>1
        <5> QED
          BY <3>5, <5>1
      <4>2. ASSUME NEW x \in InBucket'
            PROVE  x = o \/ (x \in InBucket /\ (x.file = f /\ x.id = n /\ x.part = t.part => v = "ERROR"))
        <5>1. CASE x = o
          BY <5>1
        <5>2. CASE x # o
          BY <4>1, <4>2, <5>2, Zenon
        <5> QED
          BY <5>1, <5>2
      <4> QED
        BY <4>2, Zenon
    <3>7. \A x \in InBucket : ~(x.file = f /\ x.id = n /\ x.part = t.part) => x \in InBucket'
      BY <3>1, <3>5
    <3>8. v = "SAVED" => o \in InBucket' /\ (t.part = 0 => Restorable(f, n)')
      BY <3>1, <3>2
    <3> QED
      BY <3>1, <3>3, <3>4, <3>6, <3>7, <3>8, Zenon
  <2>2. CASE v = "ERROR" /\ bucket' = bucket
    BY <1>1, <2>2, SameBucket DEF StoreTypes
  <2> QED
    BY <1>6, <2>1, <2>2
<1>8. \A u \in Tasks : u # t => result'[u] = result[u] /\ stage'[u] = stage[u]
  BY <1>1, <1>6 DEF StoreTypes, LinesInv, Types
<1>9. stage'[t] = "reply" /\ result'[t] = [verdict |-> v]
  BY <1>1, <1>6 DEF StoreTypes, LinesInv, Types
<1>10. \A u \in Tasks : /\ stage[u] # "none" => stage'[u] # "none"
                       /\ stage[u] \notin {"none", "finished"} => stage'[u] \notin {"none", "finished"}
  BY <1>8, <1>9
<1>11. StoreTypes'
  <2>1. \A x, y \in InBucket' : SameName(x, y)' => x = y
    BY <1>7 DEF SameName
  <2>2. \A x \in InBucket' : x.part \in 0..Streams /\ x.id \in Nat /\ x.id <= n' /\ (~shared' => x.type = x.kind)
    BY <1>1, <1>2, <1>6, <1>5, <1>7 DEF StoreTypes, LinesInv, Types
  <2>3. DOMAIN result' = Tasks
    BY <1>6 DEF StoreTypes
  <2> QED
    BY <1>1, <1>3, <1>7, <2>1, <2>2, <2>3 DEF StoreTypes, Unlike, Upload
<1>12. TasksInv'
  <2>1. Moving(t, "reply")
    BY <1>1 DEF Moving, Working
  <2> QED
    BY <1>1, <1>3, <2>1, MoveTasks
<1>13. OwnersInv'
  <2>1. ASSUME NEW x \in InBucket', Alive', x.id = n'
        PROVE  /\ cmd'.fn = "BACKUP"
               /\ \E m \in 1..(next' - 1) :
                    /\ FileOf(m)' = x.file /\ cmd'.lines[m].op = x.kind
                    /\ x.part # 0 => stage'[Task(m, x.part)] # "none"
    <3>1. CASE x = o
      <4>1. FileOf(l)' = x.file /\ cmd'.lines[l].op = x.kind
        BY <1>0, <1>1, <1>2, <1>6, <1>5, <3>1 DEF FileOf, Line
      <4>2. stage'[Task(l, x.part)] # "none"
        BY <1>2, <1>6, <1>5, <1>9, <3>1
      <4> QED
        BY <1>1, <1>2, <1>3, <4>1, <4>2
    <3>2. CASE x # o
      <4>1. x \in InBucket /\ x.part \in 0..Streams
        BY <1>7, <2>1, <3>2 DEF StoreTypes
      <4> QED
        BY <1>1, <1>10, <1>3, <2>1, <4>1, OwnersKept
    <3> QED
      BY <3>1, <3>2
  <2> QED
    BY <2>1 DEF OwnersInv
<1>14. LeftInv'
  <2>1. \A g : Attempted(g) => Attempted(g)'
    BY <1>1, <1>10, AttemptedKept
  <2>2. Attempted(f)'
    BY <1>0, <1>1, <1>9 DEF Attempted, Line
  <2> QED
    BY <1>1, <1>3, <1>6, <1>5, <1>7, <2>1, <2>2 DEF LeftInv
<1>15. StoredInv'
  <2>1. \A u \in Tasks : stage'[u] = "reply" => result'[u].verdict \in {"SAVED", "ERROR"}
    BY <1>3, <1>8, <1>9 DEF StoredInv
  <2>2. ASSUME NEW m \in 1..MaxLines, m # l PROVE LineStored(m)'
    <3>1. bucket' = bucket \/ Touches(Line(t).file, n)
      BY <1>0, <1>7
    <3>2. stage[t] # "none"
      BY <1>1
    <3> QED
      BY <1>1, <1>3, <1>8, <2>2, <3>1, <3>2, <1>0, OtherLine
  <2>3. LineStored(l)'
    <3>1. FileOf(l)' = f /\ \A x : x \in OfLine(l)' <=> x \in InBucket' /\ x.file = f /\ x.id = n
      BY <1>1, <1>2 DEF OfLine, FileOf
    <3>2. LineStored(l) /\ LineTasks(l)
      BY <1>2, <1>3 DEF StoredInv, TasksInv
    <3>3. \A p \in 0..Streams : p # t.part => stage'[Task(l, p)] = stage[Task(l, p)] /\ result'[Task(l, p)] = result[Task(l, p)]
      BY <1>2, <1>8, TaskNames
    <3>4. \A p \in 1..Streams : stage'[Task(l, p)] \notin {"clean", "composed"}
      <4>1. SUFFICES ASSUME NEW p \in 1..Streams, stage'[Task(l, p)] \in {"clean", "composed"} PROVE FALSE
        OBVIOUS
      <4>2. p # t.part
        BY <1>2, <1>9, <4>1
      <4>3. Composing(Task(l, p)) /\ stage[Task(l, p)] # "none"
        BY <3>3, <4>1, <4>2, PartsAre DEF Composing
      <4> QED
        BY <1>1, <1>2, <3>2, <4>2, <4>3 DEF LineTasks
    <3>5. ASSUME stage'[Task(l, 0)] = "reply", result'[Task(l, 0)].verdict = "SAVED"
          PROVE  Restorable(f, n)' /\ \A x \in InBucket' : x.file = f /\ x.id = n => x.part = 0 /\ x.whole
      <4>1. t.part = 0
        <5>1. stage[t] # "none" /\ (t.part \in 1..Streams => stage[Task(l, 0)] = "none")
          BY <1>1, <1>2, <3>2, PartsAre DEF LineTasks
        <5>2. t.part \in 1..Streams => stage'[Task(l, 0)] = "none"
          BY <3>3, <5>1, PartsAre
        <5> QED
          BY <1>2, <3>5, <5>2
      <4>2. v = "SAVED"
        BY <1>2, <1>9, <3>5, <4>1
      <4>3. ASSUME NEW x \in InBucket', x.file = f, x.id = n, x # o PROVE FALSE
        <5>1. x \in InBucket /\ x.part \in 0..Streams
          BY <1>7, <4>3 DEF StoreTypes
        <5>2. PICK m \in 1..(next - 1) : FileOf(m) = f /\ (x.part # 0 => stage[Task(m, x.part)] # "none")
          BY <1>3, <4>3, <5>1 DEF OwnersInv, Storing
        <5>3. m = l
          BY <1>2, <1>3, <5>2, LinesDiffer
        <5>4. x.part = 0
          BY <1>1, <1>2, <3>2, <4>1, <5>1, <5>2, <5>3, PartsAre DEF LineTasks
        <5> QED
          BY <1>7, <4>1, <4>2, <4>3, <5>4
      <4> QED
        BY <1>6, <1>5, <1>7, <4>1, <4>2, <4>3
    <3>6. ASSUME NEW p \in 1..Streams, HasChunk(l, p)'
          PROVE  \E x \in InBucket' : x.file = f /\ x.id = n /\ x.part = p /\ x.whole
      <4>1. CASE p = t.part
        <5>1. v = "SAVED"
          BY <1>2, <1>9, <3>6, <4>1 DEF HasChunk
        <5> QED
          BY <1>6, <1>5, <1>7, <4>1, <5>1
      <4>2. CASE p # t.part
        <5>1. \A q \in 1..Streams : stage'[Task(l, q)] \in Unfinished => stage[Task(l, q)] \in Unfinished
          BY <1>1, <1>2, <3>3, PartsAre DEF Unfinished
        <5>2. HasChunk(l, p)
          BY <1>1, <3>3, <3>6, <4>2, <5>1, PartsAre DEF HasChunk
        <5>3. PICK x \in OfLine(l) : x.part = p /\ x.whole
          BY <3>2, <5>2 DEF LineStored
        <5>4. x \in InBucket /\ x.file = f /\ x.id = n
          BY <1>2, <5>3 DEF OfLine
        <5> QED
          BY <1>7, <4>2, <5>3, <5>4
      <4> QED
        BY <4>1, <4>2
    <3>7. stage'[Task(l, 0)] = "reply" /\ result'[Task(l, 0)].verdict = "SAVED" =>
             Restorable(FileOf(l), n)' /\ \A x \in OfLine(l)' : x.part = 0 /\ x.whole
      BY <1>1, <3>1, <3>5
    <3>8. \A p \in 1..Streams : HasChunk(l, p)' => \E x \in OfLine(l)' : x.part = p /\ x.whole
      BY <3>1, <3>6
    <3> QED
      BY <3>4, <3>7, <3>8 DEF LineStored
  <2> QED
    BY <1>2, <2>1, <2>2, <2>3 DEF StoredInv
<1>16. SavedInv'
  <2>1. stage[t] \notin {"none", "finished"}
    BY <1>1
  <2>2. ASSUME NEW r \in saved'
        PROVE  /\ Restorable(r[1], r[2])'
               /\ Alive' /\ r[2] = n' =>
                    /\ cmd'.fn = "BACKUP"
                    /\ \E m \in 1..(next' - 1) : /\ FileOf(m)' = r[1]
                                                 /\ \A p \in 0..Streams : stage'[Task(m, p)] \in {"none", "finished"}
    <3>1. r \in saved /\ ~(r[1] = f /\ r[2] = n)
      BY <1>1, <2>1, <2>2, <1>0, SavedBefore
    <3>2. Restorable(r[1], r[2]) => Restorable(r[1], r[2])'
      BY <1>1, <1>7, <3>1, SameBucket DEF Touches
    <3> QED
      BY <1>1, <2>1, <3>1, <3>2, SavedKept
  <2> QED
    BY <2>2 DEF SavedInv
<1>17. AnswersInv'
  <2>1. \A e : Sound(e)' <=> Sound(e)
    BY <1>1 DEF Sound
  <2>2. \A u \in Tasks : stage'[u] = "reply" => Sound(result'[u])
    <3>1. Sound(result'[t])
      BY <1>9 DEF Sound
    <3> QED
      BY <1>8, <3>1 DEF AnswersInv
  <2>3. \A u \in Tasks : stage'[u] = "reply" => Sound(result[u])'
    BY <2>1, <2>2 DEF Sound
  <2> QED
    BY <1>1, <2>1, <2>3 DEF AnswersInv, Elements
<1> QED
  BY <1>11, <1>12, <1>13, <1>14, <1>15, <1>16, <1>17

(* An answer adds one element to the answers of its line. *)
LEMMA AnswerIs ==
    ASSUME LinesInv, StoreTypes, NEW l \in 1..MaxLines, NEW a, Answer(l, a), NEW k \in 1..MaxLines
    PROVE  /\ answers'[k] \in Seq(Elements(answers'[k]))
           /\ \A e \in Elements(answers'[k]) : e \in Elements(answers[k]) \/ e = a
<1>1. answers[k] \in Seq(Elements(answers[k]))
  BY DEF StoreTypes
<1>2. answers'[k] = answers[k] \/ answers'[k] = Append(answers[k], a)
  BY DEF Answer, LinesInv, Types
<1>3. CASE answers'[k] = answers[k]
  BY <1>1, <1>3
<1>4. CASE answers'[k] = Append(answers[k], a)
  <2>1. /\ Append(answers[k], a) \in Seq(Elements(Append(answers[k], a)))
        /\ Elements(Append(answers[k], a)) = Elements(answers[k]) \cup {a}
    BY <1>1, AppendedElements
  <2> QED
    BY <1>4, <2>1
<1> QED
  BY <1>2, <1>3, <1>4

(* The last step of a line preserves the invariant when what it answers is true of
   the bucket. *)
LEMMA ReplyStep ==
    ASSUME LinesInv, StoreInv, Alive, NEW t \in Tasks, stage[t] \notin {"none", "finished"},
           stage' = [stage EXCEPT ![t] = "finished"],
           NEW l, l = t.line, NEW f, f = Line(t).file,
           \A p \in 0..Streams : Task(l, p) # t => stage[Task(l, p)] \in {"none", "finished"},
           NEW a, Answer(l, a), Sound(a),
           DOMAIN result' = Tasks, \A u \in Tasks : u # t => result'[u] = result[u],
           NEW v, cmd.fn = "BACKUP" => Record(t, v), cmd.fn # "BACKUP" => saved' = saved /\ tainted' = tainted,
           cmd.fn = "BACKUP" /\ v = "SAVED" =>
             Restorable(f, n) /\ (f \notin tainted => \A o \in OfLine(l) : o.part = 0 /\ o.whole),
           TasksInv', UNCHANGED <<shared, n, cmd, next, exit, bucket, chunkError>>
    PROVE  StoreInv'
<1> USE DEF StoreInv
<1>1. /\ n' = n /\ cmd' = cmd /\ next' = next /\ exit' = exit /\ shared' = shared /\ bucket' = bucket
      /\ chunkError' = chunkError
  OBVIOUS
<1>2. InBucket' = InBucket /\ \A g, i : Restorable(g, i)' <=> Restorable(g, i)
  BY <1>1, SameBucket
<1>3. Alive' /\ (Storing' <=> Storing) /\ (Storing <=> cmd.fn = "BACKUP")
  BY <1>1 DEF Alive, Storing
<1>4. \A u \in Tasks : u # t => stage'[u] = stage[u]
  BY DEF LinesInv, Types
<1>5. stage'[t] = "finished"
  BY DEF LinesInv, Types
<1>6. l \in 1..MaxLines /\ l \in 1..(next - 1) /\ f = FileOf(l) /\ f = FileOf(l)'
  BY <1>1, ActiveLine DEF FileOf
<1>7. \A p \in 0..Streams : stage'[Task(l, p)] \in {"none", "finished"}
  BY <1>4, <1>5, <1>6, TaskNames
<1>8. \/ cmd.fn = "BACKUP" /\ v = "SAVED" /\ saved' = saved \cup {<<f, n>>} /\ tainted' = tainted
      \/ cmd.fn = "BACKUP" /\ saved' = saved /\ tainted' = tainted \cup {f}
      \/ cmd.fn # "BACKUP" /\ saved' = saved /\ tainted' = tainted
  BY DEF Record
<1>9. tainted \subseteq tainted' /\ \A s \in saved' : s \in saved \/ s = <<f, n>>
  BY <1>8
<1>10. StoreTypes'
  <2>1. \A k \in 1..MaxLines : answers'[k] \in Seq(Elements(answers'[k]))
    BY <1>6, AnswerIs
  <2>2. bucket' \in Seq(InBucket') /\ \A o \in InBucket' : o \in InBucket
    BY <1>1, <1>2 DEF StoreTypes
  <2> QED
    BY <1>1, <1>9, <2>1, <2>2, StoreTypesKept
<1>11. OwnersInv'
  <2>1. \A u \in Tasks : stage[u] # "none" => stage'[u] # "none"
    BY <1>4, <1>5
  <2>2. ASSUME NEW x \in InBucket', Alive', x.id = n'
        PROVE  /\ cmd'.fn = "BACKUP"
               /\ \E m \in 1..(next' - 1) :
                    /\ FileOf(m)' = x.file /\ cmd'.lines[m].op = x.kind
                    /\ x.part # 0 => stage'[Task(m, x.part)] # "none"
    <3>1. x \in InBucket /\ x.part \in 0..Streams
      BY <1>2, <2>2 DEF StoreTypes
    <3> QED
      BY <1>1, <2>1, <2>2, <3>1, OwnersKept
  <2> QED
    BY <2>2 DEF OwnersInv
<1>12. LeftInv'
  <2> SUFFICES ASSUME NEW o \in InBucket, o.file \notin tainted', ~(o.whole /\ o.part = 0)
               PROVE  Storing' /\ o.id = n /\ Attempted(o.file)'
    BY <1>1, <1>2 DEF LeftInv
  <2>1. Storing /\ o.id = n /\ Attempted(o.file) /\ o.file \notin tainted
    BY <1>9 DEF LeftInv
  <2>2. PICK u \in Tasks : stage[u] \notin {"none", "finished"} /\ Line(u).file = o.file
    BY <2>1 DEF Attempted
  <2>3. u # t
    <3>1. SUFFICES ASSUME u = t PROVE FALSE
      OBVIOUS
    <3>2. o.file = f /\ cmd.fn = "BACKUP"
      BY <1>3, <2>1, <2>2, <3>1
    <3>3. v = "SAVED"
      BY <1>8, <3>2
    <3>4. o \in OfLine(l)
      BY <1>6, <2>1, <3>2 DEF OfLine
    <3> QED
      BY <2>1, <3>2, <3>3, <3>4
  <2>4. stage'[u] \notin {"none", "finished"} /\ Line(u)' = Line(u)
    BY <1>1, <1>4, <2>2, <2>3 DEF Line
  <2>5. Attempted(o.file)'
    BY <2>2, <2>4 DEF Attempted
  <2> QED
    BY <1>3, <2>1, <2>5
<1>13. StoredInv'
  <2> SUFFICES ASSUME Storing
               PROVE  /\ \A m \in 1..MaxLines : LineStored(m)'
                      /\ \A u \in Tasks : stage'[u] = "reply" => result'[u].verdict \in {"SAVED", "ERROR"}
    BY <1>3 DEF StoredInv
  <2>1. \A u \in Tasks : stage'[u] = "reply" => result'[u].verdict \in {"SAVED", "ERROR"}
    BY <1>4, <1>5 DEF StoredInv
  <2>2. ASSUME NEW m \in 1..MaxLines, m # l PROVE LineStored(m)'
    <3>1. stage[t] # "none" /\ m # t.line
      BY <2>2
    <3> QED
      BY <1>1, <1>9, <3>1, OtherLine
  <2>3. LineStored(l)'
    <3>1. \A p \in 0..Streams : stage'[Task(l, p)] \notin Unfinished \cup {"clean", "composed"}
      BY <1>7 DEF Unfinished
    <3>2. \A p \in 1..Streams : ~HasChunk(l, p)'
      BY <3>1, PartsAre DEF HasChunk, Unfinished
    <3> QED
      BY <3>1, <3>2, PartsAre DEF LineStored, Unfinished
  <2> QED
    BY <2>1, <2>2, <2>3
<1>14. SavedInv'
  <2>1. ASSUME NEW r \in saved'
        PROVE  /\ Restorable(r[1], r[2])'
               /\ Alive' /\ r[2] = n' =>
                    /\ cmd'.fn = "BACKUP"
                    /\ \E m \in 1..(next' - 1) : /\ FileOf(m)' = r[1]
                                                 /\ \A p \in 0..Streams : stage'[Task(m, p)] \in {"none", "finished"}
    <3>1. CASE r \in saved
      BY <1>1, <1>2, <3>1, SavedKept
    <3>2. CASE r \notin saved
      <4>1. r = <<f, n>> /\ cmd.fn = "BACKUP" /\ v = "SAVED"
        BY <1>8, <2>1, <3>2
      <4>2. r[1] = f /\ r[2] = n
        BY <4>1
      <4>3. Restorable(r[1], r[2])'
        BY <1>2, <4>1, <4>2
      <4> QED
        BY <1>1, <1>6, <1>7, <4>1, <4>2, <4>3
    <3> QED
      BY <3>1, <3>2
  <2> QED
    BY <2>1 DEF SavedInv
<1>15. AnswersInv'
  <2>1. \A u \in Tasks : stage'[u] = "reply" => Sound(result[u]) /\ result'[u] = result[u]
    BY <1>4, <1>5 DEF AnswersInv
  <2>2. ASSUME NEW e, Sound(e) PROVE Sound(e)'
    BY <1>9, <2>2, SoundKept
  <2>3. \A u \in Tasks : stage'[u] = "reply" => Sound(result[u])'
    <3>1. ASSUME NEW u \in Tasks, stage'[u] = "reply" PROVE Sound(result[u])'
      BY <1>9, <2>1, <3>1 DEF Sound
    <3> QED
      BY <3>1
  <2>4. ASSUME NEW k \in 1..MaxLines, NEW e \in Elements(answers'[k]) PROVE Sound(e)'
    <3>1. e \in Elements(answers[k]) \/ e = a
      BY <1>6, AnswerIs
    <3>2. Sound(e)
      BY <3>1 DEF AnswersInv
    <3> QED
      BY <2>2, <3>2
  <2>5. \A k \in 1..MaxLines : \A e \in Elements(answers'[k]) : Sound(e)'
    BY <2>4
  <2> QED
    BY <2>3, <2>5 DEF AnswersInv
<1> QED
  BY <1>10, <1>11, <1>12, <1>13, <1>14, <1>15

(* ReplyWhole preserves the invariant. *)
LEMMA ReplyWholeStored ==
    ASSUME LinesInv, StoreInv, Alive, NEW t \in Tasks, ReplyWhole(t)
    PROVE  StoreInv'
<1> USE DEF StoreInv
<1>0. PICK l, f, a, v : l = t.line /\ f = Line(t).file /\ a = result[t] /\ v = result[t].verdict
  OBVIOUS
<1>1. /\ n' = n /\ cmd' = cmd /\ next' = next /\ exit' = exit /\ shared' = shared /\ bucket' = bucket
      /\ chunkError' = chunkError /\ done' = done /\ mu' = mu
      /\ stage[t] = "reply" /\ t.part = 0 /\ stage' = [stage EXCEPT ![t] = "finished"]
      /\ result' = [result EXCEPT ![t] = None]
  BY DEF ReplyWhole, reader, chunks, Goto
<1>2. Answer(l, a) /\ (IF cmd.fn = "BACKUP" THEN Record(t, v) ELSE UNCHANGED hist)
  BY <1>0 DEF ReplyWhole
<1>3. (cmd.fn = "BACKUP" => Record(t, v)) /\ (cmd.fn # "BACKUP" => saved' = saved /\ tainted' = tainted)
  BY <1>2 DEF hist
<1>4. /\ l \in 1..MaxLines /\ l \in 1..(next - 1) /\ t = Task(l, 0) /\ f = FileOf(l) /\ LineTasks(l)
  <2>1. stage[t] # "none"
    BY <1>1
  <2> QED
    BY <1>0, <1>1, <2>1, ActiveLine DEF TasksInv
<1>5. \A p \in 0..Streams : Task(l, p) # t => stage[Task(l, p)] \in {"none", "finished"}
  BY <1>1, <1>4, PartsAre DEF LineTasks
<1>6. Sound(a)
  BY <1>0, <1>1 DEF AnswersInv
<1>7. cmd.fn = "BACKUP" /\ v = "SAVED" => Restorable(f, n) /\ \A o \in OfLine(l) : o.part = 0 /\ o.whole
  BY <1>0, <1>1, <1>4 DEF StoredInv, Storing, LineStored
<1>8. TasksInv'
  <2>1. Moving(t, "finished")
    BY <1>1 DEF Moving, Working
  <2> QED
    BY <1>1, <2>1, MoveTasks
<1>9. DOMAIN result' = Tasks /\ \A u \in Tasks : u # t => result'[u] = result[u]
  BY <1>1 DEF StoreTypes
<1>10. stage[t] \notin {"none", "finished"}
  BY <1>1
<1> HIDE DEF StoreInv
<1> QED
  BY <1>0, <1>1, <1>2, <1>3, <1>5, <1>6, <1>7, <1>8, <1>9, <1>10, ReplyStep

(* ReplyComposed preserves the invariant. *)
LEMMA ReplyComposedStored ==
    ASSUME LinesInv, StoreInv, Alive, NEW t \in Tasks, ReplyComposed(t)
    PROVE  StoreInv'
<1> USE DEF StoreInv
<1>0. PICK l, f, v, a : l = t.line /\ f = Line(t).file /\ v = (IF l \in chunkError THEN "ERROR" ELSE "SAVED") /\ a = [verdict |-> v]
  OBVIOUS
<1>1. /\ n' = n /\ cmd' = cmd /\ next' = next /\ exit' = exit /\ shared' = shared /\ bucket' = bucket
      /\ chunkError' = chunkError /\ done' = done /\ result' = result
      /\ stage[t] = "composed" /\ stage' = [stage EXCEPT ![t] = "finished"]
  BY DEF ReplyComposed, reader, chunks, Goto
<1>2. Answer(l, a) /\ Record(t, v)
  BY <1>0 DEF ReplyComposed
<1>3. cmd.fn = "BACKUP"
  BY <1>1 DEF TasksInv
<1>4. /\ l \in 1..MaxLines /\ l \in 1..(next - 1) /\ t.part \in 0..Streams /\ t = Task(l, t.part)
      /\ f = FileOf(l) /\ LineTasks(l) /\ (t.part = 0 \/ t.part \in 1..Streams)
  <2>1. stage[t] # "none"
    BY <1>1
  <2> QED
    BY <1>0, <2>1, ActiveLine DEF TasksInv
<1>5. Composing(t) /\ t.part \in 1..Streams
  BY <1>1, <1>4 DEF Composing, LineTasks
<1>6. \A p \in 0..Streams : Task(l, p) # t => stage[Task(l, p)] \in {"none", "finished"}
  <2>1. stage[Task(l, 0)] = "none"
    BY <1>1, <1>4, <1>5, PartsAre DEF LineTasks
  <2>2. \A p \in 1..Streams : p # t.part => stage[Task(l, p)] = "finished"
    BY <1>4, <1>5 DEF LineTasks
  <2> QED
    BY <1>4, <2>1, <2>2, PartsAre
<1>7. Sound(a)
  BY <1>0 DEF Sound
<1>8. cmd.fn = "BACKUP" /\ v = "SAVED" =>
        Restorable(f, n) /\ (f \notin tainted => \A o \in OfLine(l) : o.part = 0 /\ o.whole)
  BY <1>0, <1>1, <1>3, <1>4, <1>5 DEF StoredInv, Storing, LineStored
<1>9. TasksInv'
  BY ComposedTasks
<1>10. DOMAIN result' = Tasks /\ \A u \in Tasks : u # t => result'[u] = result[u]
  BY <1>1 DEF StoreTypes
<1>11. stage[t] \notin {"none", "finished"}
  BY <1>1
<1> HIDE DEF StoreInv
<1> QED
  BY <1>0, <1>1, <1>2, <1>3, <1>6, <1>7, <1>8, <1>9, <1>10, <1>11, ReplyStep

(* CountChunk preserves the invariant: its line has another chunk at work, or is
   composed. *)
LEMMA CountStored ==
    ASSUME LinesInv, StoreInv, Alive, NEW t \in Tasks, CountChunk(t)
    PROVE  StoreInv'
<1> USE DEF StoreInv
<1>0. PICK l, f : l = t.line /\ f = Line(t).file
  OBVIOUS
<1>1. /\ n' = n /\ cmd' = cmd /\ next' = next /\ exit' = exit /\ shared' = shared /\ bucket' = bucket
      /\ answers' = answers /\ saved' = saved /\ tainted' = tainted
      /\ stage[t] = "reply" /\ t.part # 0 /\ mu = None
      /\ result' = [result EXCEPT ![t] = None]
  BY DEF CountChunk, reader, hist
<1>2. /\ chunkError \subseteq chunkError'
      /\ result[t].verdict = "ERROR" => l \in chunkError'
  BY <1>0 DEF CountChunk
<1>3. \/ stage' = [stage EXCEPT ![t] = "compose"]
      \/ stage' = [stage EXCEPT ![t] = "finished"] /\ done'[l] # Streams
  BY <1>0 DEF CountChunk, Goto
<1>4. /\ l \in 1..MaxLines /\ l \in 1..(next - 1) /\ t.part \in 1..Streams /\ t = Task(l, t.part)
      /\ f = FileOf(l) /\ LineTasks(l)
  <2>1. stage[t] # "none"
    BY <1>1
  <2> QED
    BY <1>0, <1>1, <2>1, ActiveLine DEF TasksInv
<1>5. PICK s \in {"compose", "finished"} : stage' = [stage EXCEPT ![t] = s] /\ (s = "finished" => done'[l] # Streams)
  BY <1>3
<1>6. \A u \in Tasks : u # t => stage'[u] = stage[u] /\ result'[u] = result[u]
  BY <1>1, <1>5 DEF LinesInv, Types, StoreTypes
<1>7. stage'[t] = s
  BY <1>5 DEF LinesInv, Types
<1>8. InBucket' = InBucket /\ \A g, i : Restorable(g, i)' <=> Restorable(g, i)
  BY <1>1, SameBucket
<1>9. cmd.fn = "BACKUP" /\ Storing /\ Alive' /\ Storing'
  BY <1>1 DEF TasksInv, Storing, Alive
<1>10. TasksInv'
  BY CountTasks
<1>11. \A u \in Tasks : stage[u] # "none" => stage'[u] # "none"
  BY <1>5, <1>6, <1>7
<1>12. \A u \in Tasks : ~Composing(u)
  BY <1>1, NoneAssumption DEF TasksInv
<1>13. StoreTypes'
  <2>1. bucket' \in Seq(InBucket') /\ \A o \in InBucket' : o \in InBucket
    BY <1>1, <1>8 DEF StoreTypes
  <2>2. DOMAIN result' = Tasks /\ \A k \in 1..MaxLines : answers'[k] \in Seq(Elements(answers'[k]))
    BY <1>1 DEF StoreTypes
  <2> QED
    BY <1>1, <2>1, <2>2, StoreTypesKept
<1>14. OwnersInv'
  <2>2. ASSUME NEW x \in InBucket', Alive', x.id = n'
        PROVE  /\ cmd'.fn = "BACKUP"
               /\ \E m \in 1..(next' - 1) :
                    /\ FileOf(m)' = x.file /\ cmd'.lines[m].op = x.kind
                    /\ x.part # 0 => stage'[Task(m, x.part)] # "none"
    <3>1. x \in InBucket /\ x.part \in 0..Streams
      BY <1>8, <2>2 DEF StoreTypes
    <3> QED
      BY <1>1, <1>9, <1>11, <2>2, <3>1, OwnersKept
  <2> QED
    BY <2>2 DEF OwnersInv
<1>15. LeftInv'
  <2>1. ASSUME NEW g, Attempted(g) PROVE Attempted(g)'
    <3>1. PICK u \in Tasks : stage[u] \notin {"none", "finished"} /\ Line(u).file = g
      BY <2>1 DEF Attempted
    <3>2. CASE u # t
      BY <1>1, <1>6, <3>1, <3>2 DEF Attempted, Line
    <3>3. CASE u = t /\ s = "compose"
      BY <1>1, <1>7, <3>1, <3>3 DEF Attempted, Line
    <3>4. CASE u = t /\ s = "finished"
      <4>1. stage'[Task(l, t.part)] # "none"
        BY <1>4, <1>7, <3>4
      <4>2. LineTasks(l)' /\ done'[l] # Streams
        BY <1>4, <1>5, <1>10, <3>4 DEF TasksInv
      <4>3. PICK q \in 1..Streams : q \notin Counted(l)'
        <5>1. Counted(l)' # 1..Streams
          BY <4>2, ChunkCount DEF LineTasks
        <5> QED
          BY <5>1 DEF Counted
      <4>4. stage'[Task(l, q)] \notin {"none", "finished"}
        BY <1>4, <4>1, <4>2, <4>3 DEF LineTasks, Counted
      <4>5. Task(l, q) \in Tasks /\ Task(l, q).line = l
        BY <1>4, TaskNames, PartsAre
      <4>6. Line(Task(l, q))' = Line(t)
        BY <1>0, <1>1, <4>5 DEF Line
      <4> QED
        BY <3>1, <3>4, <4>4, <4>5, <4>6 DEF Attempted
    <3> QED
      BY <3>2, <3>3, <3>4
  <2> QED
    BY <1>1, <1>8, <1>9, <2>1 DEF LeftInv
<1>16. StoredInv'
  <2>1. \A u \in Tasks : stage'[u] = "reply" => result'[u].verdict \in {"SAVED", "ERROR"}
    BY <1>5, <1>6, <1>7, <1>9 DEF StoredInv
  <2>2. ASSUME NEW m \in 1..MaxLines, m # l PROVE LineStored(m)'
    <3>1. stage[t] # "none" /\ m # t.line
      BY <1>0, <1>1, <2>2
    <3> QED
      BY <1>1, <1>2, <1>5, <1>6, <1>9, <3>1, OtherLine
  <2>3. LineStored(l)'
    <3>1. \A o : o \in OfLine(l)' <=> o \in OfLine(l)
      BY <1>1, <1>8 DEF OfLine, FileOf
    <3>2. LineStored(l) /\ stage[Task(l, 0)] = "none"
      BY <1>1, <1>4, <1>9, PartsAre DEF StoredInv, LineTasks
    <3>3. stage'[Task(l, 0)] # "reply"
      BY <1>4, <1>6, <3>2, TaskNames, PartsAre
    <3>4. \A p \in 1..Streams : stage'[Task(l, p)] \notin {"clean", "composed"}
      BY <1>4, <1>5, <1>6, <1>7, <1>12, TaskNames, PartsAre DEF Composing
    <3>5. ASSUME NEW p \in 1..Streams, HasChunk(l, p)' PROVE \E o \in OfLine(l)' : o.part = p /\ o.whole
      <4>1. Task(l, p) \in Tasks
        BY <1>4, TaskNames, PartsAre
      <4>2. HasChunk(l, p)
        <5>1. CASE Task(l, p) = t
          <6>1. l \notin chunkError'
            BY <1>5, <1>7, <3>5, <5>1 DEF HasChunk
          <6>2. result[t].verdict = "SAVED"
            BY <1>1, <1>2, <1>9, <6>1 DEF StoredInv
          <6> QED
            BY <1>1, <5>1, <6>2 DEF HasChunk
        <5>2. CASE Task(l, p) # t
          <6>1. stage'[Task(l, p)] = stage[Task(l, p)] /\ result'[Task(l, p)] = result[Task(l, p)]
            BY <1>6, <4>1, <5>2
          <6>2. \E q \in 1..Streams : stage[Task(l, q)] \in Unfinished
            BY <1>1, <1>4 DEF Unfinished
          <6> QED
            BY <1>2, <3>5, <6>1, <6>2 DEF HasChunk
        <5> QED
          BY <5>1, <5>2
      <4> QED
        BY <3>1, <3>2, <4>2 DEF LineStored
    <3>6. \A p \in 1..Streams : HasChunk(l, p)' => \E o \in OfLine(l)' : o.part = p /\ o.whole
      BY <3>5
    <3> QED
      BY <3>3, <3>4, <3>6 DEF LineStored
  <2> QED
    BY <1>4, <2>1, <2>2, <2>3 DEF StoredInv
<1>17. SavedInv'
  <2>1. stage[t] \notin {"none", "finished"}
    BY <1>1
  <2>2. ASSUME NEW r \in saved'
        PROVE  /\ Restorable(r[1], r[2])'
               /\ Alive' /\ r[2] = n' =>
                    /\ cmd'.fn = "BACKUP"
                    /\ \E m \in 1..(next' - 1) : /\ FileOf(m)' = r[1]
                                                 /\ \A p \in 0..Streams : stage'[Task(m, p)] \in {"none", "finished"}
    <3>1. r \in saved /\ (Restorable(r[1], r[2]) => Restorable(r[1], r[2])')
      BY <1>1, <1>8, <2>2
    <3> QED
      BY <1>1, <1>5, <2>1, <3>1, SavedKept
  <2> QED
    BY <2>2 DEF SavedInv
<1>18. AnswersInv'
  <2>1. \A e : Sound(e)' <=> Sound(e)
    BY <1>1 DEF Sound
  <2>2. \A u \in Tasks : stage'[u] = "reply" => Sound(result[u]) /\ result'[u] = result[u]
    BY <1>5, <1>6, <1>7 DEF AnswersInv
  <2>3. \A u \in Tasks : stage'[u] = "reply" => Sound(result[u])'
    BY <1>1, <2>2 DEF Sound
  <2> QED
    BY <1>1, <2>1, <2>3 DEF AnswersInv, Elements
<1> QED
  BY <1>10, <1>13, <1>14, <1>15, <1>16, <1>17, <1>18

(* Chunks have a first one. *)
LEMMA FirstChunk ==
    ASSUME NEW C, \A x \in C : x.part \in Nat, C # {}
    PROVE  (CHOOSE o \in C : \A p \in C : o.part <= p.part) \in C
<1> DEFINE T == {x.part : x \in C}
<1>1. T \in SUBSET Nat /\ T # {}
  OBVIOUS
<1>2. PICK m \in T : \A k \in T : m <= k
  BY <1>1, LeastElement
<1>3. PICK x \in C : x.part = m
  BY <1>2
<1>4. \E o \in C : \A p \in C : o.part <= p.part
  BY <1>2, <1>3
<1> QED
  BY <1>4

(* ComposeChunks preserves the invariant: when no chunk failed, all of those
   composed are whole and of the type of the request. *)
LEMMA ComposeStored ==
    ASSUME LinesInv, StoreInv, Alive, NEW t \in Tasks, ComposeChunks(t)
    PROVE  StoreInv'
<1> USE DEF StoreInv
<1> DEFINE C == Chunks(t)
           first == CHOOSE o \in C : \A p \in C : o.part <= p.part
           made == [file |-> Line(t).file, id |-> n, part |-> 0,
                    kind |-> Line(t).op, type |-> first.type, whole |-> \A o \in C : o.whole]
<1>0. PICK l, f : l = t.line /\ f = Line(t).file
  OBVIOUS
<1>1. /\ n' = n /\ cmd' = cmd /\ next' = next /\ exit' = exit /\ shared' = shared
      /\ answers' = answers /\ saved' = saved /\ tainted' = tainted
      /\ stage[t] = "compose" /\ result' = result /\ mu' = mu /\ done' = done
  BY DEF ComposeChunks, reader, hist
<1>2. \/ /\ Cardinality(C) = Streams /\ Put(made) /\ stage' = [stage EXCEPT ![t] = "clean"]
         /\ chunkError' = chunkError
      \/ /\ chunkError' = chunkError \cup {l} /\ bucket' = bucket
         /\ \/ stage' = [stage EXCEPT ![t] = "clean"]
            \/ stage' = [stage EXCEPT ![t] = "composed"]
  <2>1. \/ /\ Cardinality(Chunks(t)) = Streams
           /\ Put([file |-> Line(t).file, id |-> n, part |-> 0,
                   kind |-> Line(t).op,
                   type |-> (CHOOSE o \in Chunks(t) : \A p \in Chunks(t) : o.part <= p.part).type,
                   whole |-> \A o \in Chunks(t) : o.whole])
           /\ stage' = [stage EXCEPT ![t] = "clean"] /\ chunkError' = chunkError
        \/ /\ chunkError' = chunkError \cup {t.line}
           /\ \/ stage' = [stage EXCEPT ![t] = "clean"]
              \/ stage' = [stage EXCEPT ![t] = "composed"]
           /\ bucket' = bucket
    BY Zenon DEF ComposeChunks, Goto
  <2> QED
    BY <1>0, <2>1, Zenon
<1>3. PICK s \in {"clean", "composed"} : stage' = [stage EXCEPT ![t] = s] /\ (s = "composed" => l \in chunkError')
  <2>1. chunkError' = chunkError \cup {l} => l \in chunkError'
    OBVIOUS
  <2> QED
    BY <1>2, <2>1
<1>4. /\ l \in 1..MaxLines /\ l \in 1..(next - 1) /\ t.part \in 0..Streams /\ t = Task(l, t.part)
      /\ f = FileOf(l) /\ LineTasks(l) /\ (t.part = 0 \/ t.part \in 1..Streams)
  <2>1. stage[t] # "none"
    BY <1>1
  <2> QED
    BY <1>0, <2>1, ActiveLine DEF TasksInv
<1>5. Composing(t) /\ t.part \in 1..Streams
  BY <1>1, <1>4 DEF Composing, LineTasks
<1>6. /\ stage[Task(l, 0)] = "none"
      /\ \A p \in 1..Streams : p # t.part => stage[Task(l, p)] = "finished"
      /\ \A p \in 1..Streams : stage[Task(l, p)] \in {"finished", "compose"}
  BY <1>1, <1>4, <1>5, PartsAre DEF LineTasks
<1>7. \A u \in Tasks : u # t => stage'[u] = stage[u]
  BY <1>3 DEF LinesInv, Types
<1>8. stage'[t] = s
  BY <1>3 DEF LinesInv, Types
<1>9. cmd.fn = "BACKUP" /\ Storing /\ Alive' /\ Storing' /\ Upload(l) /\ LineStored(l)
  BY <1>1, <1>4 DEF TasksInv, Storing, Alive, StoreTypes, StoredInv
<1>10. \A x \in C : x \in InBucket /\ x.file = f /\ x.id = n /\ x.part \in 1..Streams /\ x.part \in Nat
  BY <1>0, PartsAre DEF Chunks, IsChunk, StoreTypes
<1>11. l \notin chunkError => \A x \in C : x.whole
  <2>1. SUFFICES ASSUME l \notin chunkError, NEW x \in C PROVE x.whole
    OBVIOUS
  <2>2. HasChunk(l, x.part)
    <3>1. stage[Task(l, t.part)] \in Unfinished
      BY <1>1, <1>4 DEF Unfinished
    <3> QED
      BY <1>5, <1>6, <1>10, <2>1, <3>1 DEF HasChunk
  <2>3. PICK y \in OfLine(l) : y.part = x.part /\ y.whole
    BY <1>9, <1>10, <2>2 DEF LineStored
  <2>4. SameName(x, y) /\ y \in InBucket
    BY <1>4, <1>10, <2>3 DEF OfLine, SameName
  <2>5. x = y
    BY <1>10, <2>4 DEF StoreTypes
  <2> QED
    BY <2>3, <2>5
<1>12. Cardinality(C) = Streams /\ ~shared => first.type = Line(t).op
  <2>1. SUFFICES ASSUME Cardinality(C) = Streams, ~shared PROVE first.type = Line(t).op
    BY Zenon
  <2>2. C # {}
    <3>1. Cardinality({}) = 0 /\ Streams # 0
      BY FS_EmptySet, ParametersAssumption
    <3> HIDE DEF C
    <3> QED
      BY <2>1, <3>1
  <2>3. first \in C
    <3>1. \A x \in C : x.part \in Nat
      BY <1>10
    <3> HIDE DEF C
    <3> QED
      BY <2>2, <3>1, FirstChunk
  <2> HIDE DEF C, first
  <2>4. first \in InBucket /\ first.file = f /\ first.id = n /\ first.type = first.kind
    BY <1>10, <2>1, <2>3 DEF StoreTypes
  <2>5. PICK k \in 1..(next - 1) : FileOf(k) = f /\ cmd.lines[k].op = first.kind
    BY <1>9, <2>4 DEF OwnersInv, Storing
  <2>6. k = l
    BY <1>4, <1>9, <2>5, LinesDiffer
  <2> QED
    BY <1>0, <2>4, <2>5, <2>6 DEF Line
<1>13. PICK o :
        /\ o.file = f /\ o.id = n /\ o.part = 0 /\ o.kind = Line(t).op
        /\ \/ Put(o) /\ (~shared => o.type = o.kind) /\ (l \notin chunkError' => o.whole)
           \/ l \in chunkError' /\ bucket' = bucket
  <2>1. PICK m : m = made
    OBVIOUS
  <2>2. /\ m.file = f /\ m.id = n /\ m.part = 0 /\ m.kind = Line(t).op /\ m.type = first.type
        /\ (\A x \in C : x.whole) => m.whole
    <3>1. m.whole = (\A x \in C : x.whole)
      BY <2>1, Zenon
    <3>2. m.file = f /\ m.id = n /\ m.part = 0 /\ m.kind = Line(t).op /\ m.type = first.type
      BY <1>0, <2>1, Zenon
    <3> QED
      BY <3>1, <3>2, Zenon
  <2>3. CASE Cardinality(C) = Streams /\ Put(made) /\ chunkError' = chunkError
    <3>1. Put(m)
      BY <2>1, <2>3, Zenon
    <3>2. ~shared => m.type = m.kind
      BY <1>12, <2>2, <2>3, Zenon
    <3>3. l \notin chunkError' => m.whole
      BY <1>11, <2>2, <2>3, Zenon
    <3> QED
      BY <2>2, <3>1, <3>2, <3>3, Zenon
  <2>4. CASE chunkError' = chunkError \cup {l} /\ bucket' = bucket
    <3>1. l \in chunkError'
      BY <2>4
    <3> QED
      BY <2>2, <2>4, <3>1, Zenon
  <2> QED
    BY <1>2, <2>3, <2>4, Zenon
<1>14. chunkError \subseteq chunkError'
  BY <1>2
<1> HIDE DEF C, first, made
<1>15. /\ bucket' \in Seq(InBucket')
       /\ \A x \in InBucket' : (x = o /\ (~shared => o.type = o.kind)) \/ x \in InBucket
       /\ l \notin chunkError' => \A x \in InBucket' : x.file = f /\ x.id = n /\ x.part = 0 => x.whole
       /\ l \notin chunkError' => Restorable(f, n)'
       /\ bucket' = bucket \/ Touches(f, n)
       /\ \A x, y \in InBucket' : SameName(x, y) => x = y
  <2>1. CASE Put(o) /\ (~shared => o.type = o.kind) /\ (l \notin chunkError' => o.whole)
    <3>1. /\ Touches(f, n) /\ InBucket' = {p \in InBucket : ~SameName(o, p)} \cup {o}
          /\ Good(o, shared) => Restorable(f, n)'
      BY <1>1, <1>13, <2>1, PutIs DEF StoreTypes
    <3>2. l \notin chunkError' => Good(o, shared)
      BY <1>13, <2>1 DEF Good
    <3>3. \A x, y \in InBucket' : SameName(x, y) => x = y
      BY <3>1 DEF SameName, StoreTypes
    <3>4. bucket' \in Seq(InBucket')
      BY <3>1 DEF Touches
    <3>5. \A x : SameName(o, x) <=> x.file = f /\ x.id = n /\ x.part = 0
      BY <1>13 DEF SameName
    <3>6. \A x \in InBucket' : x.file = f /\ x.id = n /\ x.part = 0 => x = o
      BY <3>1, <3>5
    <3>7. \A x \in InBucket' : (x = o /\ (~shared => o.type = o.kind)) \/ x \in InBucket
      BY <2>1, <3>1
    <3>8. l \notin chunkError' => \A x \in InBucket' : x.file = f /\ x.id = n /\ x.part = 0 => x.whole
      BY <2>1, <3>6
    <3> QED
      BY <3>1, <3>2, <3>3, <3>4, <3>7, <3>8, Zenon
  <2>2. CASE l \in chunkError' /\ bucket' = bucket
    BY <1>1, <2>2, SameBucket DEF StoreTypes
  <2> QED
    BY <1>13, <2>1, <2>2
<1>16. \A u \in Tasks : /\ stage[u] # "none" => stage'[u] # "none"
                        /\ stage[u] \notin {"none", "finished"} => stage'[u] \notin {"none", "finished"}
  BY <1>7, <1>8
<1>17. StoreTypes'
  <2>1. \A x, y \in InBucket' : SameName(x, y)' => x = y
    BY <1>15 DEF SameName
  <2>2. \A x \in InBucket' : x.part \in 0..Streams /\ x.id \in Nat /\ x.id <= n' /\ (~shared' => x.type = x.kind)
    BY <1>1, <1>13, <1>15, PartsAre DEF StoreTypes, LinesInv, Types
  <2>3. DOMAIN result' = Tasks
    BY <1>1 DEF StoreTypes
  <2> QED
    BY <1>1, <1>9, <1>15, <2>1, <2>2, <2>3 DEF StoreTypes, Unlike, Upload
<1>18. TasksInv'
  <2>1. Moving(t, s)
    BY <1>1 DEF Moving, Composes
  <2> QED
    BY <1>1, <1>3, <1>9, <2>1, MoveTasks
<1>19. OwnersInv'
  <2>1. ASSUME NEW x \in InBucket', Alive', x.id = n'
        PROVE  /\ cmd'.fn = "BACKUP"
               /\ \E m \in 1..(next' - 1) :
                    /\ FileOf(m)' = x.file /\ cmd'.lines[m].op = x.kind
                    /\ x.part # 0 => stage'[Task(m, x.part)] # "none"
    <3>1. CASE x = o
      <4>1. FileOf(l)' = x.file /\ cmd'.lines[l].op = x.kind
        BY <1>0, <1>1, <1>4, <1>13, <3>1 DEF FileOf, Line
      <4> QED
        BY <1>1, <1>4, <1>9, <1>13, <3>1, <4>1
    <3>2. CASE x # o
      <4>1. x \in InBucket /\ x.part \in 0..Streams
        BY <1>15, <2>1, <3>2 DEF StoreTypes
      <4> QED
        BY <1>1, <1>16, <1>9, <2>1, <4>1, OwnersKept
    <3> QED
      BY <3>1, <3>2
  <2> QED
    BY <2>1 DEF OwnersInv
<1>20. LeftInv'
  <2>1. \A g : Attempted(g) => Attempted(g)'
    BY <1>1, <1>16, AttemptedKept
  <2>2. Attempted(f)'
    BY <1>0, <1>1, <1>3, <1>8 DEF Attempted, Line
  <2> QED
    BY <1>1, <1>9, <1>13, <1>15, <2>1, <2>2 DEF LeftInv
<1>21. StoredInv'
  <2>1. \A u \in Tasks : stage'[u] = "reply" => result'[u].verdict \in {"SAVED", "ERROR"}
    BY <1>1, <1>3, <1>7, <1>8, <1>9 DEF StoredInv
  <2>2. ASSUME NEW m \in 1..MaxLines, m # l PROVE LineStored(m)'
    <3>1. bucket' = bucket \/ Touches(Line(t).file, n)
      BY <1>0, <1>15
    <3>2. stage[t] # "none" /\ m # t.line
      BY <1>0, <1>1, <2>2
    <3> QED
      BY <1>1, <1>3, <1>9, <1>14, <3>1, <3>2, OtherLine
  <2>3. LineStored(l)'
    <3>1. FileOf(l)' = f /\ \A x : x \in OfLine(l)' <=> x \in InBucket' /\ x.file = f /\ x.id = n
      BY <1>1, <1>4 DEF OfLine, FileOf
    <3>2. \A p \in 0..Streams : p # t.part => stage'[Task(l, p)] = stage[Task(l, p)]
      BY <1>4, <1>7, TaskNames
    <3>3. \A p \in 0..Streams : stage'[Task(l, p)] \in {"none", "finished", "clean", "composed"}
      BY <1>3, <1>4, <1>6, <1>8, <3>2, PartsAre
    <3>4. \A p \in 1..Streams : ~HasChunk(l, p)'
      BY <3>3, PartsAre DEF HasChunk, Unfinished
    <3>5. ASSUME NEW p \in 1..Streams, stage'[Task(l, p)] \in {"clean", "composed"}, l \notin chunkError'
          PROVE  stage'[Task(l, p)] = "clean" /\ Restorable(FileOf(l), n)' /\ \A x \in OfLine(l)' : x.part = 0 => x.whole
      <4>1. p = t.part
        BY <1>6, <3>2, <3>5, PartsAre
      <4>2. stage'[Task(l, p)] = "clean"
        BY <1>3, <1>4, <1>8, <3>5, <4>1
      <4> QED
        BY <1>1, <1>15, <3>1, <3>5, <4>2
    <3>6. stage'[Task(l, 0)] # "reply"
      BY <3>3, PartsAre
    <3> QED
      BY <3>4, <3>5, <3>6 DEF LineStored
  <2> QED
    BY <1>4, <2>1, <2>2, <2>3 DEF StoredInv
<1>22. SavedInv'
  <2>1. stage[t] \notin {"none", "finished"}
    BY <1>1
  <2>2. ASSUME NEW r \in saved'
        PROVE  /\ Restorable(r[1], r[2])'
               /\ Alive' /\ r[2] = n' =>
                    /\ cmd'.fn = "BACKUP"
                    /\ \E m \in 1..(next' - 1) : /\ FileOf(m)' = r[1]
                                                 /\ \A p \in 0..Streams : stage'[Task(m, p)] \in {"none", "finished"}
    <3>1. r \in saved /\ ~(r[1] = f /\ r[2] = n)
      BY <1>1, <2>1, <2>2, <1>0, SavedBefore
    <3>2. Restorable(r[1], r[2]) => Restorable(r[1], r[2])'
      BY <1>1, <1>15, <3>1, SameBucket DEF Touches
    <3> QED
      BY <1>1, <1>3, <2>1, <3>1, <3>2, SavedKept
  <2> QED
    BY <2>2 DEF SavedInv
<1>23. AnswersInv'
  <2>1. \A e : Sound(e)' <=> Sound(e)
    BY <1>1 DEF Sound
  <2>2. \A u \in Tasks : stage'[u] = "reply" => Sound(result[u])
    BY <1>3, <1>7, <1>8 DEF AnswersInv
  <2> QED
    BY <1>1, <2>1, <2>2 DEF AnswersInv, Elements
<1> QED
  BY <1>17, <1>18, <1>19, <1>20, <1>21, <1>22, <1>23

(* DeleteChunks preserves the invariant. *)
LEMMA DeleteChunksStored ==
    ASSUME LinesInv, StoreInv, Alive, NEW t \in Tasks, DeleteChunks(t)
    PROVE  StoreInv'
<1> USE DEF StoreInv
<1>0. PICK l, f : l = t.line /\ f = Line(t).file
  OBVIOUS
<1>1. /\ n' = n /\ cmd' = cmd /\ next' = next /\ exit' = exit /\ shared' = shared
      /\ answers' = answers /\ saved' = saved /\ chunkError' = chunkError
      /\ stage[t] = "clean" /\ result' = result /\ mu' = mu /\ done' = done
      /\ stage' = [stage EXCEPT ![t] = "composed"]
  BY DEF DeleteChunks, reader, chunks, Goto
<1>2. PICK left \in SUBSET Chunks(t) :
        /\ bucket' = Dropped(bucket, Chunks(t) \ left)
        /\ tainted' = IF left = {} THEN tainted ELSE tainted \cup {f}
  BY <1>0 DEF DeleteChunks
<1>3. \A x : x \in Chunks(t) <=> x \in InBucket /\ x.file = f /\ x.id = n /\ x.part # 0
  BY <1>0 DEF Chunks, IsChunk
<1>4. /\ l \in 1..MaxLines /\ l \in 1..(next - 1) /\ t.part \in 0..Streams /\ t = Task(l, t.part)
      /\ f = FileOf(l) /\ LineTasks(l) /\ (t.part = 0 \/ t.part \in 1..Streams)
  <2>1. stage[t] # "none"
    BY <1>1
  <2> QED
    BY <1>0, <2>1, ActiveLine DEF TasksInv
<1>5. Composing(t) /\ t.part \in 1..Streams
  BY <1>1, <1>4 DEF Composing, LineTasks
<1>6. /\ stage[Task(l, 0)] = "none"
      /\ \A p \in 1..Streams : p # t.part => stage[Task(l, p)] = "finished"
  BY <1>1, <1>4, <1>5, PartsAre DEF LineTasks
<1>7. \A u \in Tasks : u # t => stage'[u] = stage[u]
  BY <1>1 DEF LinesInv, Types
<1>8. stage'[t] = "composed"
  BY <1>1 DEF LinesInv, Types
<1>9. cmd.fn = "BACKUP" /\ Storing /\ Alive' /\ Storing' /\ LineStored(l)
  BY <1>1, <1>4 DEF TasksInv, Storing, Alive, StoredInv
<1>10. /\ bucket' \in Seq(InBucket') /\ InBucket' = InBucket \ (Chunks(t) \ left)
       /\ \A g, i : Restorable(g, i) => Restorable(g, i)'
  <2>1. PICK S : S = Chunks(t) \ left
    OBVIOUS
  <2>2. \A x \in S : x.part # 0
    BY <1>3, <2>1
  <2>3. bucket \in Seq(InBucket) /\ shared' = shared /\ bucket' = Dropped(bucket, S)
    BY <1>1, <1>2, <2>1 DEF StoreTypes
  <2> HIDE DEF StoreInv
  <2>4. /\ bucket' \in Seq(InBucket') /\ InBucket' = InBucket \ S
        /\ \A g, i : Restorable(g, i) /\ (\A o \in S : ~(o.file = g /\ o.id = i /\ o.part = 0)) => Restorable(g, i)'
    BY <2>3, RemovalIs
  <2> QED
    BY <2>1, <2>2, <2>4
<1>11. Touches(f, n) /\ \A x \in InBucket' : x \in InBucket
  <2>1. \A x : ~(x.file = f /\ x.id = n) => (x \in InBucket <=> x \in InBucket')
    BY <1>3, <1>10
  <2> QED
    BY <1>10, <2>1 DEF Touches
<1>12. \A u \in Tasks : /\ stage[u] # "none" => stage'[u] # "none"
                        /\ stage[u] \notin {"none", "finished"} => stage'[u] \notin {"none", "finished"}
  BY <1>7, <1>8
<1>13. tainted \subseteq tainted' /\ (f \notin tainted' => left = {})
  BY <1>2
<1>14. StoreTypes'
  <2>1. DOMAIN result' = Tasks /\ \A k \in 1..MaxLines : answers'[k] \in Seq(Elements(answers'[k]))
    BY <1>1 DEF StoreTypes
  <2> QED
    BY <1>1, <1>10, <1>11, <2>1, StoreTypesKept
<1>15. TasksInv'
  <2>1. Moving(t, "composed")
    BY <1>1 DEF Moving, Composes
  <2> QED
    BY <1>1, <1>9, <2>1, MoveTasks
<1>16. OwnersInv'
  <2>1. ASSUME NEW x \in InBucket', Alive', x.id = n'
        PROVE  /\ cmd'.fn = "BACKUP"
               /\ \E m \in 1..(next' - 1) :
                    /\ FileOf(m)' = x.file /\ cmd'.lines[m].op = x.kind
                    /\ x.part # 0 => stage'[Task(m, x.part)] # "none"
    <3>1. x \in InBucket /\ x.part \in 0..Streams
      BY <1>11, <2>1 DEF StoreTypes
    <3> QED
      BY <1>1, <1>9, <1>12, <2>1, <3>1, OwnersKept
  <2> QED
    BY <2>1 DEF OwnersInv
<1>17. LeftInv'
  <2>1. \A g : Attempted(g) => Attempted(g)'
    BY <1>1, <1>12, AttemptedKept
  <2> QED
    BY <1>1, <1>9, <1>11, <1>13, <2>1 DEF LeftInv
<1>18. StoredInv'
  <2>1. \A u \in Tasks : stage'[u] = "reply" => result'[u].verdict \in {"SAVED", "ERROR"}
    BY <1>1, <1>7, <1>8, <1>9 DEF StoredInv
  <2>2. ASSUME NEW m \in 1..MaxLines, m # l PROVE LineStored(m)'
    <3>1. Touches(Line(t).file, n) /\ stage[t] # "none" /\ m # t.line
      BY <1>0, <1>1, <1>11, <2>2
    <3> QED
      BY <1>1, <1>9, <1>13, <3>1, OtherLine
  <2>3. LineStored(l)'
    <3>1. FileOf(l)' = f /\ \A x : x \in OfLine(l)' <=> x \in InBucket' /\ x.file = f /\ x.id = n
      BY <1>1, <1>4 DEF OfLine, FileOf
    <3>2. \A p \in 0..Streams : p # t.part => stage'[Task(l, p)] = stage[Task(l, p)]
      BY <1>4, <1>7, TaskNames
    <3>3. \A p \in 0..Streams : stage'[Task(l, p)] \in {"none", "finished", "composed"}
      BY <1>4, <1>6, <1>8, <3>2, PartsAre
    <3>4. \A p \in 1..Streams : ~HasChunk(l, p)'
      BY <3>3, PartsAre DEF HasChunk, Unfinished
    <3>5. l \notin chunkError => Restorable(f, n) /\ \A x \in OfLine(l) : x.part = 0 => x.whole
      BY <1>1, <1>4, <1>5, <1>9 DEF LineStored
    <3>6. l \notin chunkError' => Restorable(FileOf(l), n)' /\ \A x \in OfLine(l)' : x.part = 0 => x.whole
      <4>1. \A x \in OfLine(l)' : x \in OfLine(l)
        BY <1>4, <1>11, <3>1 DEF OfLine
      <4> QED
        BY <1>1, <1>10, <3>1, <3>5, <4>1
    <3>7. FileOf(l)' \notin tainted' => \A x \in OfLine(l)' : x.part = 0
      BY <1>3, <1>10, <1>13, <3>1
    <3>8. stage'[Task(l, 0)] # "reply"
      BY <3>3, PartsAre
    <3> QED
      BY <3>4, <3>6, <3>7, <3>8 DEF LineStored
  <2> QED
    BY <1>4, <2>1, <2>2, <2>3 DEF StoredInv
<1>19. SavedInv'
  <2>1. stage[t] \notin {"none", "finished"}
    BY <1>1
  <2>2. ASSUME NEW r \in saved'
        PROVE  /\ Restorable(r[1], r[2])'
               /\ Alive' /\ r[2] = n' =>
                    /\ cmd'.fn = "BACKUP"
                    /\ \E m \in 1..(next' - 1) : /\ FileOf(m)' = r[1]
                                                 /\ \A p \in 0..Streams : stage'[Task(m, p)] \in {"none", "finished"}
    <3>1. r \in saved /\ (Restorable(r[1], r[2]) => Restorable(r[1], r[2])')
      BY <1>1, <1>10, <2>2
    <3> QED
      BY <1>1, <2>1, <3>1, SavedKept
  <2> QED
    BY <2>2 DEF SavedInv
<1>20. AnswersInv'
  <2>1. \A e : Sound(e) => Sound(e)'
    BY <1>13 DEF Sound
  <2>2. \A u \in Tasks : stage'[u] = "reply" => Sound(result[u])
    BY <1>7, <1>8 DEF AnswersInv
  <2> QED
    BY <1>1, <2>1, <2>2 DEF AnswersInv, Elements
<1> QED
  BY <1>14, <1>15, <1>16, <1>17, <1>18, <1>19, <1>20

(* DeleteObject preserves the invariant. *)
LEMMA DeleteObjectStored ==
    ASSUME LinesInv, StoreInv, Alive, NEW t \in Tasks, DeleteObject(t)
    PROVE  StoreInv'
<1> USE DEF StoreInv
<1>0. PICK f, id : f = Line(t).file /\ id = Line(t).id
  OBVIOUS
<1>1. /\ n' = n /\ cmd' = cmd /\ next' = next /\ exit' = exit /\ shared' = shared
      /\ answers' = answers /\ tainted' = tainted /\ chunkError' = chunkError
      /\ stage[t] = "work" /\ mu' = mu /\ done' = done /\ cmd.fn = "DELETE"
      /\ stage' = [stage EXCEPT ![t] = "reply"] /\ saved' = saved \ {<<f, id>>}
  BY <1>0 DEF DeleteObject, reader, chunks, Goto
<1>2. PICK S : S = {o \in InBucket : o.part = 0 /\ o.file = f /\ o.id = id}
  OBVIOUS
<1>3. \/ /\ bucket' = bucket \/ bucket' = Dropped(bucket, S)
         /\ \/ result' = [result EXCEPT ![t] = [verdict |-> "DELETED"]]
            \/ result' = [result EXCEPT ![t] = [verdict |-> "NOTFOUND"]]
            \/ result' = [result EXCEPT ![t] = [verdict |-> "ERROR"]]
  BY <1>0, <1>2 DEF DeleteObject
<1>4. PICK v \in {"DELETED", "NOTFOUND", "ERROR"} : result' = [result EXCEPT ![t] = [verdict |-> v]]
  BY <1>3
<1>5. /\ bucket' \in Seq(InBucket') /\ \A o \in InBucket' : o \in InBucket
      /\ \A g, i : Restorable(g, i) /\ ~(g = f /\ i = id) => Restorable(g, i)'
  <2>1. bucket \in Seq(InBucket) /\ shared' = shared
    BY <1>1 DEF StoreTypes
  <2> HIDE DEF StoreInv
  <2>2. CASE bucket' = bucket
    BY <1>1, <2>1, <2>2, SameBucket
  <2>3. CASE bucket' = Dropped(bucket, S)
    <3>1. /\ bucket' \in Seq(InBucket') /\ InBucket' = InBucket \ S
          /\ \A g, i : Restorable(g, i) /\ (\A o \in S : ~(o.file = g /\ o.id = i /\ o.part = 0)) => Restorable(g, i)'
      BY <2>1, <2>3, RemovalIs
    <3> QED
      BY <1>2, <3>1
  <2> QED
    BY <1>3, <2>2, <2>3
<1>6. \A u \in Tasks : u # t => stage'[u] = stage[u] /\ result'[u] = result[u]
  BY <1>1, <1>4 DEF LinesInv, Types, StoreTypes
<1>7. stage'[t] = "reply" /\ result'[t] = [verdict |-> v]
  BY <1>1, <1>4 DEF LinesInv, Types, StoreTypes
<1>8. ~Storing /\ Alive' /\ ~Storing'
  BY <1>1 DEF Storing, Alive
<1>9. StoreTypes'
  <2>1. DOMAIN result' = Tasks /\ \A k \in 1..MaxLines : answers'[k] \in Seq(Elements(answers'[k]))
    BY <1>1, <1>4 DEF StoreTypes
  <2> QED
    BY <1>1, <1>5, <2>1, StoreTypesKept
<1>10. TasksInv'
  <2>1. Moving(t, "reply")
    BY <1>1 DEF Moving, Working
  <2> QED
    BY <1>1, <2>1, MoveTasks
<1>11. OwnersInv'
  BY <1>1, <1>5 DEF OwnersInv
<1>12. LeftInv'
  BY <1>1, <1>5, <1>8 DEF LeftInv
<1>13. StoredInv'
  BY <1>8 DEF StoredInv
<1>14. SavedInv'
  <2>1. ASSUME NEW r \in saved' PROVE Restorable(r[1], r[2])' /\ r[2] # n'
    <3>1. r \in saved /\ r = <<r[1], r[2]>> /\ r # <<f, id>>
      BY <1>1, <2>1 DEF StoreTypes
    <3>2. Restorable(r[1], r[2]) /\ ~(Alive /\ r[2] = n /\ cmd.fn # "BACKUP")
      BY <3>1 DEF SavedInv
    <3>3. ~(r[1] = f /\ r[2] = id)
      BY <3>1
    <3> QED
      BY <1>1, <1>5, <3>2, <3>3
  <2> QED
    BY <2>1 DEF SavedInv
<1>15. AnswersInv'
  <2>1. \A e : Sound(e) => Sound(e)'
    BY <1>1 DEF Sound
  <2>2. Sound(result'[t])
    BY <1>7 DEF Sound
  <2>3. \A u \in Tasks : stage'[u] = "reply" => Sound(result'[u])
    BY <1>6, <2>2 DEF AnswersInv
  <2>4. \A u \in Tasks : stage'[u] = "reply" => Sound(result[u])'
    BY <1>1, <2>3 DEF Sound
  <2> QED
    BY <1>1, <2>1, <2>4 DEF AnswersInv, Elements
<1> QED
  BY <1>9, <1>10, <1>11, <1>12, <1>13, <1>14, <1>15

------------------------------------------------------------------------------
(* The steps of the reader and of the process. *)

(* A step of the reader preserves the invariant: the line is new to the bucket. *)
LEMMA ReadKeeps ==
    ASSUME LinesInv, StoreInv, Alive, Alive',
           UNCHANGED <<shared, n, cmd, result, bucket, saved, chunkError>>,
           NEW m, m = next, next' = m \/ next' = m + 1,
           \A u \in Tasks : \/ stage'[u] = stage[u]
                            \/ u.line = m /\ next' = m + 1 /\ stage'[u] \in {"none", "queued", "work"},
           tainted \subseteq tainted',
           \A k \in 1..MaxLines : /\ answers'[k] \in Seq(Elements(answers'[k]))
                                  /\ \A e \in Elements(answers'[k]) : e \in Elements(answers[k]) \/ Sound(e),
           TasksInv', cmd.fn = "BACKUP" /\ next' = m + 1 => Upload(m)
    PROVE  StoreInv'
<1> USE DEF StoreInv
<1>1. /\ shared' = shared /\ n' = n /\ cmd' = cmd /\ result' = result /\ bucket' = bucket /\ saved' = saved
      /\ chunkError' = chunkError /\ m \in Nat
  BY DEF LinesInv, Types
<1>2. InBucket' = InBucket /\ \A g, i : Restorable(g, i)' <=> Restorable(g, i)
  BY <1>1, SameBucket
<1>3. Storing' <=> Storing
  BY <1>1 DEF Storing
<1>4. \A u \in Tasks : stage[u] # "none" => stage'[u] = stage[u]
  <2>1. SUFFICES ASSUME NEW u \in Tasks, stage[u] # "none" PROVE stage'[u] = stage[u]
    OBVIOUS
  <2>2. u.line \in 1..(next - 1)
    BY <2>1, ActiveLine
  <2>3. u.line # m
    BY <1>1, <2>2
  <2> QED
    BY <2>3
<1>5. 1..(next - 1) \subseteq 1..(next' - 1) /\ 1..(next - 1) \subseteq 1..MaxLines
  BY <1>1, ParametersAssumption DEF LinesInv, Types
<1>6. StoreTypes'
  <2>1. bucket' \in Seq(InBucket') /\ \A x, y \in InBucket' : SameName(x, y)' => x = y
    BY <1>1, <1>2 DEF StoreTypes, SameName
  <2>2. \A o \in InBucket' : o.part \in 0..Streams /\ o.id \in Nat /\ o.id <= n' /\ (~shared' => o.type = o.kind)
    BY <1>1, <1>2 DEF StoreTypes
  <2>3. \A s \in saved' : s = <<s[1], s[2]>> /\ s[2] \in Nat /\ s[2] <= n'
    BY <1>1 DEF StoreTypes
  <2>4. DOMAIN result' = Tasks /\ Unlike(cmd')
    BY <1>1 DEF StoreTypes
  <2>5. ASSUME Storing', NEW l \in 1..(next' - 1) PROVE Upload(l)'
    <3>1. Upload(l)' <=> Upload(l)
      BY <1>1 DEF Upload
    <3>2. l \in 1..(next - 1) \/ (l = m /\ next' = m + 1)
      BY <1>1
    <3> QED
      BY <1>3, <2>5, <3>1, <3>2 DEF StoreTypes, Storing
  <2> QED
    BY <2>1, <2>2, <2>3, <2>4, <2>5 DEF StoreTypes, Unlike
<1>7. OwnersInv'
  <2>1. ASSUME NEW o \in InBucket', Alive', o.id = n'
        PROVE  /\ cmd'.fn = "BACKUP"
               /\ \E l \in 1..(next' - 1) :
                    /\ FileOf(l)' = o.file /\ cmd'.lines[l].op = o.kind
                    /\ o.part # 0 => stage'[Task(l, o.part)] # "none"
    <3>1. o \in InBucket /\ o.part \in 0..Streams
      BY <1>2, <2>1 DEF StoreTypes
    <3> QED
      BY <1>1, <1>4, <2>1, <3>1, OwnersKept
  <2> QED
    BY <2>1 DEF OwnersInv
<1>8. LeftInv'
  <2>1. \A f : Attempted(f) => Attempted(f)'
    BY <1>1, <1>4, AttemptedKept
  <2> QED
    BY <1>1, <1>2, <1>3, <2>1 DEF LeftInv
<1>9. StoredInv'
  <2> SUFFICES ASSUME Storing
               PROVE  /\ \A l \in 1..MaxLines : LineStored(l)'
                      /\ \A u \in Tasks : stage'[u] = "reply" => result'[u].verdict \in {"SAVED", "ERROR"}
    BY <1>3 DEF StoredInv
  <2>1. \A u \in Tasks : stage'[u] = "reply" => result'[u].verdict \in {"SAVED", "ERROR"}
    BY <1>1, <1>4 DEF StoredInv
  <2>2. ASSUME NEW l \in 1..MaxLines PROVE LineStored(l)'
    <3>1. CASE l \in 1..(next - 1)
      <4>1. \A p \in 0..Streams : stage'[Task(l, p)] = stage[Task(l, p)]
        <5>1. l # m
          BY <1>1, <3>1
        <5> QED
          BY <5>1, TaskNames
      <4>2. \A o : o \in OfLine(l)' <=> o \in OfLine(l)
        BY <1>1, <1>2 DEF OfLine, FileOf
      <4>3. Restorable(FileOf(l), n) => Restorable(FileOf(l), n)'
        BY <1>1, <1>2 DEF FileOf
      <4>4. LineStored(l)
        BY DEF StoredInv
      <4> QED
        BY <1>1, <4>1, <4>2, <4>3, <4>4, LineKept, PartsAre
    <3>2. CASE l \notin 1..(next - 1)
      <4>1. l >= next
        BY <1>1, <3>2, ParametersAssumption
      <4>2. \A p \in 0..Streams : stage[Task(l, p)] = "none"
        BY <4>1 DEF TasksInv, LineTasks
      <4>3. \A p \in 0..Streams : stage'[Task(l, p)] \in {"none", "queued", "work"}
        BY <4>2, TaskNames
      <4> QED
        BY <4>3, NoLine
    <3> QED
      BY <3>1, <3>2
  <2> QED
    BY <2>1, <2>2
<1>10. SavedInv'
  <2>1. ASSUME NEW r \in saved'
        PROVE  /\ Restorable(r[1], r[2])'
               /\ Alive' /\ r[2] = n' =>
                    /\ cmd'.fn = "BACKUP"
                    /\ \E l \in 1..(next' - 1) : /\ FileOf(l)' = r[1]
                                                 /\ \A p \in 0..Streams : stage'[Task(l, p)] \in {"none", "finished"}
    <3>1. r \in saved /\ Restorable(r[1], r[2])'
      BY <1>1, <1>2, <2>1 DEF SavedInv
    <3>2. ASSUME r[2] = n
          PROVE  /\ cmd.fn = "BACKUP"
                 /\ \E l \in 1..(next' - 1) : /\ FileOf(l)' = r[1]
                                              /\ \A p \in 0..Streams : stage'[Task(l, p)] \in {"none", "finished"}
      <4>1. cmd.fn = "BACKUP"
        BY <3>1, <3>2 DEF SavedInv
      <4>2. PICK l \in 1..(next - 1) : /\ FileOf(l) = r[1]
                                       /\ \A p \in 0..Streams : stage[Task(l, p)] \in {"none", "finished"}
        BY <3>1, <3>2 DEF SavedInv
      <4>3. l # m /\ l \in 1..MaxLines /\ l \in 1..(next' - 1)
        BY <1>1, <1>5, <4>2
      <4>4. \A p \in 0..Streams : stage'[Task(l, p)] = stage[Task(l, p)]
        BY <4>3, TaskNames
      <4>5. FileOf(l)' = FileOf(l)
        BY <1>1 DEF FileOf
      <4> QED
        BY <4>1, <4>2, <4>3, <4>4, <4>5
    <3> QED
      BY <1>1, <3>1, <3>2
  <2> QED
    BY <2>1 DEF SavedInv
<1>11. AnswersInv'
  <2>1. \A e : Sound(e) => Sound(e)'
    BY DEF Sound
  <2>2. \A u \in Tasks : stage'[u] = "reply" => Sound(result[u])
    BY <1>4 DEF AnswersInv
  <2>3. \A k \in 1..MaxLines : \A e \in Elements(answers'[k]) : Sound(e)
    BY DEF AnswersInv
  <2>4. \A k \in 1..MaxLines : \A e \in Elements(answers'[k]) : Sound(e)'
    BY <2>1, <2>3
  <2>5. \A u \in Tasks : stage'[u] = "reply" => Sound(result[u])'
    BY <2>1, <2>2
  <2> QED
    BY <1>1, <2>4, <2>5 DEF AnswersInv
<1> QED
  BY <1>6, <1>7, <1>8, <1>9, <1>10, <1>11

(* Unchanged tasks are in order. *)
LEMMA TasksStay ==
    ASSUME TasksInv, UNCHANGED <<stage, next, done, mu, cmd>>
    PROVE  TasksInv'
BY DEF TasksInv, LineTasks, Counted, Composing

(* ReadLine preserves the invariant. *)
LEMMA ReadLineStored ==
    ASSUME LinesInv, StoreInv, ReadLine
    PROVE  StoreInv'
<1>0. PICK m : m = next
  OBVIOUS
<1>1. /\ exit = "running" /\ shared' = shared /\ n' = n /\ cmd' = cmd /\ result' = result
      /\ bucket' = bucket /\ saved' = saved /\ chunkError' = chunkError /\ done' = done /\ mu' = mu
  BY DEF ReadLine, chunks
<1>2. Alive /\ m \in 1..MaxLines
  <2>1. next \in Nat /\ NumLines \in Nat /\ next >= 1 /\ next <= NumLines /\ NumLines <= MaxLines /\ MaxLines \in Nat
    BY ParametersAssumption DEF ReadLine, LinesInv, Types
  <2> QED
    BY <1>0, <1>1, <2>1 DEF Alive
<1>3. StoreTypes /\ TasksInv
  BY DEF StoreInv
<1>4. \A k \in 1..MaxLines : answers[k] \in Seq(Elements(answers[k]))
  BY <1>3 DEF StoreTypes
<1>5. \/ next' = m /\ exit' = "failing" /\ stage' = stage /\ answers' = answers /\ tainted' = tainted
      \/ /\ next' = m + 1 /\ exit' = exit /\ (cmd.fn = "BACKUP" => Upload(m))
         /\ \/ /\ answers' = answers /\ tainted' = tainted
               /\ \/ Submit(m, {0}) \/ (Submit(m, 1..Streams) /\ cmd.fn = "BACKUP")
                  \/ stage' = [stage EXCEPT ![Task(m, 0)] = "work"]
            \/ /\ stage' = stage /\ tainted' = tainted \cup {cmd.lines[m].file}
               /\ Answer(m, [verdict |-> "ERROR"])
  <2>1. CASE Malformed
    BY <1>0, <2>1 DEF Malformed
  <2>2. CASE BackupLine
    <3>1. cmd.fn = "BACKUP" /\ Upload(m) /\ next' = m + 1 /\ exit' = exit
      BY <1>0, <2>2 DEF BackupLine, Upload
    <3>2. SubmitChunks(m) \/ (Submit(m, {0}) /\ answers' = answers /\ tainted' = tainted)
      BY <1>0, <2>2 DEF BackupLine
    <3> QED
      BY <3>1, <3>2 DEF SubmitChunks
  <2>3. CASE RestoreLine
    BY <1>0, <2>3 DEF RestoreLine, Task
  <2>4. CASE InquireLine
    BY <1>0, <2>4 DEF InquireLine
  <2>5. CASE DeleteLine
    BY <1>0, <2>5 DEF DeleteLine
  <2> QED
    BY <2>1, <2>2, <2>3, <2>4, <2>5 DEF ReadLine
<1>6. Alive'
  BY <1>1, <1>5 DEF Alive
<1>7. /\ next' = m \/ next' = m + 1
      /\ cmd.fn = "BACKUP" /\ next' = m + 1 => Upload(m)
      /\ tainted \subseteq tainted'
  <2>1. m # m + 1
    BY <1>2
  <2> QED
    BY <1>5, <2>1
<1>8. \A u \in Tasks : \/ stage'[u] = stage[u]
                       \/ u.line = m /\ next' = m + 1 /\ stage'[u] \in {"none", "queued", "work"}
  <2>1. CASE stage' = stage
    BY <2>1
  <2>2. CASE next' = m + 1 /\ stage' = [stage EXCEPT ![Task(m, 0)] = "work"]
    <3>1. Task(m, 0).line = m
      BY DEF Task
    <3>2. \A u \in Tasks : u # Task(m, 0) => stage'[u] = stage[u]
      BY <2>2 DEF LinesInv, Types
    <3>3. Task(m, 0) \in Tasks => stage'[Task(m, 0)] = "work"
      BY <2>2 DEF LinesInv, Types
    <3> QED
      BY <2>2, <3>1, <3>2, <3>3
  <2>3. CASE next' = m + 1 /\ (Submit(m, {0}) \/ Submit(m, 1..Streams))
    <3>1. \A u \in Tasks : stage'[u] = stage[u] \/ (u.line = m /\ stage'[u] = "queued")
      BY <2>3 DEF Submit
    <3> QED
      BY <2>3, <3>1
  <2> QED
    BY <1>5, <2>1, <2>2, <2>3
<1>9. ASSUME NEW k \in 1..MaxLines
      PROVE  /\ answers'[k] \in Seq(Elements(answers'[k]))
             /\ \A e \in Elements(answers'[k]) : e \in Elements(answers[k]) \/ Sound(e)
  <2>1. CASE answers' = answers
    BY <1>4, <2>1
  <2>2. CASE Answer(m, [verdict |-> "ERROR"])
    <3>1. PICK a : a = [verdict |-> "ERROR"]
      OBVIOUS
    <3>2. Sound(a) /\ Answer(m, a)
      BY <2>2, <3>1 DEF Sound
    <3> QED
      BY <1>2, <1>3, <3>2, AnswerIs
  <2> QED
    BY <1>5, <2>1, <2>2
<1>10. TasksInv'
  <2>1. CASE next' = m
    BY <1>0, <1>1, <1>2, <1>3, <1>5, <2>1, TasksStay
  <2>2. CASE next' = m + 1
    <3>1. \/ stage' = [stage EXCEPT ![Task(m, 0)] = "work"]
          \/ Submit(m, {0}) \/ (Submit(m, 1..Streams) /\ cmd.fn = "BACKUP")
          \/ stage' = stage
      BY <1>5
    <3>2. \/ \E s \in Working : /\ stage' = [stage EXCEPT ![Task(m, 0)] = s]
                                /\ cmd.fn # "BACKUP" => s \in {"queued", "work"}
          \/ Submit(m, {0})
          \/ Submit(m, 1..Streams) /\ cmd.fn = "BACKUP"
          \/ stage' = stage
      <4>1. "work" \in Working /\ "work" \in {"queued", "work"}
        BY DEF Working
      <4> QED
        BY <3>1, <4>1, Zenon
    <3> QED
      BY <1>0, <1>1, <1>2, <1>3, <2>2, <3>2, SubmitTasks
  <2> QED
    BY <1>7, <2>1, <2>2
<1> QED
  BY <1>0, <1>1, <1>2, <1>6, <1>7, <1>8, <1>9, <1>10, ReadKeeps

(* FailCommand preserves the invariant. *)
LEMMA FailCommandStored ==
    ASSUME LinesInv, StoreInv, FailCommand
    PROVE  StoreInv'
<1>0. PICK m : m = next
  OBVIOUS
<1>1. /\ UNCHANGED <<shared, n, cmd, result, bucket, saved, chunkError>> /\ next' = next
      /\ stage' = stage /\ tainted' = tainted /\ answers' = answers /\ done' = done /\ mu' = mu
      /\ exit = "failing" /\ exit' = "failed"
  BY DEF FailCommand, chunks, hist
<1>2. Alive /\ Alive'
  BY <1>1 DEF Alive
<1>3. StoreTypes /\ TasksInv
  BY DEF StoreInv
<1>4. TasksInv'
  BY <1>1, <1>3, TasksStay
<1>5. \A k \in 1..MaxLines : answers'[k] \in Seq(Elements(answers'[k]))
  BY <1>1, <1>3 DEF StoreTypes
<1>6. next' # m + 1 /\ next' = m
  BY <1>0, <1>1 DEF LinesInv, Types
<1> QED
  BY <1>0, <1>1, <1>2, <1>4, <1>5, <1>6, ReadKeeps

(* The end of a process preserves the invariant when all that it cuts off is
   tainted. *)
LEMMA OverKeeps ==
    ASSUME LinesInv, StoreInv, Alive, ~Alive', UNCHANGED <<shared, n, bucket, saved, answers>>, ClearProcess,
           tainted \subseteq tainted',
           Storing => \A t \in Tasks : stage[t] \notin {"none", "finished"} => Line(t).file \in tainted'
    PROVE  StoreInv'
<1> USE DEF StoreInv
<1>1. /\ shared' = shared /\ n' = n /\ bucket' = bucket /\ saved' = saved /\ answers' = answers
      /\ DOMAIN result' = Tasks
      /\ \A t \in Tasks : stage'[t] = "none"
      /\ \A l \in 1..MaxLines : done'[l] = 0
  BY DEF ClearProcess
<1>2. InBucket' = InBucket /\ \A g, i : Restorable(g, i)' <=> Restorable(g, i)
  BY <1>1, SameBucket
<1>3. ~Storing'
  BY DEF Storing
<1>4. StoreTypes'
  BY <1>1, <1>2, <1>3 DEF StoreTypes, SameName
<1>5. TasksInv'
  BY <1>1, NoTasks
<1>6. LeftInv'
  <2> SUFFICES ASSUME NEW o \in InBucket, o.file \notin tainted', ~(o.whole /\ o.part = 0) PROVE FALSE
    BY <1>1, <1>2 DEF LeftInv
  <2>1. Storing /\ Attempted(o.file)
    BY DEF LeftInv
  <2> QED
    BY <2>1 DEF Attempted
<1>7. SavedInv'
  <2>1. \A r \in saved : Restorable(r[1], r[2])'
    BY <1>2 DEF SavedInv
  <2> QED
    BY <1>1, <2>1 DEF SavedInv
<1>8. AnswersInv'
  <2>1. \A e : Sound(e) => Sound(e)'
    BY DEF Sound
  <2> QED
    BY <1>1, <2>1 DEF AnswersInv, Elements
<1>9. OwnersInv' /\ StoredInv'
  BY <1>3 DEF OwnersInv, StoredInv
<1> QED
  BY <1>4, <1>5, <1>6, <1>7, <1>8, <1>9

(* EndCommand preserves the invariant. *)
LEMMA EndCommandStored ==
    ASSUME LinesInv, StoreInv, EndCommand
    PROVE  StoreInv'
<1>1. /\ exit = "running" /\ exit' = "ok" /\ ClearProcess /\ UNCHANGED <<shared, n, bucket, answers, saved>>
      /\ tainted' = tainted /\ \A t \in Tasks : stage[t] \in {"none", "finished"}
  BY DEF EndCommand, hist
<1>2. Alive /\ ~Alive'
  BY <1>1 DEF Alive
<1> QED
  BY <1>1, <1>2, OverKeeps

(* EndProcess preserves the invariant. *)
LEMMA EndProcessStored ==
    ASSUME LinesInv, StoreInv, EndProcess
    PROVE  StoreInv'
<1>1. /\ Alive /\ exit' = "ended" /\ ClearProcess /\ UNCHANGED <<shared, n, bucket, answers, saved>>
      /\ tainted' = tainted \cup {Line(t).file : t \in {u \in Tasks : cmd.fn = "BACKUP"
                                                 /\ stage[u] \notin {"none", "finished"}}}
  BY DEF EndProcess
<1>2. ~Alive'
  BY <1>1 DEF Alive
<1>3. Storing => \A t \in Tasks : stage[t] \notin {"none", "finished"} => Line(t).file \in tainted'
  BY <1>1 DEF Storing
<1> QED
  BY <1>1, <1>2, <1>3, OverKeeps

(* Begin preserves the invariant: the ID of the command is new. *)
LEMMA BeginStored ==
    ASSUME FilesAreDistinct, LinesInv, StoreInv, Begin
    PROVE  StoreInv'
<1> USE DEF StoreInv
<1>1. /\ shared' = shared /\ bucket' = bucket /\ saved' = saved /\ tainted' = tainted
      /\ n' = n + 1 /\ stage' = stage /\ done' = done /\ result' = result /\ next' = next
      /\ answers' = [l \in 1..MaxLines |-> <<>>] /\ exit' = "running" /\ n < Len(Inputs) /\ cmd' \in Inputs[n + 1]
      /\ exit \in {"ok", "ended"}
  BY DEF Begin, chunks, hist
<1>2. ~Alive /\ n \in Nat
  BY <1>1 DEF Alive, LinesInv, Types
<1>3. /\ next = 1 /\ \A t \in Tasks : stage[t] = "none"
      /\ \A l \in 1..MaxLines : done[l] = 0
  BY <1>2 DEF LinesInv, Cleared
<1>4. Unlike(cmd')
  BY <1>1, <1>2, ParametersAssumption DEF FilesAreDistinct
<1>5. InBucket' = InBucket /\ \A g, i : Restorable(g, i)' <=> Restorable(g, i)
  BY <1>1, SameBucket
<1>6. \A l \in 1..MaxLines : answers'[l] = <<>> /\ Elements(answers'[l]) = {}
  BY <1>1 DEF Elements
<1>7. StoreTypes'
  <2>1. bucket' \in Seq(InBucket') /\ \A x, y \in InBucket' : SameName(x, y)' => x = y
    BY <1>1, <1>5 DEF StoreTypes, SameName
  <2>2. \A o \in InBucket' : o.part \in 0..Streams /\ o.id \in Nat /\ o.id <= n' /\ (~shared' => o.type = o.kind)
    BY <1>1, <1>2, <1>5 DEF StoreTypes
  <2>3. \A s \in saved' : s = <<s[1], s[2]>> /\ s[2] \in Nat /\ s[2] <= n'
    BY <1>1, <1>2 DEF StoreTypes
  <2>4. DOMAIN result' = Tasks /\ Unlike(cmd)'
    BY <1>1, <1>4 DEF StoreTypes, Unlike
  <2>5. \A l \in 1..(next' - 1) : Upload(l)'
    BY <1>1, <1>3
  <2>6. \A l \in 1..MaxLines : answers'[l] \in Seq(Elements(answers'[l]))
    <3>1. <<>> \in Seq({})
      OBVIOUS
    <3> QED
      BY <1>6, <3>1
  <2> QED
    BY <2>1, <2>2, <2>3, <2>4, <2>5, <2>6 DEF StoreTypes
<1>8. TasksInv'
  BY <1>1, <1>3, NoTasks
<1>9. \A o \in InBucket : o.id # n'
  BY <1>1, <1>2 DEF StoreTypes
<1>10. OwnersInv'
  BY <1>5, <1>9 DEF OwnersInv
<1>11. LeftInv'
  <2>1. \A o \in InBucket : o.file \notin tainted => o.whole /\ o.part = 0
    BY <1>2 DEF LeftInv, Storing
  <2> QED
    BY <1>1, <1>5, <2>1 DEF LeftInv
<1>12. StoredInv'
  <2>1. ASSUME NEW l \in 1..MaxLines PROVE LineStored(l)'
    <3>1. \A p \in 0..Streams : stage'[Task(l, p)] \in {"none", "queued", "work"}
      BY <1>1, <1>3, TaskNames
    <3> QED
      BY <3>1, NoLine
  <2> QED
    BY <1>1, <1>3, <2>1 DEF StoredInv
<1>13. SavedInv'
  <2>1. \A r \in saved : Restorable(r[1], r[2])' /\ r[2] # n'
    BY <1>1, <1>2, <1>5 DEF SavedInv, StoreTypes
  <2> QED
    BY <1>1, <2>1 DEF SavedInv
<1>14. AnswersInv'
  BY <1>1, <1>3, <1>6 DEF AnswersInv
<1> QED
  BY <1>7, <1>8, <1>10, <1>11, <1>12, <1>13, <1>14

(* The bucket is empty at first. *)
LEMMA StoreInit == Init => StoreInv
<1> SUFFICES ASSUME Init PROVE StoreInv
  OBVIOUS
<1>1. /\ exit = "ok" /\ stage = [t \in Tasks |-> "none"] /\ result = [t \in Tasks |-> None]
      /\ done = [l \in 1..MaxLines |-> 0] /\ bucket = <<>> /\ saved = {}
      /\ answers = [l \in 1..MaxLines |-> <<>>]
  BY DEF Init
<1>2. ~Alive /\ InBucket = {} /\ ~Storing
  BY <1>1 DEF Alive, InBucket, Storing
<1>3. \A l \in 1..MaxLines : answers[l] = <<>> /\ Elements(answers[l]) = {}
  BY <1>1 DEF Elements
<1>4. StoreTypes
  BY <1>1, <1>2, <1>3 DEF StoreTypes
<1>5. TasksInv
  <2>1. ASSUME NEW l \in 1..MaxLines PROVE LineTasks(l)
    <3>1. \A p \in 0..Streams : stage[Task(l, p)] = "none"
      BY <1>1, TaskNames
    <3>2. Counted(l) = {}
      BY <3>1, PartsAre DEF Counted
    <3>3. Cardinality({}) = 0
      BY FS_EmptySet
    <3> QED
      BY <1>1, <3>1, <3>2, <3>3, PartsAre DEF LineTasks, Composing
  <2> QED
    BY <1>1, <2>1 DEF TasksInv, Composing
<1>6. OwnersInv /\ LeftInv /\ StoredInv /\ SavedInv /\ AnswersInv
  BY <1>1, <1>2, <1>3 DEF OwnersInv, LeftInv, StoredInv, SavedInv, AnswersInv
<1> QED
  BY <1>4, <1>5, <1>6 DEF StoreInv

------------------------------------------------------------------------------
(* The steps together. *)

(* The latest object listed is in the bucket. *)
LEMMA ListedLast ==
    ASSUME StoreTypes, NEW t, Listed(t) # <<>>
    PROVE  Listed(t)[Len(Listed(t))] \in InBucket
<1> DEFINE q == Listed(t)
<1>1. q \in Seq(Elements(q)) /\ \A o \in Elements(q) : o \in InBucket
  BY InBucketIs, KeptIs DEF Listed, StoreTypes
<1> HIDE DEF q
<1>2. q # <<>> => Len(q) \in 1..Len(q) /\ DOMAIN q = 1..Len(q)
  BY <1>1
<1>3. q # <<>> => q[Len(q)] \in InBucket
  BY <1>1, <1>2 DEF Elements
<1> QED
  BY <1>3 DEF q

(* StartTask, LabelFile, OpenFile, RestoreFile and InquireFiles preserve the
   invariant. *)
LEMMA QuietSteps ==
    ASSUME LinesInv, StoreInv, Alive, NEW t \in Tasks,
           StartTask(t) \/ LabelFile(t) \/ OpenFile(t) \/ RestoreFile(t) \/ InquireFiles(t)
    PROVE  StoreInv'
<1>1. StoreTypes /\ TasksInv /\ LeftInv
  BY DEF StoreInv
<1>2. CASE StartTask(t)
  <2>1. PICK s : s = IF cmd.fn = "BACKUP" THEN "label" ELSE "work"
    OBVIOUS
  <2>2. /\ stage[t] = "queued" /\ stage' = [stage EXCEPT ![t] = s] /\ result' = result
        /\ UNCHANGED <<reader, mu, chunks, bucket, answers, hist>>
    BY <1>2, <2>1 DEF StartTask, Goto
  <2>3. /\ stage[t] \in Working \ {"reply"} /\ s \in Working /\ s # "reply"
        /\ cmd.fn # "BACKUP" => s \in {"queued", "work", "reply", "finished"}
    BY <2>1, <2>2 DEF Working
  <2> QED
    BY <2>2, <2>3, QuietStep
<1>3. CASE LabelFile(t)
  <2>1. PICK s : s = IF t.part = 0 THEN "open" ELSE "upload"
    OBVIOUS
  <2>2. /\ stage[t] = "label" /\ stage' = [stage EXCEPT ![t] = s] /\ result' = result
        /\ UNCHANGED <<reader, mu, chunks, bucket, answers, hist>>
    BY <1>3, <2>1 DEF LabelFile, Goto
  <2>3. /\ stage[t] \in Working \ {"reply"} /\ s \in Working /\ s # "reply" /\ cmd.fn = "BACKUP"
    BY <1>1, <2>1, <2>2 DEF Working, TasksInv
  <2> QED
    BY <2>2, <2>3, QuietStep
<1>4. CASE OpenFile(t)
  <2>1. PICK e : e = [verdict |-> "ERROR"]
    OBVIOUS
  <2>2. Sound(e) /\ e.verdict = "ERROR"
    BY <2>1 DEF Sound
  <2>3. /\ stage[t] = "open"
        /\ UNCHANGED <<reader, mu, chunks, bucket, answers, hist>>
        /\ \/ stage' = [stage EXCEPT ![t] = "upload"] /\ result' = result
           \/ stage' = [stage EXCEPT ![t] = "reply"] /\ result' = [result EXCEPT ![t] = e]
    BY <1>4, <2>1 DEF OpenFile, Goto
  <2>4. stage[t] \in Working \ {"reply"} /\ "upload" \in Working /\ "reply" \in Working /\ cmd.fn = "BACKUP"
    BY <1>1, <2>3 DEF Working, TasksInv
  <2>5. CASE stage' = [stage EXCEPT ![t] = "upload"] /\ result' = result
    <3>1. "upload" # "reply"
      OBVIOUS
    <3> QED
      BY <2>3, <2>4, <2>5, <3>1, QuietStep
  <2>6. CASE stage' = [stage EXCEPT ![t] = "reply"] /\ result' = [result EXCEPT ![t] = e]
    BY <2>2, <2>3, <2>4, <2>6, QuietStep
  <2> QED
    BY <2>3, <2>5, <2>6
<1>5. CASE RestoreFile(t)
  <2>1. /\ stage[t] = "work" /\ cmd.fn = "RESTORE" /\ stage' = [stage EXCEPT ![t] = "reply"]
        /\ UNCHANGED <<reader, mu, chunks, bucket, answers, hist>>
    BY <1>5 DEF RestoreFile, Goto
  <2>2. PICK e : result' = [result EXCEPT ![t] = e] /\ Sound(e)
    <3>1. CASE \E v \in {"ERROR", "NOTFOUND"} : result' = [result EXCEPT ![t] = [verdict |-> v]]
      <4>1. PICK v \in {"ERROR", "NOTFOUND"} : result' = [result EXCEPT ![t] = [verdict |-> v]]
        BY <3>1
      <4>2. PICK e : e = [verdict |-> v]
        OBVIOUS
      <4>3. Sound(e)
        BY <4>2 DEF Sound
      <4> QED
        BY <4>1, <4>2, <4>3
    <3>2. CASE /\ Listed(t) # <<>>
               /\ result' = [result EXCEPT ![t] = [verdict |-> "RESTORED", object |-> Listed(t)[Len(Listed(t))]]]
      <4>1. PICK o : o = Listed(t)[Len(Listed(t))]
        OBVIOUS
      <4>2. o \in InBucket
        BY <1>1, <3>2, <4>1, ListedLast
      <4>3. o.file \notin tainted => o.whole /\ o.part = 0
        BY <1>1, <2>1, <4>2 DEF LeftInv, Storing
      <4>4. PICK e : e = [verdict |-> "RESTORED", object |-> o]
        OBVIOUS
      <4>5. Sound(e)
        BY <4>3, <4>4 DEF Sound
      <4> QED
        BY <3>2, <4>1, <4>4, <4>5
    <3> QED
      BY <1>5, <3>1, <3>2 DEF RestoreFile
  <2>3. stage[t] \in Working \ {"reply"} /\ "reply" \in Working /\ "reply" \in {"queued", "work", "reply", "finished"}
    BY <2>1 DEF Working
  <2>4. cmd.fn # "BACKUP"
    BY <2>1
  <2> QED
    BY <2>1, <2>2, <2>3, <2>4, QuietStep
<1>6. CASE InquireFiles(t)
  <2>1. /\ stage[t] = "work" /\ cmd.fn = "INQUIRE" /\ stage' = [stage EXCEPT ![t] = "reply"]
        /\ UNCHANGED <<reader, mu, chunks, bucket, answers, hist>>
    BY <1>6 DEF InquireFiles, Goto
  <2>2. PICK e : result' = [result EXCEPT ![t] = e] /\ e.verdict # "RESTORED"
    <3>1. PICK e : /\ \/ e = [verdict |-> "ERROR"] \/ e = [verdict |-> "NOTFOUND"]
                      \/ e = [verdict |-> "BACKUP", objects |-> Listed(t)]
                   /\ result' = [result EXCEPT ![t] = e]
      <4>1. \/ result' = [result EXCEPT ![t] = [verdict |-> "ERROR"]]
            \/ result' = [result EXCEPT ![t] = [verdict |-> "NOTFOUND"]]
            \/ result' = [result EXCEPT ![t] = [verdict |-> "BACKUP", objects |-> Listed(t)]]
        <5>1. CASE result' = [result EXCEPT ![t] = [verdict |-> "ERROR"]]
          BY <5>1
        <5>2. CASE result' = [result EXCEPT ![t] = IF Listed(t) = <<>> THEN [verdict |-> "NOTFOUND"]
                                                   ELSE [verdict |-> "BACKUP", objects |-> Listed(t)]]
          BY <5>2
        <5> QED
          BY <1>6, <5>1, <5>2, Zenon DEF InquireFiles
      <4> QED
        BY <4>1, Zenon
    <3>2. e.verdict # "RESTORED"
      BY <3>1
    <3> QED
      BY <3>1, <3>2
  <2>3. stage[t] \in Working \ {"reply"} /\ "reply" \in Working /\ "reply" \in {"queued", "work", "reply", "finished"}
    BY <2>1 DEF Working
  <2>4. cmd.fn # "BACKUP" /\ Sound(e)
    BY <2>1, <2>2 DEF Sound
  <2> QED
    BY <2>1, <2>2, <2>3, <2>4, QuietStep
<1> QED
  BY <1>2, <1>3, <1>4, <1>5, <1>6

(* Each step preserves the invariant. *)
LEMMA StoreNext ==
    ASSUME FilesAreDistinct, LinesInv, StoreInv, [Next]_vars
    PROVE  StoreInv'
<1>1. CASE Begin
  BY <1>1, BeginStored
<1>2. CASE ReadLine
  BY <1>2, ReadLineStored
<1>3. CASE EndCommand
  BY <1>3, EndCommandStored
<1>4. CASE FailCommand
  BY <1>4, FailCommandStored
<1>5. CASE EndProcess
  BY <1>5, EndProcessStored
<1>6. ASSUME Alive, NEW t \in Tasks, TaskStep(t) PROVE StoreInv'
  <2>1. CASE StartTask(t) \/ LabelFile(t) \/ OpenFile(t) \/ RestoreFile(t) \/ InquireFiles(t)
    BY <1>6, <2>1, QuietSteps
  <2>2. CASE UploadFile(t)
    BY <1>6, <2>2, UploadStored
  <2>3. CASE ReplyWhole(t)
    BY <1>6, <2>3, ReplyWholeStored
  <2>4. CASE CountChunk(t)
    BY <1>6, <2>4, CountStored
  <2>5. CASE ComposeChunks(t)
    BY <1>6, <2>5, ComposeStored
  <2>6. CASE DeleteChunks(t)
    BY <1>6, <2>6, DeleteChunksStored
  <2>7. CASE ReplyComposed(t)
    BY <1>6, <2>7, ReplyComposedStored
  <2>8. CASE DeleteObject(t)
    BY <1>6, <2>8, DeleteObjectStored
  <2> QED
    BY <1>6, <2>1, <2>2, <2>3, <2>4, <2>5, <2>6, <2>7, <2>8 DEF TaskStep
<1>7. CASE UNCHANGED vars
  <2>1. /\ shared' = shared /\ n' = n /\ exit' = exit /\ cmd' = cmd /\ next' = next /\ stage' = stage
        /\ result' = result /\ mu' = mu /\ done' = done /\ chunkError' = chunkError /\ bucket' = bucket
        /\ answers' = answers /\ saved' = saved /\ tainted' = tainted
    BY <1>7 DEF vars
  <2>2. Alive' <=> Alive
    BY <2>1 DEF Alive
  <2>3. InBucket' = InBucket /\ \A f, i : Restorable(f, i)' <=> Restorable(f, i)
    BY <2>1, SameBucket
  <2>4. StoreTypes'
    BY <2>1, <2>2, <2>3 DEF StoreInv, StoreTypes, SameName, Storing, Unlike, Upload
  <2>5. TasksInv'
    BY <2>1, TasksStay DEF StoreInv
  <2>6. OwnersInv' /\ SavedInv'
    BY <2>1, <2>2, <2>3 DEF StoreInv, OwnersInv, SavedInv, FileOf
  <2>7. LeftInv'
    BY <2>1, <2>2, <2>3 DEF StoreInv, LeftInv, Attempted, Storing, Line
  <2>8. AnswersInv'
    BY <2>1 DEF StoreInv, AnswersInv, Sound, Elements
  <2>9. ASSUME Storing, NEW l \in 1..MaxLines PROVE LineStored(l)'
    <3>1. LineStored(l)
      BY <2>9 DEF StoreInv, StoredInv
    <3>2. \A o : o \in OfLine(l)' <=> o \in OfLine(l)
      BY <2>1, <2>3 DEF OfLine, FileOf
    <3>3. Restorable(FileOf(l), n) => Restorable(FileOf(l), n)'
      BY <2>1, <2>3 DEF FileOf
    <3> QED
      BY <2>1, <3>1, <3>2, <3>3, LineKept
  <2>10. StoredInv'
    BY <2>1, <2>2, <2>9 DEF StoreInv, StoredInv, Storing
  <2> QED
    BY <2>4, <2>5, <2>6, <2>7, <2>8, <2>10 DEF StoreInv
<1> QED
  BY <1>1, <1>2, <1>3, <1>4, <1>5, <1>6, <1>7 DEF Next

(* The invariant makes what was saved restorable. *)
LEMMA StoreIsRestorable == LinesInv /\ StoreInv => SavedIsRestorable
<1> SUFFICES ASSUME LinesInv, StoreInv PROVE SavedIsRestorable
  OBVIOUS
<1>1. StoreTypes /\ SavedInv /\ AnswersInv
  BY DEF StoreInv
<1>2. ASSUME NEW s \in saved, NEW q, q = Kept(bucket, {o \in InBucket : o.file = s[1] /\ o.id = s[2]})
      PROVE  /\ q # <<>> /\ q[Len(q)].part = 0 /\ q[Len(q)].whole
             /\ shared \/ q[Len(q)].type = q[Len(q)].kind
  <2>1. WholeIn(bucket, shared, s[1], s[2])
    BY <1>1 DEF SavedInv, Restorable
  <2>2. bucket \in Seq(Elements(bucket)) /\ InBucket = Elements(bucket)
    BY <1>1, InBucketIs DEF StoreTypes
  <2>3. PICK e : LastIs(bucket, Named(bucket, s[1], s[2]), e) /\ Good(e, shared)
    BY <2>1, <2>2, WholeIs
  <2>4. q = Kept(bucket, Named(bucket, s[1], s[2]))
    BY <1>2, <2>2 DEF Named
  <2>5. q # <<>> /\ q[Len(q)] = e
    BY <2>2, <2>3, <2>4, LastOfKept
  <2> QED
    BY <2>3, <2>5 DEF Good
<1>3. ASSUME NEW l \in 1..MaxLines, NEW i \in DOMAIN answers[l] PROVE Sound(answers[l][i])
  BY <1>1 DEF AnswersInv, Elements
<1> QED
  BY <1>2, <1>3 DEF SavedIsRestorable, Sound

(* What was answered #SAVED stays restorable, with its type, until it is deleted,
   and a restore of the latest backup delivers whole data unless an upload of that
   file failed or left a chunk: for any number of commands, lines, streams and
   threads, when each backup names a file once. *)
THEOREM SavedStayRestorable == FilesAreDistinct => (Spec => []SavedIsRestorable)
<1>1. FilesAreDistinct => [](FilesAreDistinct)
  OBVIOUS
<1>2. FilesAreDistinct /\ LinesInv /\ StoreInv /\ [Next]_vars => LinesInv' /\ StoreInv'
  BY LinesNext, StoreNext
<1> QED
  BY <1>1, <1>2, LinesInit, StoreInit, StoreIsRestorable, PTL DEF Spec
===============================================================================

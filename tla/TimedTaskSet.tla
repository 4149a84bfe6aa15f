----------------------------- MODULE TimedTaskSet -----------------------------
(***************************************************************************)
(* timed_task_set: the timed tasks in memory, the cron file with one line  *)
(* for each and a file for each under ./timed_task/, which the line of     *)
(* cron reads.  add_timed_task and del_timed_task rewrite all the files    *)
(* one write at a time; the process may be killed between two writes, and  *)
(* the service manager starts it again.                                    *)
(*                                                                         *)
(* One thread uses the set here.  An entry is known by its id, by whether  *)
(* its cron expression is one that the pattern of the constructor matches, *)
(* and by a version, which stands for all its other fields.                *)
(***************************************************************************)
EXTENDS Naturals, Sequences

CONSTANTS
  Ids,                  \* task ids
  Crons,                \* the kinds of cron expression of the added tasks
  Versions,
  NoEntry,              \* no task of this id
  Torn,                 \* the content of a file opened and not written yet
  Unknown               \* a request the process did not survive

ASSUME CronsAssumption == Crons \subseteq {"fields", "nickname", "missing"}

\* "fields" are five fields of the letters and digits the pattern lists,
\* "nickname" is any other expression of cron, such as @daily, and "missing" is a
\* task without the key "cron".
Entries == [id : Ids, cron : Crons, version : Versions]

ASSUME MarksAssumption ==
  /\ NoEntry \notin Entries \cup Ids /\ Torn \notin Entries
  /\ Unknown \notin Entries /\ NoEntry # Torn /\ NoEntry # Unknown

VARIABLES
  list,                 \* timed_task_list
  cronLines,            \* the lines of the cron file
  taskFile,             \* the file of each id
  phase,                \* of the process: "down" or "raised" once it has ended,
                        \* "reading" or "storing" in the constructor, then "up"
  writing,              \* where update_file is
  next,                 \* the index of its loop, or of the constructor's
  request,              \* the id that is being added or deleted
  acked,                \* history: each id as the last answered request left it
  interrupted           \* history: update_file was cut short once

fileVars == <<cronLines, taskFile>>
vars == <<list, fileVars, phase, writing, next, request, acked, interrupted>>

Lines == [id : Ids, cron : Crons]

TypeOK ==
  /\ list \in Seq(Entries)
  /\ cronLines \in Seq(Lines)
  /\ taskFile \in [Ids -> Entries \cup {NoEntry, Torn}]
  /\ phase \in {"down", "raised", "reading", "storing", "up"}
  /\ writing \in {"no", "truncate", "line", "open", "dump"}
  /\ next \in Nat
  /\ request \in Ids \cup {NoEntry}
  /\ acked \in [Ids -> Entries \cup {NoEntry, Unknown}]
  /\ interrupted \in BOOLEAN

Init ==
  /\ list = <<>>
  /\ cronLines = <<>>
  /\ taskFile = [i \in Ids |-> NoEntry]
  /\ phase = "down"
  /\ writing = "no"
  /\ next = 1
  /\ request = NoEntry
  /\ acked = [i \in Ids |-> NoEntry]
  /\ interrupted = FALSE

Ended == phase \in {"down", "raised"}
Idle == phase = "up" /\ writing = "no"
Line(e) == [id |-> e.id, cron |-> e.cron]

-----------------------------------------------------------------------------
(* The requests                                                            *)

\* erase(it): the tasks behind the k-th move up.
Erase(k) == [j \in 1 .. Len(list) - 1 |-> IF j < k THEN list[j] ELSE list[j + 1]]

\* The loops of add_timed_task and del_timed_task stop at the first task of an id.
FirstOf(k, i) ==
  k \in DOMAIN list /\ list[k].id = i /\ \A j \in 1 .. k - 1 : list[j].id # i

Listed(i) == \E k \in DOMAIN list : FirstOf(k, i)
Position(i) == CHOOSE k \in DOMAIN list : FirstOf(k, i)
Held(i) == IF Listed(i) THEN list[Position(i)] ELSE NoEntry
Without(i) == IF Listed(i) THEN Erase(Position(i)) ELSE list

\* Variant: a task of the same id is not replaced.
AppendTask(e) == Append(list, e)

\* The task of the same id, if any, is erased; the new one comes last.
PutTask(e) == Append(Without(e.id), e)

AddTimedTask(e) ==
  /\ Idle
  /\ list' = PutTask(e)
  /\ request' = e.id
  /\ writing' = "truncate"
  /\ UNCHANGED <<fileVars, phase, next, acked, interrupted>>

\* Variant: the files are not written again.
DelTimedTaskInMemory(i) ==
  /\ Idle
  /\ list' = Without(i)
  /\ acked' = [acked EXCEPT ![i] = NoEntry]
  /\ UNCHANGED <<fileVars, phase, writing, next, request, interrupted>>

\* An id that is not in the list is deleted without a write.
DelTimedTask(i) ==
  /\ Idle
  /\ IF Listed(i)
     THEN /\ list' = Without(i)
          /\ request' = i
          /\ writing' = "truncate"
          /\ UNCHANGED acked
     ELSE /\ acked' = [acked EXCEPT ![i] = NoEntry]
          /\ UNCHANGED <<list, request, writing>>
  /\ UNCHANGED <<fileVars, phase, next, interrupted>>

-----------------------------------------------------------------------------
(* update_file                                                             *)

\* Variant: the lines are appended to what the file held.
TruncateCronNot ==
  /\ writing = "truncate"
  /\ next' = 1
  /\ writing' = "line"
  /\ UNCHANGED <<list, fileVars, phase, request, acked, interrupted>>

\* std::ofstream cron_file and its head.
TruncateCron ==
  /\ writing = "truncate"
  /\ cronLines' = <<>>
  /\ next' = 1
  /\ writing' = "line"
  /\ UNCHANGED <<list, taskFile, phase, request, acked, interrupted>>

\* Variant: the loop ends one task early.
MoreButLast == next < Len(list)

More == next <= Len(list)

\* cron_file << ... << std::endl, which flushes the line.
WriteLine ==
  /\ writing = "line"
  /\ More
  /\ list[next].cron # "missing"
  /\ cronLines' = Append(cronLines, Line(list[next]))
  /\ writing' = "open"
  /\ UNCHANGED <<list, taskFile, phase, next, request, acked, interrupted>>

\* Variant: the request is answered all the same.
RaiseNoCronAnswered ==
  /\ phase = "up"
  /\ writing = "line"
  /\ More
  /\ list[next].cron = "missing"
  /\ writing' = "no"
  /\ acked' = [acked EXCEPT ![request] = Held(request)]
  /\ request' = NoEntry
  /\ UNCHANGED <<list, fileVars, phase, next, interrupted>>

\* task.at("cron") raises: the loop of messages catches it and answers nothing.
\* The constructor never meets such a task, which no file holds.
RaiseNoCron ==
  /\ phase = "up"
  /\ writing = "line"
  /\ More
  /\ list[next].cron = "missing"
  /\ writing' = "no"
  /\ acked' = [acked EXCEPT ![request] = Unknown]
  /\ request' = NoEntry
  /\ UNCHANGED <<list, fileVars, phase, next, interrupted>>

\* Variant: a file that exists is not written again.
OpenTaskFileOnce ==
  /\ writing = "open"
  /\ IF taskFile[list[next].id] = NoEntry
     THEN /\ taskFile' = [taskFile EXCEPT ![list[next].id] = Torn]
          /\ writing' = "dump"
          /\ UNCHANGED next
     ELSE /\ next' = next + 1
          /\ writing' = "line"
          /\ UNCHANGED taskFile
  /\ UNCHANGED <<list, cronLines, phase, request, acked, interrupted>>

\* std::ofstream task_file empties the file.
OpenTaskFile ==
  /\ writing = "open"
  /\ taskFile' = [taskFile EXCEPT ![list[next].id] = Torn]
  /\ writing' = "dump"
  /\ UNCHANGED <<list, cronLines, phase, next, request, acked, interrupted>>

DumpTask ==
  /\ writing = "dump"
  /\ taskFile' = [taskFile EXCEPT ![list[next].id] = list[next]]
  /\ next' = next + 1
  /\ writing' = "line"
  /\ UNCHANGED <<list, cronLines, phase, request, acked, interrupted>>

\* cron_file.close(): the request is answered, or the constructor is done.
CloseCron ==
  /\ writing = "line"
  /\ ~More
  /\ writing' = "no"
  /\ phase' = "up"
  /\ acked' = IF request = NoEntry THEN acked
              ELSE [acked EXCEPT ![request] = Held(request)]
  /\ request' = NoEntry
  /\ UNCHANGED <<list, fileVars, next, interrupted>>

-----------------------------------------------------------------------------
(* The constructor, and the end of the process                             *)

\* std::ifstream cron_file.
StartReading ==
  /\ Ended
  /\ phase' = "reading"
  /\ next' = 1
  /\ UNCHANGED <<list, fileVars, writing, request, acked, interrupted>>

\* A line whose expression matches, and whose task file exists.
Loadable(line) == line.cron = "fields" /\ taskFile[line.id] # NoEntry

\* One turn of the loop over the lines.
LoadLine ==
  /\ phase = "reading"
  /\ next <= Len(cronLines)
  /\ LET line == cronLines[next]
     IN \/ /\ ~Loadable(line)
           /\ UNCHANGED list
        \/ /\ Loadable(line) /\ taskFile[line.id] # Torn
           /\ list' = Append(list, taskFile[line.id])
  /\ next' = next + 1
  /\ UNCHANGED <<fileVars, phase, writing, request, acked, interrupted>>

\* json::parse raises on a torn file and nothing catches it: the process ends.
LoadRaises ==
  /\ phase = "reading"
  /\ next <= Len(cronLines)
  /\ Loadable(cronLines[next]) /\ taskFile[cronLines[next].id] = Torn
  /\ phase' = "raised"
  /\ list' = <<>>
  /\ UNCHANGED <<fileVars, writing, next, request, acked, interrupted>>

\* The end of the loop: update_file.
LoadDone ==
  /\ phase = "reading"
  /\ next > Len(cronLines)
  /\ phase' = "storing"
  /\ writing' = "truncate"
  /\ UNCHANGED <<list, fileVars, next, request, acked, interrupted>>

\* The process is killed, or the board loses its power.
Crash ==
  /\ ~Ended
  /\ phase' = "down"
  /\ list' = <<>>
  /\ writing' = "no"
  /\ interrupted' = (interrupted \/ writing # "no")
  /\ acked' = IF request = NoEntry THEN acked
              ELSE [acked EXCEPT ![request] = Unknown]
  /\ request' = NoEntry
  /\ UNCHANGED <<fileVars, next>>

-----------------------------------------------------------------------------

UpdateFile ==
  \/ TruncateCron \/ WriteLine \/ RaiseNoCron \/ OpenTaskFile \/ DumpTask
  \/ CloseCron

Construct == StartReading \/ LoadLine \/ LoadRaises \/ LoadDone

Next ==
  \/ \E e \in Entries : AddTimedTask(e)
  \/ \E i \in Ids : DelTimedTask(i)
  \/ UpdateFile
  \/ Construct
  \/ Crash

Spec == Init /\ [][Next]_vars

\* The service manager starts the process again, and the process runs.
FairSpec == Spec /\ WF_vars(Construct) /\ WF_vars(UpdateFile)

-----------------------------------------------------------------------------
(* Properties                                                              *)

\* add_timed_task and the constructor keep one entry for each id, so that cron
\* fires a task once.
UniqueIds ==
  /\ \A j, k \in DOMAIN list : list[j].id = list[k].id => j = k
  /\ \A j, k \in DOMAIN cronLines : cronLines[j].id = cronLines[k].id => j = k

\* What cron reads: each line is that of a task in memory, and its file holds
\* that task, but for the last line while its file is being written.
CronReadsWhole ==
  phase \in {"storing", "up"} /\ writing # "truncate" =>
    \A k \in DOMAIN cronLines :
      /\ k <= Len(list) /\ cronLines[k] = Line(list[k])
      /\ \/ taskFile[list[k].id] = list[k]
         \/ k = Len(cronLines) /\ writing \in {"open", "dump"}

\* No crash brings back a task that was deleted, or an old version of one: what
\* is in the list after any restart is what the last answered request left.
NoPhantom ==
  Idle => \A k \in DOMAIN list : acked[list[k].id] \in {list[k], Unknown}

\* A crash between two requests loses nothing that was answered and that the
\* pattern of the constructor matches.
Durable ==
  Idle /\ ~interrupted =>
    \A i \in Ids : acked[i] \in Entries /\ acked[i].cron = "fields"
                  => Held(i) = acked[i]

\* timed_task.cpp:12, update_file brings the cron file and the task files up to
\* date with the list: between two requests they hold the same tasks, unless a
\* task without "cron" is in the list.
FilesUpdated ==
  Idle /\ (\A k \in DOMAIN list : list[k].cron # "missing") =>
    /\ Len(cronLines) = Len(list)
    /\ \A k \in DOMAIN list :
         cronLines[k] = Line(list[k]) /\ taskFile[list[k].id] = list[k]

\* hljb_smart_service.service:14, however the service ends it is started again: once
\* nothing kills it any more, it comes up.
Recovers == <>[][~Crash]_vars => (Ended ~> phase = "up")

-----------------------------------------------------------------------------
(* The inductive invariant                                                 *)

\* Which requests and writes go with which phase.
Modes ==
  /\ phase \in {"down", "raised", "reading"} => writing = "no"
  /\ Ended => list = <<>>
  /\ phase = "storing" => writing # "no"
  /\ phase # "up" => request = NoEntry
  /\ phase = "up" => (writing = "no" <=> request = NoEntry)

\* The constructor lists tasks of lines it has read.
Read ==
  phase = "reading" =>
    /\ next \in 1 .. Len(cronLines) + 1
    /\ \A k \in DOMAIN list :
         /\ list[k].cron # "missing"
         /\ \E j \in 1 .. next - 1 : list[k].id = cronLines[j].id

\* What is stored for an id, or was answered for it, is a task of that id.
Named ==
  \A i \in Ids :
    /\ taskFile[i] \in Entries => taskFile[i].id = i /\ taskFile[i].cron # "missing"
    /\ acked[i] \in Entries => acked[i].id = i

\* The lines are those of a first part of the list, and so are the files, but
\* for the last one while it is written.
Storing == phase \in {"storing", "up"} /\ writing # "truncate"
Written ==
  Storing =>
    /\ Len(cronLines) <= Len(list)
    /\ \A k \in DOMAIN cronLines :
         cronLines[k] = Line(list[k]) /\ list[k].cron # "missing"
    /\ writing = "line" => next = Len(cronLines) + 1
    /\ writing \in {"open", "dump"} => next = Len(cronLines) /\ next # 0
    /\ \A k \in DOMAIN cronLines :
         \/ taskFile[list[k].id] = list[k]
         \/ k = next /\ writing \in {"open", "dump"}
    /\ writing = "no" /\ Len(cronLines) < Len(list)
         => list[Len(cronLines) + 1].cron = "missing"

\* A task of the list, or of a line, is the one of the last answer.
ListAcked ==
  \A k \in DOMAIN list :
    LET i == list[k].id
    IN \/ i = request \/ acked[i] = Unknown
       \/ acked[i] = list[k] /\ taskFile[i] \in {list[k], Torn}

LinesAcked ==
  \A k \in DOMAIN cronLines :
    LET i == cronLines[k].id
    IN \/ i = request \/ acked[i] = Unknown
       \/ acked[i] \in Entries /\ taskFile[i] \in {acked[i], Torn}

\* What was answered behind a task without "cron" is unknown.
AckedBefore ==
  \A j, k \in DOMAIN list : j < k /\ list[j].cron = "missing" =>
    list[k].id = request \/ acked[list[k].id] = Unknown

\* As long as no write was cut short, what was answered is in the list and,
\* between two requests, in the files.
Kept(i) == acked[i] \in Entries /\ acked[i].cron = "fields" /\ i # request
InList(i) == \E k \in DOMAIN list : list[k] = acked[i]
InFiles(i) ==
  taskFile[i] = acked[i] /\ \E k \in DOMAIN cronLines : cronLines[k] = Line(acked[i])
Retained ==
  ~interrupted =>
    \A i \in Ids : Kept(i) =>
      /\ phase \in {"storing", "up"} => InList(i)
      /\ writing = "no" => InFiles(i)
      /\ phase = "reading" /\ (\E k \in 1 .. next - 1 : cronLines[k].id = i)
           => InList(i)

\* What update_file has done and what the requests were answered, together.
IInv ==
  /\ TypeOK /\ UniqueIds /\ Modes /\ Read /\ Named /\ Written
  /\ ListAcked /\ LinesAcked /\ AckedBefore /\ Retained

=============================================================================

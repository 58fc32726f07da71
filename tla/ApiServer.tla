------------------------------ MODULE ApiServer ------------------------------
(* The shared state of the HTTP API server (src/mlody/cli/server.py) under its
   request threads: the history file, which every command reads, extends and
   rewrites without a lock; the root logger, to which a stage request attaches
   a handler of its own; the bounded table of stage logs; and sys.stdout, which
   the verbatim endpoint swaps for a buffer while its command runs, and on which
   the commands of the other endpoints print what loading a workspace prints.

   One thread serves one request. The threads are daemons: they die with the
   process wherever they are, and the next process finds the file they left. *)
EXTENDS Naturals, Sequences, FiniteSets

CONSTANTS Plans,      \* the POST requests clients may make, one thread each: endpoint
                      \* ("execute", "stream", "stage" or "verbatim"), requestId
                      \* (clients may reuse one), number of targets (0: not a show)
          Capacity,   \* _MAX_STAGE_REQUEST_LOGS
          MaxEvents,  \* bound: results and logs of one command
          MaxDeaths   \* bound: how often the process dies

VARIABLES
  plan,      \* what each request asks
  history,   \* history.json: its state, and its entries when it parses
  pc,        \* where each request's thread is
  snap,      \* the entries a thread has loaded and will write back
  events,    \* the events a command has yielded or collected, in order
  todo,      \* targets a command has not finished
  conn,      \* the threads that hold an open database connection
  logs,      \* _stage_request_logs: <<id, events>>, oldest first
  stdout,    \* what sys.stdout is: the terminal or a request's buffer
  saved,     \* the stdout each verbatim command found and will put back
  out,       \* what each verbatim buffer received
  answer,    \* what the client was told
  deaths,
  \* ghosts
  recorded,  \* the requests whose append ended, in order
  quiet,     \* no append has overlapped another or been cut short
  stored,    \* the requests that stored their logs in this process, in order
  mixed      \* what has overlapped a verbatim command: another "verbatim"
             \* command, or a target of a "show" by another endpoint
vars == <<plan, history, pc, snap, events, todo, conn, logs, stdout, saved, out,
          answer, deaths, recorded, quiet, stored, mixed>>

Terminal == "terminal"
ASSUME ConstantsOK ==
  /\ Capacity \in Nat
  /\ \A p \in Plans :
       /\ Terminal \notin DOMAIN p
       /\ \A r \in DOMAIN p :
            /\ p[r].endpoint \in {"execute", "stream", "stage", "verbatim"}
            /\ p[r].targets \in Nat

Requests == DOMAIN plan
Endpoint(r) == plan[r].endpoint
Id(r) == plan[r].id
Streams(r) == Endpoint(r) # "verbatim"
Count(r, kind) == Cardinality({i \in DOMAIN events[r] : events[r][i][1] = kind})
File(st, es) == [st |-> st, entries |-> es]
Emit(r, kind) == events' = [events EXCEPT ![r] = Append(@, <<kind, r>>)]
Running == {r \in Requests : pc[r] \in {"run", "target"}}

Init ==
  /\ plan \in Plans /\ history = File("absent", <<>>)
  /\ pc = [r \in Requests |-> "new"] /\ snap = [r \in Requests |-> <<>>]
  /\ events = [r \in Requests |-> <<>>] /\ todo = [r \in Requests |-> plan[r].targets] /\ conn = {}
  /\ logs = <<>> /\ stdout = Terminal /\ saved = [r \in Requests |-> Terminal]
  /\ out = [r \in Requests |-> <<>>] /\ answer = [r \in Requests |-> "none"]
  /\ deaths = 0 /\ recorded = <<>> /\ quiet = TRUE /\ stored = <<>> /\ mixed = {}

commandVars == <<plan, events, todo, conn, logs, stdout, saved, out, stored, mixed>>

(* -------------------------------------------------------- command history *)
Appending == {r \in Requests : pc[r] \in {"wipe", "write"}}
Go(r, from, to) == pc[r] = from /\ pc' = [pc EXCEPT ![r] = to]

(* A body the parser refuses is answered with 400 and recorded nowhere. *)
Reject(r) ==
  /\ Go(r, "new", "done") /\ answer' = [answer EXCEPT ![r] = "refused"]
  /\ UNCHANGED <<history, snap, deaths, recorded, quiet>> /\ UNCHANGED commandVars

(* A file that is absent or does not parse is an empty history. *)
LoadEntriesForgets == <<>>
LoadEntries == IF history.st = "whole" THEN history.entries ELSE <<>>
LoadHistory(r) ==
  /\ Go(r, "new", "wipe") /\ snap' = [snap EXCEPT ![r] = LoadEntries]
  /\ quiet' = (quiet /\ Appending = {})
  /\ UNCHANGED <<history, answer, deaths, recorded>> /\ UNCHANGED commandVars

(* write_text opens the file, which empties it, and then writes. *)
WipeHistory(r) ==
  /\ Go(r, "wipe", "write") /\ history' = File("empty", <<>>)
  /\ UNCHANGED <<snap, answer, deaths, recorded, quiet>> /\ UNCHANGED commandVars

(* Over another writer's longer text the end of that text remains: the file
   does not parse. *)
NewEntries(r) == Append(snap[r], r)
WriteHistory(r) ==
  /\ Go(r, "write", "start")
  /\ \/ history' = File("whole", NewEntries(r))
     \/ history.st # "empty" /\ history' = File("torn", <<>>)
  /\ recorded' = Append(recorded, r)
  /\ UNCHANGED <<snap, answer, deaths, quiet>> /\ UNCHANGED commandVars

(* Any exception is logged and the command goes on; half-written bytes stay. *)
PersistFails(r) ==
  /\ pc[r] \in {"new", "wipe", "write"} /\ pc' = [pc EXCEPT ![r] = "start"]
  /\ history' = IF pc[r] = "write" THEN File("torn", <<>>) ELSE history
  /\ quiet' = (quiet /\ pc[r] # "write")
  /\ UNCHANGED <<snap, answer, deaths, recorded>> /\ UNCHANGED commandVars

fileVars == <<plan, history, snap, deaths, recorded, quiet>>
stageVars == <<logs, stored>>
outVars == <<stdout, saved, out, mixed>>

(* ----------------------------------------------------------- the commands *)
Start(r) ==
  /\ Streams(r) /\ Go(r, "start", "run") /\ Emit(r, "started")
  /\ UNCHANGED <<todo, conn, answer, fileVars, stageVars, outVars>>

(* A thread logs: the root logger calls the handler of every stage request
   that is collecting, and a handler keeps the records of its own thread. *)
Handlers == {h \in Running : Endpoint(h) = "stage"}
Keeps(h, r) == h = r
Log(r) ==
  /\ r \in Running /\ Handlers # {}
  /\ \A h \in Handlers : Count(h, "log") < MaxEvents
  /\ events' = [h \in Requests |-> IF h \in Handlers /\ Keeps(h, r)
                                   THEN Append(events[h], <<"log", r>>) ELSE events[h]]
  /\ UNCHANGED <<pc, todo, conn, answer, fileVars, stageVars, outVars>>

Verbatims == {r \in Requests : pc[r] = "printing"}
OpenTarget(r) ==
  /\ todo[r] > 0 /\ Go(r, "run", "target") /\ Emit(r, "chunk")
  /\ conn' = conn \union {r} 
  /\ mixed' = IF Verbatims = {} THEN mixed ELSE mixed \union {"show"}
  /\ UNCHANGED <<todo, answer, stdout, saved, out, fileVars, stageVars>>

(* resolve_workspace is not told where to print: what it and the files it loads
   print goes to the sys.stdout of that moment. On the terminal it leaves nothing. *)
PrintLoading(r) ==
  /\ pc[r] = "target" /\ stdout # Terminal
  /\ Cardinality({i \in DOMAIN out[stdout] : out[stdout][i] = r}) < MaxEvents
  /\ out' = [out EXCEPT ![stdout] = Append(@, r)]
  /\ UNCHANGED <<pc, events, todo, conn, stdout, saved, mixed, answer, fileVars, stageVars>>

(* One label of the expanded target: resolved, or an error and the next. *)
Label(r) ==
  /\ pc[r] = "target" /\ Count(r, "result") + Count(r, "error") < MaxEvents
  /\ \E kind \in {"result", "error"} : Emit(r, kind)
  /\ UNCHANGED <<pc, todo, conn, answer, fileVars, stageVars, outVars>>

EndTarget(r) ==
  /\ Go(r, "target", "run") /\ todo' = [todo EXCEPT ![r] = @ - 1]
  /\ conn' = conn \ {r}
  /\ UNCHANGED <<events, answer, fileVars, stageVars, outVars>>

(* The exceptions show expects end the target, and the next one is tried. *)
TargetFails(r) ==
  /\ Go(r, "target", "run") /\ todo' = [todo EXCEPT ![r] = @ - 1]
  /\ conn' = conn \ {r} /\ Emit(r, "error")
  /\ UNCHANGED <<answer, fileVars, stageVars, outVars>>

(* Any other exception ends the command; the remaining targets are not tried. *)
CommandFailsSilently(r) ==
  /\ Go(r, "target", "ending") /\ conn' = conn \ {r}
  /\ UNCHANGED <<events, todo, answer, fileVars, stageVars, outVars>>
CommandFails(r) ==
  /\ Go(r, "target", "ending") /\ conn' = conn \ {r} /\ Emit(r, "error")
  /\ UNCHANGED <<todo, answer, fileVars, stageVars, outVars>>

(* A command other than show is an error event, not a bad request. *)
Unsupported(r) ==
  /\ plan[r].targets = 0 /\ Go(r, "run", "ending") /\ Emit(r, "error")
  /\ UNCHANGED <<todo, conn, answer, fileVars, stageVars, outVars>>

Exhausted(r) ==
  /\ plan[r].targets > 0 /\ todo[r] = 0 /\ Go(r, "run", "ending")
  /\ UNCHANGED <<events, todo, conn, answer, fileVars, stageVars, outVars>>

Status(r) == CASE Count(r, "error") = 0 -> "done"
               [] Count(r, "result") > 0 -> "partial_error"
               [] OTHER -> "error"
Complete(r) ==
  /\ Go(r, "ending", IF Endpoint(r) = "stage" THEN "collected" ELSE "done")
  /\ Emit(r, "completed")
  /\ answer' = IF Endpoint(r) = "stage" THEN answer ELSE [answer EXCEPT ![r] = Status(r)]
  /\ UNCHANGED <<todo, conn, fileVars, stageVars, outVars>>

(* The client of a stream goes away: the write of an event fails, the handler
   returns, and the generator, dropped, runs its finally blocks. *)
Disconnect(r) ==
  /\ Endpoint(r) = "stream" /\ pc[r] \in {"start", "run", "target", "ending"}
  /\ pc' = [pc EXCEPT ![r] = "done"]
  /\ conn' = conn \ {r} /\ answer' = [answer EXCEPT ![r] = "cut"]
  /\ UNCHANGED <<events, todo, fileVars, stageVars, outVars>>

(* ------------------------------------------------------------- stage logs *)
(* A command with an error, or with no result, is a bad request: nothing kept. *)
StageFails(r) ==
  /\ Go(r, "collected", "done") /\ (Count(r, "error") > 0 \/ Count(r, "result") = 0)
  /\ answer' = [answer EXCEPT ![r] = "refused"]
  /\ UNCHANGED <<events, todo, conn, fileVars, stageVars, outVars>>

(* store_stage_request_logs: the id goes to the end, and the oldest leave. *)
Without(s, id) ==
  IF \E i \in DOMAIN s : s[i][1] = id
  THEN LET at == CHOOSE i \in DOMAIN s : s[i][1] = id
       IN [j \in 1..(Len(s) - 1) |-> s[IF j < at THEN j ELSE j + 1]]
  ELSE s
StoreEvictsNewest(s, id, es) ==
  LET grown == Append(Without(s, id), <<id, es>>) IN SubSeq(grown, 1, Capacity)
Store(s, id, es) ==
  LET grown == Append(Without(s, id), <<id, es>>) IN
  IF Len(grown) > Capacity THEN Tail(grown) ELSE grown
StoreLogs(r) ==
  /\ Go(r, "collected", "answering") /\ Count(r, "error") = 0 /\ Count(r, "result") > 0
  /\ logs' = Store(logs, Id(r), events[r]) /\ stored' = Append(stored, r)
  /\ UNCHANGED <<events, todo, conn, answer, fileVars, outVars>>

Answer(r) ==
  /\ Go(r, "answering", "done") /\ answer' = [answer EXCEPT ![r] = "done"]
  /\ UNCHANGED <<events, todo, conn, fileVars, stageVars, outVars>>

(* get_stage_request_logs *)
LogsOf(id) == {logs[i][2] : i \in {j \in DOMAIN logs : logs[j][1] = id}}

(* --------------------------------------------------------------- verbatim *)
(* CliRunner replaces sys.stdout, which all threads share, by its buffer. *)
Shows == {r \in Requests : pc[r] = "target"}
Swap(r) ==
  /\ ~Streams(r) /\ Go(r, "start", "printing")
  /\ saved' = [saved EXCEPT ![r] = stdout] /\ stdout' = r
  /\ mixed' = mixed \union (IF Verbatims = {} THEN {} ELSE {"verbatim"})
                     \union (IF Shows = {} THEN {} ELSE {"show"})
  /\ UNCHANGED <<events, todo, conn, out, answer, fileVars, stageVars>>

PrintOut(r) ==
  /\ pc[r] = "printing" /\ todo[r] > 0 /\ todo' = [todo EXCEPT ![r] = @ - 1]
  /\ out' = IF stdout = Terminal THEN out ELSE [out EXCEPT ![stdout] = Append(@, r)]
  /\ UNCHANGED <<pc, events, conn, stdout, saved, mixed, answer, fileVars, stageVars>>

(* The buffer's text is the answer, also when the command fails half-way. *)
PutBackNothing(r) == stdout
PutBack(r) == saved[r]
Restore(r) ==
  /\ Go(r, "printing", "done") /\ stdout' = PutBack(r)
  /\ \E status \in {"done", "error"} :
       /\ status = "done" => todo[r] = 0
       /\ answer' = [answer EXCEPT ![r] = status]
  /\ UNCHANGED <<events, todo, conn, saved, out, mixed, fileVars, stageVars>>

(* ------------------------------------------------- the process dies and restarts *)
Die ==
  /\ deaths < MaxDeaths /\ deaths' = deaths + 1
  /\ pc' = [r \in Requests |-> IF pc[r] = "new" THEN "new" ELSE "done"]
  /\ answer' = [r \in Requests |-> IF pc[r] \in {"new", "done"} THEN answer[r] ELSE "cut"]
  /\ quiet' = (quiet /\ ~ \E r \in Requests : pc[r] = "write")
  /\ conn' = {} /\ logs' = <<>> /\ stored' = <<>> /\ stdout' = Terminal
  /\ UNCHANGED <<plan, history, snap, events, todo, saved, out, mixed, recorded>>

Next ==
  \/ Die
  \/ \E r \in Requests :
       \/ Reject(r) \/ LoadHistory(r) \/ WipeHistory(r) \/ WriteHistory(r) \/ PersistFails(r)
       \/ Start(r) \/ Log(r) \/ OpenTarget(r) \/ PrintLoading(r) \/ Label(r) \/ EndTarget(r) \/ TargetFails(r)
       \/ CommandFails(r) \/ Unsupported(r) \/ Exhausted(r) \/ Complete(r) \/ Disconnect(r)
       \/ StageFails(r) \/ StoreLogs(r) \/ Answer(r)
       \/ Swap(r) \/ PrintOut(r) \/ Restore(r)
Spec == Init /\ [][Next]_vars

(* ------------------------------------------------------------- properties *)
(* While no append overlaps another or is cut short, history.json is absent or
   lists every command whose append ended, once and in that order, whatever
   the commands do afterwards and however often the process dies elsewhere. *)
SerialHistoryIsComplete ==
  quiet /\ Appending = {} => LoadEntries = recorded

(* The logs served for an id are those of the last request that stored under
   it, every record of that request's own thread and of no other's, and they
   are there until Capacity other ids have been stored in this process. *)
Later(r) == {Id(stored[j]) : j \in {k \in DOMAIN stored : \E i \in 1..k : stored[i] = r}}
LastUnder(id) == stored[CHOOSE i \in DOMAIN stored : /\ Id(stored[i]) = id
                     /\ \A j \in DOMAIN stored : Id(stored[j]) = id => j <= i]
RecentLogsAreServed ==
  \A i \in DOMAIN stored :
    LET id == Id(stored[i])
        r == LastUnder(id) IN
    /\ Cardinality(Later(r)) <= Capacity => LogsOf(id) = {events[r]}
    /\ LogsOf(id) \subseteq {events[r]}
    /\ \A j \in DOMAIN events[r] : events[r][j][2] = r

(* A command that is reported done resolved every target: none was left untried
   by an exception in another one, no label was unresolved, and no thread that
   has answered holds a database connection, a disconnected client's included. *)
DoneMeansAllTargets ==
  \A r \in Requests :
    /\ answer[r] = "done" => todo[r] = 0 /\ (Streams(r) => Count(r, "error") = 0)
    /\ pc[r] = "done" => r \notin conn

(* While no verbatim command overlaps another one, or a target that another
   endpoint's show resolves, each client is given what its own command printed,
   all of it and nothing else. And the process gets its own stdout back as long as
   no two verbatim commands overlap, whatever the other endpoints print. *)
SerialOutputIsOwn ==
  /\ mixed = {} =>
       \A r \in Requests : ~Streams(r) /\ answer[r] = "done" =>
         out[r] = [i \in 1..plan[r].targets |-> r]
  /\ "verbatim" \notin mixed /\ Verbatims = {} => stdout = Terminal
==============================================================================

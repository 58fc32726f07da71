---------------------------- MODULE ServerRestart ----------------------------
(* How the server starts, stops and restarts itself (src/mlody/cli/server.py):
   the probes and the two listeners of run_server, the restart request, which
   leaves a watcher process behind and shuts the server down from a thread of
   its own, and the watcher, which waits for the old process to disappear and
   runs its command line again. *)
EXTENDS Naturals, FiniteSets

CONSTANTS Clients,    \* threads that serve POST /api/server/restart, one each
          MaxFaults,  \* bound: calls of the operating system that fail
          MaxStarts   \* bound: processes started

Ports == {"http", "lsp"}

VARIABLES
  main,      \* the main thread of the current server process
  flag,      \* _restart_requested
  call,      \* each client's request
  timer,     \* the thread that calls shutdown: "none", "armed"
  watchers,  \* watcher processes waiting for the current server process to go
  owner,     \* who listens on each port: "none", "server" or "other"
  started,   \* processes started so far
  faults,
  stranger   \* ghost: another process has taken a port
vars == <<main, flag, call, timer, watchers, owner, started, faults, stranger>>
restartVars == <<flag, call, timer, watchers>>

Alive == main \notin {"zombie", "gone", "refused"}
Fault == faults < MaxFaults /\ faults' = faults + 1

Init ==
  /\ main = "probe" /\ flag = FALSE /\ call = [c \in Clients |-> "idle"]
  /\ timer = "none" /\ watchers = 0 /\ owner = [p \in Ports |-> "none"]
  /\ started = 1 /\ faults = 0 /\ stranger = FALSE

(* ---------------------------------------------------------------- start-up *)
(* _assert_listener_available binds each port and lets it go again. *)
Probe ==
  /\ main = "probe"
  /\ main' = IF \A p \in Ports : owner[p] = "none" THEN "bind" ELSE "refused"
  /\ UNCHANGED <<owner, started, faults, stranger>> /\ UNCHANGED restartVars

(* create_http_server: the port may have gone since the probe. *)
BindHttp ==
  /\ main = "bind"
  /\ IF owner["http"] = "none"
     THEN main' = "serving" /\ owner' = [owner EXCEPT !["http"] = "server"]
     ELSE main' = "refused" /\ UNCHANGED owner
  /\ UNCHANGED <<started, faults, stranger>> /\ UNCHANGED restartVars

(* The language server's thread binds when it gets to it; if the port is gone
   the thread dies alone and the HTTP server goes on without it. *)
BindLsp ==
  /\ main = "serving" /\ owner["lsp"] = "none"
  /\ owner' = [owner EXCEPT !["lsp"] = "server"]
  /\ UNCHANGED <<main, started, faults, stranger>> /\ UNCHANGED restartVars

(* --------------------------------------------------------- request_restart *)
MayAsk(c) == main = "serving" /\ call[c] = "idle"
(* The first one sets the flag; the others are told that it is under way. *)
RequestAlways(c) ==
  /\ MayAsk(c) /\ flag' = TRUE /\ call' = [call EXCEPT ![c] = "spawn"]
  /\ UNCHANGED <<main, timer, watchers, owner, started, faults, stranger>>
Request(c) ==
  /\ MayAsk(c) /\ flag' = TRUE
  /\ call' = [call EXCEPT ![c] = IF flag THEN "joined" ELSE "spawn"]
  /\ UNCHANGED <<main, timer, watchers, owner, started, faults, stranger>>

Spawn(c) ==
  /\ Alive /\ call[c] = "spawn" /\ call' = [call EXCEPT ![c] = "thread"]
  /\ watchers' = watchers + 1
  /\ UNCHANGED <<main, flag, timer, owner, started, faults, stranger>>

(* No watcher, no restart: the flag is given back, the client gets an error. *)
SpawnFailsKeepsFlag(c) ==
  /\ Fault /\ Alive /\ call[c] = "spawn" /\ call' = [call EXCEPT ![c] = "failed"]
  /\ UNCHANGED <<main, flag, timer, watchers, owner, started, stranger>>
SpawnFails(c) ==
  /\ Fault /\ Alive /\ call[c] = "spawn" /\ call' = [call EXCEPT ![c] = "failed"]
  /\ flag' = FALSE
  /\ UNCHANGED <<main, timer, watchers, owner, started, stranger>>
(* The 202 is written after the thread has started. *)
Arm(c) ==
  /\ Alive /\ call[c] = "thread" /\ call' = [call EXCEPT ![c] = "accepted"]
  /\ timer' = "armed"
  /\ UNCHANGED <<main, flag, watchers, owner, started, faults, stranger>>

(* A thread that cannot be started is an error the client sees; the flag and
   the watcher stay. *)
ArmFails(c) ==
  /\ Fault /\ Alive /\ call[c] = "thread" /\ call' = [call EXCEPT ![c] = "stuck"]
  /\ UNCHANGED <<main, flag, timer, watchers, owner, started, stranger>>

(* ------------------------------------------------------------------ the end *)
(* shutdown ends serve_forever, as Ctrl-C does; the socket is closed, and the
   process ends with its daemon threads, the language server's among them. *)
Shutdown ==
  /\ timer = "armed" /\ main = "serving" /\ main' = "closing"
  /\ UNCHANGED <<owner, started, faults, stranger>> /\ UNCHANGED restartVars
Interrupt ==
  /\ Fault /\ main = "serving" /\ main' = "closing"
  /\ UNCHANGED <<owner, started, stranger>> /\ UNCHANGED restartVars
CloseHttp ==
  /\ main = "closing" /\ main' = "closed" /\ owner' = [owner EXCEPT !["http"] = "none"]
  /\ UNCHANGED <<started, faults, stranger>> /\ UNCHANGED restartVars
Released == [p \in Ports |-> IF owner[p] = "server" THEN "none" ELSE owner[p]]
Finish == main' = "zombie" /\ owner' = Released /\ UNCHANGED restartVars
Exit == main = "closed" /\ Finish /\ UNCHANGED <<started, faults, stranger>>
Kill == Fault /\ Alive /\ Finish /\ UNCHANGED <<started, stranger>>

(* Its parent takes note; until then the process id answers the watcher. *)
Reap ==
  /\ main = "zombie" /\ main' = "gone"
  /\ UNCHANGED <<owner, started, faults, stranger>> /\ UNCHANGED restartVars

(* --------------------------------------------------------------- the watcher *)
(* The new process starts with a flag and threads of its own; what the old
   one's clients were waiting for is lost. *)
Boot ==
  /\ started < MaxStarts /\ started' = started + 1 /\ main' = "probe"
  /\ flag' = FALSE /\ timer' = "none"
  /\ call' = [c \in Clients |-> IF call[c] = "idle" THEN "idle" ELSE "over"]
  /\ UNCHANGED <<owner, faults, stranger>>
Watch == main = "gone" /\ watchers > 0 /\ watchers' = watchers - 1 /\ Boot
(* The user starts the server by hand where none is running. *)
UserStarts == main \in {"gone", "refused"} /\ watchers = 0 /\ Boot /\ UNCHANGED watchers

(* Any other process may listen on a port that is free. *)
OtherListens(p) ==
  /\ Fault /\ owner[p] = "none" /\ owner' = [owner EXCEPT ![p] = "other"]
  /\ stranger' = TRUE /\ UNCHANGED <<main, started>> /\ UNCHANGED restartVars

Next ==
  \/ Probe \/ BindHttp \/ BindLsp \/ Shutdown \/ Interrupt \/ CloseHttp \/ Exit
  \/ Kill \/ Reap \/ Watch \/ UserStarts
  \/ \E p \in Ports : OtherListens(p)
  \/ \E c \in Clients : \/ Request(c) \/ Spawn(c) \/ SpawnFails(c)
                        \/ Arm(c) \/ ArmFails(c)

(* Threads and processes that can go on do; the parent waits for its child;
   nobody has to fail, to interrupt, or to start a server by hand. *)
Fairness ==
  /\ WF_vars(Probe) /\ WF_vars(BindHttp) /\ WF_vars(BindLsp)
  /\ WF_vars(Shutdown) /\ WF_vars(CloseHttp) /\ WF_vars(Exit) /\ WF_vars(Reap)
  /\ WF_vars(Watch)
  /\ \A c \in Clients : WF_vars(Spawn(c) \/ SpawnFails(c)) /\ WF_vars(Arm(c) \/ ArmFails(c))
Spec == Init /\ [][Next]_vars /\ Fairness

(* ------------------------------------------------------------- properties *)
(* However many clients ask, one process at most waits to succeed this one, and
   none does when no restart is pending: a server that is stopped stays so. *)
SingleSuccessor == watchers <= 1 /\ (main = "serving" /\ ~flag => watchers = 0)

(* A pending restart ends: with a new process, or with the flag given back so
   that the next request can try again, unless the shutdown thread could not be
   started or the process died before the watcher was there.  And a process
   that starts comes to serve, on the ports the old one has left, unless it is
   killed or another process has taken one. *)
RestartsEnd ==
  /\ \A n \in 1..MaxStarts - 1 :
       (flag /\ started = n) ~>
         \/ started > n \/ ~flag
         \/ ~Alive /\ watchers = 0
         \/ \E c \in Clients : call[c] = "stuck"
  /\ (main = "probe") ~> (main \in {"serving", "zombie"} \/ stranger)
==============================================================================

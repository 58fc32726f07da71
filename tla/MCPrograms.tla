------------------------------ MODULE MCPrograms ------------------------------
(* Two programs that share nothing, the download of a Hugging Face snapshot and
   the server that restarts itself. One of them runs, and the other is where it
   starts: a large file of three segments and a small one; three clients, two
   failures, three processes. *)
EXTENDS HfDownload

CONSTANTS Clients, MaxFaults, MaxStarts

VARIABLES program, main, flag, call, timer, watchers, owner, started, faults, stranger

R == INSTANCE ServerRestart

restartVars == <<main, flag, call, timer, watchers, owner, started, faults, stranger>>

MCInit == program \in {"hf", "restart"} /\ Init /\ R!Init
MCNext ==
  /\ UNCHANGED program
  /\ \/ program = "hf" /\ Next /\ UNCHANGED restartVars
     \/ program = "restart" /\ R!Next /\ UNCHANGED vars

(* Each program's own fairness, while it is the one that runs. *)
MCSpec ==
  /\ MCInit /\ [][MCNext]_<<program, vars, restartVars>>
  /\ program = "hf" => Fairness
  /\ program = "restart" => R!Fairness

(* The properties of ServerRestart; a server that does not run restarts nothing. *)
SingleSuccessor == R!SingleSuccessor
RestartsEnd == program = "restart" => R!RestartsEnd
===============================================================================

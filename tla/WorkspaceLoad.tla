--------------------------- MODULE WorkspaceLoad ---------------------------
(***************************************************************************)
(* How a workspace is read: the evaluator that runs .mlody files and the   *)
(* load() calls at their top (common/python/starlarkish/evaluator), and    *)
(* the loader that drives it in two phases (mlody/core/workspace_loader).  *)
(*                                                                         *)
(* A file counts as loaded before it has run, which ends the recursion of  *)
(* a diamond but also makes a file that raised look like one that ran: it  *)
(* is never run again and hands out whatever it had defined.  We call such *)
(* a file torn.  Files are values, a file's text is the list of the files  *)
(* it loads and the number of entities its body registers, and a body may  *)
(* raise after any of them.                                                *)
(***************************************************************************)
EXTENDS Naturals, FiniteSets, Sequences, SequencesExt

CONSTANTS
  Phase1,     \* the files of root discovery, in their order
  Swallowed,  \* those whose exceptions are dropped: types.mlody
  Phase2,     \* the files under the roots, in sorted order
  Skipped,    \* those on the workspace's skip list
  Extra,      \* the files given with --eval
  Guarded,    \* the files only a file of this set may load
  Size,       \* how many entities a file's body registers
  Graphs,     \* the load() lists a workspace may have: file -> sequence
  Broken      \* the sets of files whose body may raise

File == DOMAIN Size

ASSUME ConstantsOK ==
  /\ Phase1 \in Seq(File) /\ Phase2 \in Seq(File) /\ Extra \in Seq(File)
  /\ Size \in [File -> Nat]
  /\ Graphs \subseteq [File -> Seq(File)] /\ Broken \subseteq SUBSET File

VARIABLES
  loads,      \* file -> the files its load() calls name, in order
  broken,     \* the files whose body raises
  stack,      \* _eval_stack: [file, next], next the load() to run
  loaded,     \* loaded_files
  registry,   \* what ran, in order: [file, defs, whole]
  phase,      \* "one", "two", "extra", "ok", "lazy", "failed", "aborted"
  queue,      \* the files left to the phase
  errors,     \* load_errors: the phase-2 files that raised
  excused     \* history: on the stack when an exception was dropped

vars == <<loads, broken, stack, loaded, registry, phase, queue, errors, excused>>

Top == stack[Len(stack)]
OnStack == {stack[i].file : i \in DOMAIN stack}
Whole == {registry[i].file : i \in {j \in DOMAIN registry : registry[j].whole}}
Torn == loaded \ (Whole \cup OnStack)

\* What the top frame is about to load, if it has load() calls left.
Loading(f) == /\ stack # <<>>
              /\ Top.next <= Len(loads[Top.file])
              /\ f = loads[Top.file][Top.next]
AtBody == stack # <<>> /\ Top.next > Len(loads[Top.file])

Init ==
  /\ loads \in Graphs
  /\ broken \in Broken
  /\ stack = <<>> /\ loaded = {} /\ registry = <<>>
  /\ phase = "one" /\ queue = Phase1
  /\ errors = {} /\ excused = {}

Push(f) == /\ stack' = Append(stack, [file |-> f, next |-> 1])
           /\ loaded' = loaded \cup {f}

\* The caller of the frame below goes on to its next load().
Step(s) == IF s = <<>> THEN s ELSE [s EXCEPT ![Len(s)].next = @ + 1]

----------------------------------------------------------------------------
(* _execute_file and _load *)

LoadIsForbidden(f) == f \in Guarded /\ Top.file \notin Guarded
LoadIsCircularNever(f) == FALSE
LoadIsCircular(f) == f \in OnStack

\* A file that already ran, or began to, hands out the globals it has.
LoadCached ==
  \E f \in loaded :
    /\ Loading(f) /\ ~LoadIsForbidden(f) /\ ~LoadIsCircular(f)
    /\ stack' = Step(stack)
    /\ UNCHANGED <<loads, broken, loaded, registry, phase, queue, errors, excused>>

LoadRun ==
  \E f \in File \ loaded :
    /\ Loading(f) /\ ~LoadIsForbidden(f) /\ ~LoadIsCircular(f)
    /\ Push(f)
    /\ UNCHANGED <<loads, broken, registry, phase, queue, errors, excused>>

\* The body ran to its end: the frame is popped and load() copies the names.
BodyEnds ==
  /\ AtBody /\ Top.file \notin broken
  /\ registry' = Append(registry,
       [file |-> Top.file, defs |-> Size[Top.file], whole |-> TRUE])
  /\ stack' = Step(Front(stack))
  /\ phase' = IF phase = "lazy" /\ Len(stack) = 1 THEN "ok" ELSE phase
  /\ queue' = IF phase # "lazy" /\ Len(stack) = 1 THEN Tail(queue) ELSE queue
  /\ UNCHANGED <<loads, broken, loaded, errors, excused>>

\* An exception unwinds every frame; loaded_files keeps them all.  The driver
\* of the phase reports it, drops it, or gives up.
ReportNothing == UNCHANGED errors
Report == errors' = errors \cup {Head(queue)}

Unwind ==
  /\ stack' = <<>>
  /\ \/ /\ phase = "one" /\ Head(queue) \in Swallowed
        /\ queue' = Tail(queue) /\ excused' = excused \cup OnStack
        /\ UNCHANGED <<phase, errors>>
     \/ /\ phase = "two"
        /\ Report
        /\ queue' = Tail(queue)
        /\ UNCHANGED <<phase, excused>>
     \/ /\ phase = "lazy"
        /\ phase' = "ok" /\ excused' = excused \cup OnStack
        /\ UNCHANGED <<queue, errors>>
     \/ /\ phase = "extra" \/ (phase = "one" /\ Head(queue) \notin Swallowed)
        /\ phase' = "aborted"
        /\ UNCHANGED <<queue, errors, excused>>
  /\ UNCHANGED <<loads, broken, loaded>>

\* A load() raises: outside the guarded prefix, in a cycle, or because a torn
\* file lacks a name that it asks for.
LoadRaises ==
  /\ \E f \in File :
       /\ Loading(f)
       /\ LoadIsForbidden(f) \/ LoadIsCircular(f) \/ f \in Torn
  /\ Unwind /\ UNCHANGED registry

\* The body raises after it registered some of its entities.
BodyRaises ==
  /\ AtBody /\ Top.file \in broken
  /\ \E n \in 0..Size[Top.file] :
       registry' = Append(registry,
         [file |-> Top.file, defs |-> n, whole |-> FALSE])
  /\ Unwind

----------------------------------------------------------------------------
(* WorkspaceLoader *)

Driving == phase \in {"one", "two", "extra"} /\ stack = <<>>
IsSkipped(f) == phase = "two" /\ f \in Skipped

\* is_loaded(): a file that another one loaded is not run again.  An --eval
\* file whose name is that of a loaded file is silently not run either.
DriverSkips ==
  /\ Driving /\ queue # <<>>
  /\ Head(queue) \in loaded \/ IsSkipped(Head(queue))
  /\ queue' = Tail(queue)
  /\ UNCHANGED <<loads, broken, stack, loaded, registry, phase, errors, excused>>

DriverRuns ==
  /\ Driving /\ queue # <<>> /\ Head(queue) \notin loaded /\ ~IsSkipped(Head(queue))
  /\ Push(Head(queue))
  /\ UNCHANGED <<loads, broken, registry, phase, queue, errors, excused>>

NextPhase ==
  /\ Driving /\ queue = <<>>
  /\ \/ phase = "one" /\ phase' = "two" /\ queue' = Phase2
     \/ phase = "two" /\ errors = {} /\ phase' = "extra" /\ queue' = Extra
     \/ phase = "two" /\ errors # {} /\ phase' = "failed" /\ UNCHANGED queue
     \/ phase = "extra" /\ phase' = "ok" /\ UNCHANGED queue
  /\ UNCHANGED <<loads, broken, stack, loaded, registry, errors, excused>>

\* resolve_label_anchor on a loaded workspace: the file of a label that names
\* no registered entity is run now; if it raises, the request fails.
LazyLoad ==
  /\ phase = "ok" /\ stack = <<>>
  /\ \E f \in File \ loaded : Push(f)
  /\ phase' = "lazy"
  /\ UNCHANGED <<loads, broken, registry, queue, errors, excused>>

Next == \/ LoadCached \/ LoadRun \/ BodyEnds \/ LoadRaises \/ BodyRaises
        \/ DriverSkips \/ DriverRuns \/ NextPhase \/ LazyLoad

Spec == Init /\ [][Next]_vars

----------------------------------------------------------------------------
Frames == [file : File, next : Nat]
Entries == [file : File, defs : Nat, whole : BOOLEAN]

\* Every variable keeps its kind, and the stack is part of the loaded files.
TypeOK ==
  /\ loads \in [File -> Seq(File)] /\ broken \subseteq File
  /\ stack \in Seq(Frames) /\ loaded \subseteq File /\ OnStack \subseteq loaded
  /\ registry \in Seq(Entries) /\ queue \in Seq(File)
  /\ phase \in {"one", "two", "extra", "ok", "lazy", "failed", "aborted"}
  /\ errors \subseteq File /\ excused \subseteq File

(* A workspace that loaded holds no torn file, except those that were being *)
(* run when an exception was dropped: under types.mlody, or under a later   *)
(* request for a file outside the roots.  A failure reported once must not  *)
(* be lost because other files found the torn file already loaded.          *)
OkMeansWhole == phase = "ok" => Torn \subseteq excused

(* A file runs only after the files it loads: of two files that both ran to *)
(* their end, the one that is loaded ended first, whatever the order of the *)
(* driver, so the order in which entities are registered is a topological   *)
(* order of load(), and a cycle never gets through.                         *)
LoadsFinishFirst ==
  \A i \in DOMAIN registry : registry[i].whole =>
    \A f \in Range(loads[registry[i].file]) :
      \A j \in DOMAIN registry :
        registry[j].whole /\ registry[j].file = f => j < i
=============================================================================

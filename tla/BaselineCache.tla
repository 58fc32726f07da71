----------------------------- MODULE BaselineCache -----------------------------
(***************************************************************************)
(* The process-wide cache of baseline workspaces: the two dictionaries     *)
(* _BASELINE_WORKSPACE_CACHE and _BASELINE_WORKSPACE_IN_FLIGHT of          *)
(* mlody/resolver/resolver.py, the lock around them, and the threads of    *)
(* the HTTP server, the language server and the shell that call            *)
(* get_or_build / reload / evict.                                          *)
(*                                                                         *)
(* A thread takes the lock for one action at a time, so each "with LOCK:"  *)
(* block is one action and everything between two blocks interleaves.      *)
(* A baseline is represented by the version of the source tree its         *)
(* evaluation read.                                                        *)
(***************************************************************************)
EXTENDS Integers

CONSTANTS Threads,        \* threads of one process
          Keys,           \* WorkspaceRequest values
          CwdKeys,        \* those whose mode is "cwd"
          RootOf,         \* RootOf[k]: the request's monorepo_root
          Nobody,         \* no build in flight
          MaxEdits,       \* bound: edits of each source tree
          MaxCalls,       \* bound: calls made by each thread
          Interruptible   \* may a build end in a BaseException (Ctrl-C)?

ASSUME ConstantsOK ==
  /\ CwdKeys \subseteq Keys
  /\ Nobody \notin Threads
  /\ MaxEdits \in Nat
  /\ MaxCalls \in Nat
  /\ Interruptible \in BOOLEAN

VARIABLES disk,     \* disk[k]: version of the files the request loads
          cache,    \* cache[k]: version of the cached baseline, or NoBaseline
          inFlight, \* inFlight[k]: thread that owns the in-flight event
          pc,       \* where each thread is
          key,      \* the request each thread is serving
          built,    \* version read by the build of the thread
          answer,   \* what the thread's last call returned
          calls,    \* calls made so far (bounded by MaxCalls)
          asked,    \* history: disk[key] when a reload was called
          raced     \* history: a build was in flight when the reload evicted

vars == <<disk, cache, inFlight, pc, key, built, answer, calls, asked, raced>>

NoBaseline == -1
Failed == -2
NotReload == -1

(* Where a call can be: about to evict, about to take the lock at the top  *)
(* of the loop, waiting on an event, evaluating the workspace, holding the *)
(* result or the error of the evaluation but not yet the lock.             *)
Building == {"build", "publish", "abort"}
PCs == {"idle", "evict", "lookup", "wait"} \cup Building

Init ==
  /\ disk = [k \in Keys |-> 0]
  /\ cache = [k \in Keys |-> NoBaseline]
  /\ inFlight = [k \in Keys |-> Nobody]
  /\ pc = [t \in Threads |-> "idle"]
  /\ key \in [Threads -> Keys]
  /\ built = [t \in Threads |-> NoBaseline]
  /\ answer = [t \in Threads |-> NoBaseline]
  /\ calls = [t \in Threads |-> 0]
  /\ asked = [t \in Threads |-> NotReload]
  /\ raced = [t \in Threads |-> FALSE]

--------------------------------------------------------------------------------
(* The environment: someone saves a file of the tree.                      *)
Edit(k) ==
  /\ disk[k] < MaxEdits
  /\ disk' = [disk EXCEPT ![k] = @ + 1]
  /\ UNCHANGED <<cache, inFlight, pc, key, built, answer, calls, asked, raced>>

(* Entry of get_or_build_baseline_workspace.                               *)
CallGet(t, k) ==
  /\ pc[t] = "idle" /\ calls[t] < MaxCalls
  /\ calls' = [calls EXCEPT ![t] = @ + 1]
  /\ pc' = [pc EXCEPT ![t] = "lookup"]
  /\ key' = [key EXCEPT ![t] = k]
  /\ asked' = [asked EXCEPT ![t] = NotReload]
  /\ raced' = [raced EXCEPT ![t] = FALSE]
  /\ UNCHANGED <<disk, cache, inFlight, built, answer>>

(* Entry of reload_baseline_workspace: evict, then get_or_build.           *)
CallReload(t, k) ==
  /\ pc[t] = "idle" /\ calls[t] < MaxCalls
  /\ calls' = [calls EXCEPT ![t] = @ + 1]
  /\ pc' = [pc EXCEPT ![t] = "evict"]
  /\ key' = [key EXCEPT ![t] = k]
  /\ asked' = [asked EXCEPT ![t] = disk[k]]
  /\ raced' = [raced EXCEPT ![t] = FALSE]
  /\ UNCHANGED <<disk, cache, inFlight, built, answer>>

(* Mutant of ReloadEvict: the entry is left in the cache.                  *)
ReloadEvictKeeps(t) ==
  /\ pc[t] = "evict"
  /\ raced' = [raced EXCEPT ![t] = inFlight[key[t]] # Nobody]
  /\ pc' = [pc EXCEPT ![t] = "lookup"]
  /\ UNCHANGED <<disk, cache, inFlight, key, built, answer, calls, asked>>

(* The eviction inside a reload.  Only the cache entry goes; a build that  *)
(* is in flight for the same key is left running.                          *)
ReloadEvict(t) ==
  /\ pc[t] = "evict"
  /\ cache' = [cache EXCEPT ![key[t]] = NoBaseline]
  /\ raced' = [raced EXCEPT ![t] = inFlight[key[t]] # Nobody]
  /\ pc' = [pc EXCEPT ![t] = "lookup"]
  /\ UNCHANGED <<disk, inFlight, key, built, answer, calls, asked>>

(* Mutant of EvictOne: the in-flight entry is popped together with it.     *)
EvictOneAndFlight(k) ==
  /\ cache' = [cache EXCEPT ![k] = NoBaseline]
  /\ inFlight' = [inFlight EXCEPT ![k] = Nobody]
  /\ UNCHANGED <<disk, pc, key, built, answer, calls, asked, raced>>

(* evict_baseline_workspace called on its own.                             *)
EvictOne(k) ==
  /\ cache[k] # NoBaseline
  /\ cache' = [cache EXCEPT ![k] = NoBaseline]
  /\ UNCHANGED <<disk, inFlight, pc, key, built, answer, calls, asked, raced>>

(* evict_cwd_baseline_workspaces, for one monorepo root or for all.        *)
CwdVictims(roots) == {k \in CwdKeys : cache[k] # NoBaseline /\ RootOf[k] \in roots}

AllRoots == {RootOf[k] : k \in Keys}
RootChoices == {{r} : r \in AllRoots} \cup {AllRoots}

EvictCwd(roots) ==
  /\ CwdVictims(roots) # {}
  /\ cache' = [k \in Keys |-> IF k \in CwdVictims(roots) THEN NoBaseline ELSE cache[k]]
  /\ UNCHANGED <<disk, inFlight, pc, key, built, answer, calls, asked, raced>>

--------------------------------------------------------------------------------
(* The locked block at the top of the loop: hit, wait, or become the builder. *)
LookupHit(t) ==
  /\ pc[t] = "lookup" /\ cache[key[t]] # NoBaseline
  /\ answer' = [answer EXCEPT ![t] = cache[key[t]]]
  /\ pc' = [pc EXCEPT ![t] = "idle"]
  /\ UNCHANGED <<disk, cache, inFlight, key, built, calls, asked, raced>>

LookupWait(t) ==
  /\ pc[t] = "lookup" /\ cache[key[t]] = NoBaseline
  /\ inFlight[key[t]] # Nobody
  /\ pc' = [pc EXCEPT ![t] = "wait"]
  /\ UNCHANGED <<disk, cache, inFlight, key, built, answer, calls, asked, raced>>

LookupBuild(t) ==
  /\ pc[t] = "lookup" /\ cache[key[t]] = NoBaseline
  /\ inFlight[key[t]] = Nobody
  /\ inFlight' = [inFlight EXCEPT ![key[t]] = t]
  /\ pc' = [pc EXCEPT ![t] = "build"]
  /\ UNCHANGED <<disk, cache, key, built, answer, calls, asked, raced>>

(* _load_baseline_workspace succeeds: it saw the tree as it is now.        *)
BuildReads(t) ==
  /\ pc[t] = "build"
  /\ built' = [built EXCEPT ![t] = disk[key[t]]]
  /\ pc' = [pc EXCEPT ![t] = "publish"]
  /\ UNCHANGED <<disk, cache, inFlight, key, answer, calls, asked, raced>>

(* It raises an Exception.                                                 *)
BuildRaises(t) ==
  /\ pc[t] = "build"
  /\ pc' = [pc EXCEPT ![t] = "abort"]
  /\ UNCHANGED <<disk, cache, inFlight, key, built, answer, calls, asked, raced>>

(* Event.set(): every thread waiting for key k goes back to the loop.      *)
Wake(k, next) ==
  [u \in Threads |-> IF next[u] = "wait" /\ key[u] = k THEN "lookup" ELSE next[u]]

(* Mutant of Publish: the event is popped but not set.                     *)
PublishSilently(t) ==
  /\ pc[t] = "publish"
  /\ cache' = [cache EXCEPT ![key[t]] = built[t]]
  /\ inFlight' = [inFlight EXCEPT ![key[t]] = Nobody]
  /\ pc' = [pc EXCEPT ![t] = "idle"]
  /\ answer' = [answer EXCEPT ![t] = built[t]]
  /\ UNCHANGED <<disk, key, built, calls, asked, raced>>

(* The locked block after a successful build.                              *)
Publish(t) ==
  /\ pc[t] = "publish"
  /\ cache' = [cache EXCEPT ![key[t]] = built[t]]
  /\ inFlight' = [inFlight EXCEPT ![key[t]] = Nobody]
  /\ pc' = Wake(key[t], [pc EXCEPT ![t] = "idle"])
  /\ answer' = [answer EXCEPT ![t] = built[t]]
  /\ UNCHANGED <<disk, key, built, calls, asked, raced>>

(* The locked block of the except clause, then the re-raise.               *)
Abort(t) ==
  /\ pc[t] = "abort"
  /\ inFlight' = [inFlight EXCEPT ![key[t]] = Nobody]
  /\ pc' = Wake(key[t], [pc EXCEPT ![t] = "idle"])
  /\ answer' = [answer EXCEPT ![t] = Failed]
  /\ UNCHANGED <<disk, cache, key, built, calls, asked, raced>>

(* A KeyboardInterrupt leaves the build: "except Exception" does not catch *)
(* it, so the event stays registered and is never set.                     *)
Interrupt(t) ==
  /\ Interruptible
  /\ pc[t] = "build"
  /\ pc' = [pc EXCEPT ![t] = "idle"]
  /\ answer' = [answer EXCEPT ![t] = Failed]
  /\ UNCHANGED <<disk, cache, inFlight, key, built, calls, asked, raced>>

--------------------------------------------------------------------------------
Step(t) == \/ ReloadEvict(t) \/ LookupHit(t) \/ LookupWait(t) \/ LookupBuild(t)
           \/ BuildReads(t) \/ BuildRaises(t) \/ Publish(t) \/ Abort(t)

Next == \/ \E t \in Threads : Step(t) \/ Interrupt(t)
        \/ \E t \in Threads, k \in Keys : CallGet(t, k) \/ CallReload(t, k)
        \/ \E k \in Keys : Edit(k) \/ EvictOne(k)
        \/ \E roots \in RootChoices : EvictCwd(roots)

Spec == Init /\ [][Next]_vars

(* The operating system schedules every thread: a thread that can go on    *)
(* does.  Callers, editors and Ctrl-C are under no obligation.             *)
FairSpec == Spec /\ \A t \in Threads : WF_vars(Step(t))

--------------------------------------------------------------------------------
TypeOK ==
  /\ disk \in [Keys -> Nat]
  /\ cache \in [Keys -> Nat \cup {NoBaseline}]
  /\ inFlight \in [Keys -> Threads \cup {Nobody}]
  /\ pc \in [Threads -> PCs]
  /\ key \in [Threads -> Keys]
  /\ built \in [Threads -> Nat \cup {NoBaseline}]
  /\ answer \in [Threads -> Nat \cup {NoBaseline, Failed}]
  /\ calls \in [Threads -> Nat]
  /\ asked \in [Threads -> Nat \cup {NotReload}]
  /\ raced \in [Threads -> BOOLEAN]

(* Two threads never evaluate the same workspace at once: evaluation is    *)
(* what the in-flight table exists to serialise.                           *)
SingleBuilder ==
  \A t, u \in Threads :
    pc[t] \in Building /\ pc[u] \in Building /\ key[t] = key[u] => t = u

(* The event of key k is registered but its owner has left the build: only *)
(* a KeyboardInterrupt does that.                                          *)
Abandoned(k) ==
  \E u \in Threads : inFlight[k] = u /\ ~(pc[u] \in Building /\ key[u] = k)

(* A thread parked on an event has somebody left to set it: the owner of   *)
(* the event is still inside the build of that same key.  A finished build *)
(* leaves no waiter behind; only an interrupted one does.                  *)
NoOrphanWaiter ==
  \A t \in Threads : pc[t] = "wait" =>
    /\ inFlight[key[t]] # Nobody
    /\ Abandoned(key[t]) => Interruptible

(* A caller never sees a workspace older than one that was already visible *)
(* for the same request: whatever interleaving of evictions, failures and  *)
(* rebuilds, what is published for a key only moves forward.               *)
NoTimeTravel ==
  [][\A k \in Keys, t \in Threads :
       /\ pc[t] = "idle" /\ key[t] = k /\ answer[t] >= 0
       /\ cache'[k] # cache[k] /\ cache'[k] # NoBaseline
       => cache'[k] >= answer[t]]_vars

(* reload_baseline_workspace promises to "force a rebuild".  The part of   *)
(* that the code keeps: a reload that found no build in flight when it     *)
(* evicted returns a workspace at least as new as the tree it was called   *)
(* on, whoever ends up building it.  One that joins a build in flight may  *)
(* return an older one.                                                    *)
UnracedReloadIsFresh ==
  \A t \in Threads :
    pc[t] = "idle" /\ asked[t] # NotReload /\ answer[t] # Failed /\ ~raced[t]
      => answer[t] >= asked[t]

(* Every call comes back, with a workspace or an error, unless a build of  *)
(* its key was interrupted: the event of that build is never set.          *)
CallsReturnUnlessAbandoned ==
  \A t \in Threads : pc[t] # "idle" ~> pc[t] = "idle" \/ Abandoned(key[t])

(* The in-flight protocol implements a single-flight cache.                *)
Flight == INSTANCE SingleFlight WITH slot <- cache, claim <- inFlight
SingleFlightSpec == Flight!Spec
================================================================================

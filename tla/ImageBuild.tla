------------------------------ MODULE ImageBuild ------------------------------
(* The image builder (common/image_builder): a build of one commit clones it
   into a cache directory named by the commit, applies the changes of the
   caller's working directory when its dirty policy says so, builds an image in
   the clone and pushes it under one tag per target.  The tag names the commit,
   or the commit and the changes.  A lock file guards the cloning and nothing
   else; a clone is taken for complete once it has a .git/HEAD.

   One commit, so one directory, one lock and one image layout.  A change of the
   working directory is a model value; git, bazel and crane may fail. *)
EXTENDS Naturals, FiniteSets

CONSTANTS Procs, Targets,
          Diffs,       \* what the working directory can differ by from the commit
          None,
          MaxBuilds,   \* bound: builds begun
          MaxEdits,    \* bound: changes of the working directory
          MaxMishaps   \* bound: kills and interrupts

ASSUME BuildConstants == None \notin Procs \cup Diffs

Policies == {"ignore", "error", "apply"}

VARIABLES
  clone,    \* the clone: its tree, the changes in it, BUILD.bazel's key, the image layout
  lock,     \* the process the lock file is of, or None
  cwd,      \* the change in the working directory, or None
  registry, \* the image each tag names: a tag is a target and a key
  build,    \* what each process is doing
  builds, edits, mishaps,
  alone,    \* ghost: no two builds have overlapped
  whole     \* ghost: no build has been killed or interrupted
vars == <<clone, lock, cwd, registry, build, builds, edits, mishaps, alone, whole>>
env == <<cwd, builds, edits, mishaps, alone, whole>>

Absent == [tree |-> "absent", has |-> {}, dyn |-> None, layout |-> None]
Keys == Diffs \union {None}
Idle == [pc |-> "idle"]

Init ==
  /\ clone = Absent /\ lock = None /\ cwd = None
  /\ registry = [tk \in Targets \X Keys |-> None]
  /\ build = [p \in Procs |-> Idle]
  /\ builds = 0 /\ edits = 0 /\ mishaps = 0 /\ alone = TRUE /\ whole = TRUE

At(p, pc) == build[p].pc = pc
Goto(p, pc) == build' = [build EXCEPT ![p].pc = pc]
End(p) == build' = [build EXCEPT ![p] = Idle]

(* _check_cache: there is a .git/HEAD. *)
Cached == clone.tree # "absent"

(* The changes are read before any decision about the clone is taken. *)
Begin(p, policy) ==
  /\ At(p, "idle") /\ builds < MaxBuilds /\ builds' = builds + 1
  /\ ~ (policy = "error" /\ cwd # None)
  /\ alone' = (alone /\ \A q \in Procs : At(q, "idle"))
  /\ build' = [build EXCEPT ![p] =
       [pc |-> IF policy = "apply" /\ cwd # None THEN "invalidate" ELSE "check",
        key |-> IF policy = "apply" THEN cwd ELSE None,
        from |-> "remote", steady |-> TRUE]]
  /\ UNCHANGED <<clone, lock, cwd, registry, edits, mishaps, whole>>

(* A clone is removed before changes are applied, outside the lock. *)
InvalidateNothing(p) == At(p, "invalidate") /\ Goto(p, "check") /\ UNCHANGED <<clone, lock, registry, env>>
Invalidate(p) ==
  /\ At(p, "invalidate") /\ Goto(p, "check") /\ clone' = IF Cached THEN Absent ELSE clone
  /\ UNCHANGED <<lock, registry, env>>

Prepare(p) == Goto(p, IF build[p].key = None THEN "clean" ELSE "apply")
Check(p) ==
  /\ At(p, "check") /\ IF Cached THEN Prepare(p) ELSE Goto(p, "lock")
  /\ UNCHANGED <<clone, lock, registry, env>>
Acquire(p) == At(p, "lock") /\ lock = None /\ lock' = p /\ Goto(p, "recheck") /\ UNCHANGED <<clone, registry, env>>
Contended(p) == At(p, "lock") /\ lock # None /\ End(p) /\ UNCHANGED <<clone, lock, registry, env>>

Recheck(p) ==
  /\ At(p, "recheck")
  /\ IF Cached THEN Prepare(p) /\ lock' = None ELSE Goto(p, "clone") /\ UNCHANGED lock
  /\ UNCHANGED <<clone, registry, env>>

(* git clone --no-checkout, then fetch and checkout. *)
CloneHead(p) ==
  /\ At(p, "clone") /\ Goto(p, "checkout") /\ clone' = [Absent EXCEPT !.tree = "half"]
  /\ UNCHANGED <<lock, registry, env>>
Checkout(p) ==
  /\ At(p, "checkout") /\ Cached /\ Prepare(p)
  /\ clone' = [clone EXCEPT !.tree = "full"] /\ lock' = None
  /\ UNCHANGED <<registry, env>>

(* A failing git command: the working directory is tried after the remote.  A
   directory that is gone is another error, which nothing here catches. *)
GitFails(p) ==
  /\ (At(p, "clone") \/ At(p, "checkout")) /\ clone' = Absent
  /\ IF build[p].from = "remote"
     THEN /\ build' = [build EXCEPT ![p] = [pc |-> "clone", key |-> @.key, from |-> "local",
                                            steady |-> @.steady]]
          /\ UNCHANGED lock
     ELSE End(p) /\ lock' = None
  /\ UNCHANGED <<registry, env>>
CloneGone(p) == At(p, "checkout") /\ ~Cached /\ End(p) /\ lock' = None /\ UNCHANGED <<clone, registry, env>>

(* git apply with the diff that was read; then the untracked files are copied as
   they are now.  git refuses changes that are in the tree already. *)
Apply(p) ==
  /\ At(p, "apply") /\ Cached /\ build[p].key \notin clone.has /\ Goto(p, "clean")
  /\ \E now \in {{}, {cwd} \ {None}} : clone' = [clone EXCEPT !.has = @ \union {build[p].key} \union now]
  /\ UNCHANGED <<lock, registry, env>>
(* bazel clean takes the last image with it. *)
Clean(p) ==
  /\ At(p, "clean") /\ Cached /\ Goto(p, "write") /\ clone' = [clone EXCEPT !.layout = None]
  /\ UNCHANGED <<lock, registry, env>>
WriteBuildFile(p) ==
  /\ At(p, "write") /\ Cached /\ Goto(p, "build") /\ clone' = [clone EXCEPT !.dyn = build[p].key]
  /\ UNCHANGED <<lock, registry, env>>
BazelBuild(p) ==
  /\ At(p, "build") /\ Cached /\ Goto(p, "layout")
  /\ clone' = [clone EXCEPT !.layout = [tree |-> clone.tree, has |-> clone.has, label |-> clone.dyn]]
  /\ UNCHANGED <<lock, registry, env>>
(* The layout is copied, the copy is pushed tag by tag. *)
Materialize(p) ==
  /\ At(p, "layout") /\ clone.layout # None
  /\ build' = [build EXCEPT ![p] = [pc |-> "push", key |-> @.key, steady |-> @.steady,
                                    image |-> clone.layout, todo |-> Targets]]
  /\ UNCHANGED <<clone, lock, registry, env>>
Push(p, t) == LET b == build[p] IN
  /\ At(p, "push") /\ t \in b.todo
  /\ registry' = [registry EXCEPT ![<<t, b.key>>] =
       [tree |-> b.image.tree, has |-> b.image.has, label |-> b.image.label,
        steady |-> b.steady /\ alone]]
  /\ IF b.todo = {t} THEN End(p) ELSE build' = [build EXCEPT ![p].todo = @ \ {t}]
  /\ UNCHANGED <<clone, lock, env>>

(* A step after the cloning that fails, or finds its directory gone: nothing is
   undone. *)
StepFails(p) ==
  /\ build[p].pc \in {"apply", "clean", "write", "build", "layout", "push"} /\ End(p)
  /\ UNCHANGED <<clone, lock, registry, env>>

(* ------------------------------------------------------------ environment *)
Edit(d) ==
  /\ edits < MaxEdits /\ edits' = edits + 1 /\ d # cwd /\ cwd' = d
  /\ build' = [p \in Procs |-> IF At(p, "idle") THEN Idle ELSE [build[p] EXCEPT !.steady = FALSE]]
  /\ UNCHANGED <<clone, lock, registry, builds, mishaps, alone, whole>>

(* A killed build leaves its lock; one interrupted from the keyboard does not. *)
Stop(p) ==
  /\ mishaps < MaxMishaps /\ mishaps' = mishaps + 1 /\ ~At(p, "idle") /\ End(p) /\ whole' = FALSE
  /\ UNCHANGED <<clone, cwd, registry, builds, edits, alone>>
Kill(p) == Stop(p) /\ UNCHANGED lock
Interrupt(p) == Stop(p) /\ lock' = IF lock = p THEN None ELSE lock

Next ==
  \/ \E d \in Keys : Edit(d)
  \/ \E p \in Procs :
       \/ \E policy \in Policies : Begin(p, policy)
       \/ Invalidate(p) \/ Check(p) \/ Acquire(p) \/ Contended(p) \/ Recheck(p)
       \/ CloneHead(p) \/ Checkout(p) \/ GitFails(p) \/ CloneGone(p)
       \/ Apply(p) \/ Clean(p) \/ WriteBuildFile(p) \/ BazelBuild(p) \/ Materialize(p)
       \/ \E t \in Targets : Push(p, t)
       \/ StepFails(p) \/ Kill(p) \/ Interrupt(p)
Spec == Init /\ [][Next]_vars

(* ------------------------------------------------------------- properties *)
(* Builds that do not overlap, whatever failed, was killed or interrupted before
   them: an image whose tag names changes has a whole tree with exactly these
   changes, and says so in its labels, unless the working directory was edited
   while it was built. And as long as no build was killed or interrupted, however
   builds overlap: a clone nobody holds the lock for, and that a later build
   would take, has been checked out. *)
DirtyTagIsExact ==
  /\ \A t \in Targets, d \in Diffs : LET i == registry[<<t, d>>] IN
       i # None => (i.steady => i.tree = "full" /\ i.has = {d} /\ i.label = d)
  /\ whole /\ lock = None => clone.tree # "half"

(* README.md:5 of the image builder: it "always builds from a known, immutable
   source tree"; an image tagged with the bare commit would be of the commit,
   even when no build overlapped, failed or was killed. *)
KnownSourceTree ==
  \A t \in Targets : registry[<<t, None>>] # None =>
    (registry[<<t, None>>].steady /\ whole => registry[<<t, None>>].has = {})
==============================================================================

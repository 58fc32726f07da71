----------------------------- MODULE WorkspaceProofs -----------------------------
(***************************************************************************)
(* Theorems about the loading of a workspace and the requests made of it.  *)
(* WorkspaceLoad, for any workspace: any files, any load() lists, any set  *)
(* of bodies that raise and any lists of the loader.                       *)
(***************************************************************************)
EXTENDS WorkspaceLoad, Requests, SequenceTheorems, FiniteSetTheorems, WellFoundedInduction, TLAPS

(* A file is run for the head of the phase's queue, or for a later request. *)
RunsForDriver ==
  stack # <<>> => phase = "lazy" \/ (phase \in {"one", "two", "extra"} /\ queue # <<>>)

(* Loaded, and not being run: its body ended, or raised.                   *)
Settled == loaded \ OnStack

StackDistinct ==
  \A j, k \in 1 .. Len(stack) : stack[j].file = stack[k].file => j = k

(* Below the top, the load() a frame is at is the file of the frame above. *)
StackFollowsLoads ==
  \A k \in 1 .. Len(stack) :
    /\ stack[k].next >= 1
    /\ k < Len(stack) => /\ stack[k].next <= Len(loads[stack[k].file])
                         /\ loads[stack[k].file][stack[k].next] = stack[k + 1].file

(* The load() calls a frame has behind it are over.                        *)
LoadsSettled ==
  \A k \in 1 .. Len(stack) : \A j \in 1 .. Len(loads[stack[k].file]) :
    j < stack[k].next => loads[stack[k].file][j] \in Settled

(* So are those of a file that ran to its end.                             *)
RanSettled ==
  \A i \in 1 .. Len(registry) : registry[i].whole =>
    \A j \in 1 .. Len(loads[registry[i].file]) : loads[registry[i].file][j] \in Settled

RanInOrder ==
  \A i, j \in 1 .. Len(registry) :
    registry[i].whole /\ registry[j].whole /\
    (\E n \in 1 .. Len(loads[registry[i].file]) :
       loads[registry[i].file][n] = registry[j].file) => j < i

OrderInv == StackDistinct /\ StackFollowsLoads /\ LoadsSettled /\ RanSettled /\ RanInOrder

--------------------------------------------------------------------------------
(* The operators on the stack.                                             *)
LEMMA EndOfStack ==
  ASSUME NEW s \in Seq(Frames), s # <<>>
  PROVE  Len(s) \in Nat /\ Len(s) >= 1 /\ Len(s) \in 1 .. Len(s) /\ s[Len(s)] \in Frames
  BY EmptySeq, ElementOfSeq, LenProperties

LEMMA StepAdvances ==
  ASSUME NEW s \in Seq(Frames)
  PROVE  /\ Step(s) \in Seq(Frames) /\ Len(Step(s)) = Len(s)
         /\ \A k \in 1 .. Len(s) :
              /\ Step(s)[k].file = s[k].file
              /\ Step(s)[k].next = IF k = Len(s) THEN s[k].next + 1 ELSE s[k].next
<1>1. CASE s = <<>>
  BY <1>1, EmptySeq DEF Step
<1>2. CASE s # <<>>
  <2> DEFINE top == [s[Len(s)] EXCEPT !.next = @ + 1]
  <2>1. Len(s) \in 1 .. Len(s) /\ s[Len(s)] \in Frames
    BY <1>2, EndOfStack
  <2>2. top \in Frames /\ top.file = s[Len(s)].file /\ top.next = s[Len(s)].next + 1
    BY <2>1 DEF Frames
  <2>3. Step(s) = [s EXCEPT ![Len(s)] = top]
    BY <1>2 DEF Step
  <2> HIDE DEF top
  <2>4. /\ Step(s) \in Seq(Frames) /\ Len(Step(s)) = Len(s)
        /\ \A k \in 1 .. Len(s) : Step(s)[k] = IF k = Len(s) THEN top ELSE s[k]
    BY <2>1, <2>2, <2>3, ExceptSeq
  <2> QED BY <2>2, <2>4
<1> QED BY <1>1, <1>2

LEMMA FrontKeeps ==
  ASSUME NEW s \in Seq(Frames), s # <<>>
  PROVE  /\ Front(s) \in Seq(Frames) /\ Len(Front(s)) = Len(s) - 1
         /\ \A k \in 1 .. Len(s) - 1 : Front(s)[k] = s[k]
<1> DEFINE n == Len(s) - 1
           t == SubSeq(s, 1, n)
<1>1. Len(s) \in Nat /\ n \in Nat /\ n \in Int /\ 1 \in Int
  BY EndOfStack
<1>2. \A k \in 1 .. n : s[k] \in Frames
  BY <1>1, ElementOfSeq
<1> HIDE DEF n
<1>3. /\ t \in Seq(Frames) /\ Len(t) = IF 1 <= n THEN n - 1 + 1 ELSE 0
      /\ \A k \in 1 .. n - 1 + 1 : t[k] = s[1 + k - 1]
  BY <1>1, <1>2, SubSeqProperties
<1> HIDE DEF t
<1>4. (IF 1 <= n THEN n - 1 + 1 ELSE 0) = n
  BY <1>1
<1>5. \A k \in 1 .. n : t[k] = s[k]
  <2> TAKE k \in 1 .. n
  <2>1. 1 + k - 1 = k /\ k \in 1 .. n - 1 + 1
    BY <1>1
  <2>2. t[k] = s[1 + k - 1]
    BY <1>3, <2>1
  <2> QED BY <2>1, <2>2
<1> QED BY <1>3, <1>4, <1>5 DEF Front, t, n

(* What a frame that is popped leaves: its caller, one load() further.     *)
LEMMA PopReturns ==
  ASSUME NEW s \in Seq(Frames), s # <<>>
  PROVE  LET t == Step(Front(s)) IN
         /\ t \in Seq(Frames) /\ Len(t) = Len(s) - 1
         /\ \A k \in 1 .. Len(s) - 1 :
              /\ t[k].file = s[k].file
              /\ t[k].next = IF k = Len(s) - 1 THEN s[k].next + 1 ELSE s[k].next
<1> DEFINE f == Front(s)
<1>1. Len(s) \in Nat /\ Len(s) >= 1
  BY EndOfStack
<1>2. f \in Seq(Frames) /\ Len(f) = Len(s) - 1 /\ \A k \in 1 .. Len(s) - 1 : f[k] = s[k]
  BY FrontKeeps
<1> HIDE DEF f
<1>3. /\ Step(f) \in Seq(Frames) /\ Len(Step(f)) = Len(f)
      /\ \A k \in 1 .. Len(f) :
           /\ Step(f)[k].file = f[k].file
           /\ Step(f)[k].next = IF k = Len(f) THEN f[k].next + 1 ELSE f[k].next
  BY <1>2, StepAdvances
<1>4. Step(f) \in Seq(Frames) /\ Len(Step(f)) = Len(s) - 1
  BY <1>2, <1>3
<1>5. \A k \in 1 .. Len(s) - 1 :
        /\ Step(f)[k].file = s[k].file
        /\ Step(f)[k].next = IF k = Len(s) - 1 THEN s[k].next + 1 ELSE s[k].next
  BY <1>2, <1>3
<1> QED BY <1>4, <1>5 DEF f

LEMMA PushAdds ==
  ASSUME NEW s \in Seq(Frames), NEW f \in File
  PROVE  LET t == Append(s, [file |-> f, next |-> 1]) IN
         /\ t \in Seq(Frames) /\ Len(t) = Len(s) + 1
         /\ t[Len(s) + 1].file = f /\ t[Len(s) + 1].next = 1
         /\ \A k \in 1 .. Len(s) : t[k] = s[k]
<1>1. [file |-> f, next |-> 1] \in Frames
  BY DEF Frames
<1> QED BY <1>1, AppendProperties

LEMMA EntryAdded ==
  ASSUME NEW s \in Seq(Entries), NEW e \in Entries
  PROVE  /\ Append(s, e) \in Seq(Entries) /\ Len(Append(s, e)) = Len(s) + 1
         /\ Append(s, e)[Len(s) + 1] = e
         /\ \A k \in 1 .. Len(s) : Append(s, e)[k] = s[k]
  BY AppendProperties

(* The frames of a sequence of frames are those at its positions.          *)
LEMMA OnStackIs ==
  ASSUME stack \in Seq(Frames)
  PROVE  /\ OnStack = {stack[i].file : i \in 1 .. Len(stack)} /\ Len(stack) \in Nat
         /\ \A i \in 1 .. Len(stack) : stack[i] \in Frames
  BY LenProperties, ElementOfSeq DEF OnStack

LEMMA TailKeeps ==
  ASSUME NEW s \in Seq(File), s # <<>>
  PROVE  Head(s) \in File /\ Tail(s) \in Seq(File)
  BY HeadTailProperties

--------------------------------------------------------------------------------
(* What the steps do to the stack, the files and the queue.                *)

(* What can be said of the frame at the top.                               *)
LEMMA TopOfStack ==
  ASSUME TypeOK, stack # <<>>
  PROVE  /\ Len(stack) \in Nat /\ Len(stack) >= 1 /\ Top = stack[Len(stack)]
         /\ Top.file \in File /\ Top.next \in Nat /\ Top.file \in OnStack
         /\ Size[Top.file] \in Nat /\ loads[Top.file] \in Seq(File)
<1>1. Len(stack) \in 1 .. Len(stack) /\ Top \in Frames /\ Len(stack) \in Nat
  BY EndOfStack DEF TypeOK, Top
<1>2. Top.file \in OnStack
  BY <1>1, OnStackIs DEF TypeOK, Top
<1> QED BY <1>1, <1>2, ConstantsOK DEF TypeOK, Frames, Top

LEMMA InitTypes == Init => TypeOK /\ RunsForDriver
<1> SUFFICES ASSUME Init PROVE TypeOK /\ RunsForDriver
  OBVIOUS
<1>1. OnStack = {}
  BY DEF Init, OnStack
<1> QED BY <1>1, ConstantsOK DEF Init, TypeOK, RunsForDriver

LEMMA PushTypes ==
  ASSUME TypeOK, NEW f \in File, Push(f)
  PROVE  /\ stack' \in Seq(Frames) /\ loaded' \subseteq File /\ OnStack' = OnStack \cup {f}
         /\ OnStack' \subseteq loaded'
<1>1. /\ stack' \in Seq(Frames) /\ Len(stack') = Len(stack) + 1
      /\ stack'[Len(stack) + 1].file = f
      /\ \A k \in 1 .. Len(stack) : stack'[k] = stack[k]
  BY PushAdds DEF TypeOK, Push
<1>2. /\ OnStack = {stack[i].file : i \in 1 .. Len(stack)} /\ Len(stack) \in Nat
      /\ OnStack' = {stack'[i].file : i \in 1 .. Len(stack')}
  BY <1>1, OnStackIs, LenProperties DEF TypeOK, OnStack
<1>3. OnStack' = OnStack \cup {f}
  BY <1>1, <1>2
<1> QED BY <1>1, <1>3 DEF TypeOK, Push

LEMMA StepTypes ==
  ASSUME TypeOK, stack' = Step(stack)
  PROVE  stack' \in Seq(Frames) /\ OnStack' = OnStack
<1>1. /\ stack' \in Seq(Frames) /\ Len(stack') = Len(stack)
      /\ \A k \in 1 .. Len(stack) : stack'[k].file = stack[k].file
  BY StepAdvances DEF TypeOK
<1>2. /\ OnStack = {stack[i].file : i \in 1 .. Len(stack)}
      /\ OnStack' = {stack'[i].file : i \in 1 .. Len(stack')}
  BY <1>1, OnStackIs, LenProperties DEF TypeOK, OnStack
<1> QED BY <1>1, <1>2

LEMMA PopTypes ==
  ASSUME TypeOK, stack # <<>>, stack' = Step(Front(stack))
  PROVE  /\ stack' \in Seq(Frames) /\ Len(stack') = Len(stack) - 1
         /\ OnStack = OnStack' \cup {Top.file}
<1>1. /\ stack' \in Seq(Frames) /\ Len(stack') = Len(stack) - 1
      /\ \A k \in 1 .. Len(stack) - 1 : stack'[k].file = stack[k].file
  BY PopReturns DEF TypeOK
<1>2. /\ OnStack = {stack[i].file : i \in 1 .. Len(stack)}
      /\ OnStack' = {stack'[i].file : i \in 1 .. Len(stack')}
  BY <1>1, OnStackIs, LenProperties DEF TypeOK, OnStack
<1>3. Len(stack) \in Nat /\ Len(stack) >= 1 /\ Top = stack[Len(stack)]
  BY TopOfStack
<1> QED BY <1>1, <1>2, <1>3

LEMMA UnwindTypes ==
  ASSUME TypeOK, RunsForDriver, stack # <<>>, Unwind
  PROVE  /\ stack' = <<>> /\ OnStack' = {} /\ loaded' = loaded /\ loads' = loads
         /\ broken' = broken /\ queue' \in Seq(File) /\ errors' \subseteq File
         /\ phase' \in {"one", "two", "extra", "ok", "lazy", "failed", "aborted"}
         /\ excused' \subseteq File
<1>1. OnStack' = {}
  BY DEF Unwind, OnStack
<1>2. CASE phase = "lazy"
  BY <1>1, <1>2 DEF Unwind, TypeOK
<1>3. CASE phase # "lazy"
  <2>1. Head(queue) \in File /\ Tail(queue) \in Seq(File)
    BY <1>3, TailKeeps DEF TypeOK, RunsForDriver
  <2> QED BY <1>1, <1>3, <2>1 DEF Unwind, TypeOK, Report
<1> QED BY <1>2, <1>3

LEMMA NextTypes ==
  ASSUME TypeOK, RunsForDriver, [Next]_vars
  PROVE  TypeOK' /\ RunsForDriver'
<1>1. CASE LoadCached
  <2>1. stack # <<>> /\ stack' = Step(stack)
    BY <1>1 DEF LoadCached, Loading
  <2>2. stack' \in Seq(Frames) /\ OnStack' = OnStack
    BY <2>1, StepTypes
  <2> QED BY <1>1, <2>1, <2>2 DEF LoadCached, TypeOK, RunsForDriver
<1>2. CASE LoadRun
  <2>1. PICK f \in File : Loading(f) /\ Push(f)
    BY <1>2 DEF LoadRun
  <2>2. stack' \in Seq(Frames) /\ loaded' \subseteq File /\ OnStack' \subseteq loaded'
    BY <2>1, PushTypes
  <2> QED BY <1>2, <2>1, <2>2 DEF LoadRun, TypeOK, RunsForDriver, Loading
<1>3. CASE BodyEnds
  <2>1. stack # <<>> /\ stack' = Step(Front(stack))
    BY <1>3 DEF BodyEnds, AtBody
  <2>2. /\ stack' \in Seq(Frames) /\ Len(stack') = Len(stack) - 1
        /\ OnStack = OnStack' \cup {Top.file}
    BY <2>1, PopTypes
  <2>3. [file |-> Top.file, defs |-> Size[Top.file], whole |-> TRUE] \in Entries
    BY <2>1, TopOfStack DEF Entries
  <2>4. registry' \in Seq(Entries)
    BY <1>3, <2>3, EntryAdded DEF BodyEnds, TypeOK
  <2>5. queue' \in Seq(File)
    BY <1>3, <2>1, TailKeeps DEF BodyEnds, TypeOK, RunsForDriver
  <2>6. stack' # <<>> => Len(stack) # 1
    BY <2>1, <2>2, TopOfStack, EmptySeq
  <2> QED BY <1>3, <2>1, <2>2, <2>4, <2>5, <2>6 DEF BodyEnds, TypeOK, RunsForDriver
<1>4. CASE LoadRaises
  <2>1. stack # <<>> /\ Unwind
    BY <1>4 DEF LoadRaises, Loading
  <2>2. /\ stack' = <<>> /\ OnStack' = {} /\ loaded' = loaded /\ loads' = loads
        /\ broken' = broken /\ queue' \in Seq(File) /\ errors' \subseteq File
        /\ phase' \in {"one", "two", "extra", "ok", "lazy", "failed", "aborted"}
        /\ excused' \subseteq File
    BY <2>1, UnwindTypes
  <2> QED BY <1>4, <2>2 DEF LoadRaises, TypeOK, RunsForDriver
<1>5. CASE BodyRaises
  <2>1. stack # <<>> /\ Unwind
    BY <1>5 DEF BodyRaises, AtBody
  <2>2. PICK n \in 0 .. Size[Top.file] :
          registry' = Append(registry, [file |-> Top.file, defs |-> n, whole |-> FALSE])
    BY <1>5 DEF BodyRaises
  <2>3. [file |-> Top.file, defs |-> n, whole |-> FALSE] \in Entries
    BY <2>1, <2>2, TopOfStack DEF Entries
  <2>4. registry' \in Seq(Entries)
    BY <2>2, <2>3, EntryAdded DEF TypeOK
  <2>5. /\ stack' = <<>> /\ OnStack' = {} /\ loaded' = loaded /\ loads' = loads
        /\ broken' = broken /\ queue' \in Seq(File) /\ errors' \subseteq File
        /\ phase' \in {"one", "two", "extra", "ok", "lazy", "failed", "aborted"}
        /\ excused' \subseteq File
    BY <2>1, UnwindTypes
  <2> QED BY <2>4, <2>5 DEF TypeOK, RunsForDriver
<1>6. CASE DriverSkips
  <2>1. queue' \in Seq(File) /\ stack = <<>>
    BY <1>6, TailKeeps DEF DriverSkips, Driving, TypeOK
  <2> QED BY <1>6, <2>1 DEF DriverSkips, TypeOK, RunsForDriver, OnStack
<1>7. CASE DriverRuns
  <2>1. Head(queue) \in File /\ Push(Head(queue)) /\ queue # <<>>
    BY <1>7, TailKeeps DEF DriverRuns, TypeOK
  <2>2. stack' \in Seq(Frames) /\ loaded' \subseteq File /\ OnStack' \subseteq loaded'
    BY <2>1, PushTypes
  <2> QED BY <1>7, <2>1, <2>2 DEF DriverRuns, Driving, TypeOK, RunsForDriver
<1>8. CASE NextPhase
  BY <1>8, ConstantsOK DEF NextPhase, Driving, TypeOK, RunsForDriver, OnStack
<1>9. CASE LazyLoad
  <2>1. PICK f \in File : Push(f)
    BY <1>9 DEF LazyLoad
  <2>2. stack' \in Seq(Frames) /\ loaded' \subseteq File /\ OnStack' \subseteq loaded'
    BY <2>1, PushTypes
  <2> QED BY <1>9, <2>2 DEF LazyLoad, TypeOK, RunsForDriver
<1>10. CASE UNCHANGED vars
  BY <1>10 DEF vars, TypeOK, RunsForDriver, OnStack
<1> QED
  BY <1>1, <1>2, <1>3, <1>4, <1>5, <1>6, <1>7, <1>8, <1>9, <1>10 DEF Next

(* Every variable of the loader and of the evaluator keeps its kind.       *)
THEOREM TypeCorrect == Spec => []TypeOK
<1>1. Init => TypeOK /\ RunsForDriver
  BY InitTypes
<1>2. TypeOK /\ RunsForDriver /\ [Next]_vars => TypeOK' /\ RunsForDriver'
  BY NextTypes
<1> QED BY <1>1, <1>2, PTL DEF Spec

--------------------------------------------------------------------------------
(* A file that was left half-run is accounted for: it was being run when an *)
(* exception was dropped, or the load was given up, or the error is kept.   *)
TornAccounted ==
  \/ Torn \subseteq excused
  \/ phase = "aborted"
  \/ phase \in {"two", "failed"} /\ errors # {}

LEMMA WholeGrows ==
  ASSUME TypeOK, NEW e \in Entries, registry' = Append(registry, e)
  PROVE  Whole' = IF e.whole THEN Whole \cup {e.file} ELSE Whole
<1>1. /\ registry' \in Seq(Entries) /\ Len(registry') = Len(registry) + 1
      /\ registry'[Len(registry) + 1] = e
      /\ \A k \in 1 .. Len(registry) : registry'[k] = registry[k]
  BY EntryAdded DEF TypeOK
<1>2. /\ Len(registry) \in Nat /\ DOMAIN registry = 1 .. Len(registry)
      /\ DOMAIN registry' = 1 .. Len(registry) + 1
  BY <1>1, LenProperties DEF TypeOK
<1>3. Whole = {registry[i].file : i \in {j \in 1 .. Len(registry) : registry[j].whole}}
  BY <1>2 DEF Whole
<1>4. Whole' = {registry'[i].file : i \in {j \in 1 .. Len(registry) + 1 : registry'[j].whole}}
  BY <1>2 DEF Whole
<1> QED BY <1>1, <1>2, <1>3, <1>4

LEMMA UnwindAccounts ==
  ASSUME TypeOK, RunsForDriver, TornAccounted, stack # <<>>, Unwind, Whole' = Whole
  PROVE  TornAccounted'
<1>1. OnStack' = {} /\ loaded' = loaded
  BY UnwindTypes
<1>2. Torn' \subseteq Torn \cup OnStack
  BY <1>1 DEF Torn
<1> QED BY <1>2 DEF TornAccounted, Unwind, Report, RunsForDriver

LEMMA NextAccounts ==
  ASSUME TypeOK, RunsForDriver, TornAccounted, [Next]_vars
  PROVE  TornAccounted'
<1>1. CASE LoadCached
  <2>1. OnStack' = OnStack
    BY <1>1, StepTypes DEF LoadCached
  <2> QED BY <1>1, <2>1 DEF LoadCached, TornAccounted, Torn, Whole
<1>2. CASE LoadRun
  <2>1. PICK f \in File : Push(f)
    BY <1>2 DEF LoadRun
  <2>2. OnStack' = OnStack \cup {f} /\ loaded' = loaded \cup {f}
    BY <2>1, PushTypes DEF Push
  <2> QED BY <1>2, <2>2 DEF LoadRun, TornAccounted, Torn, Whole
<1>3. CASE BodyEnds
  <2>1. OnStack = OnStack' \cup {Top.file}
    BY <1>3, PopTypes DEF BodyEnds, AtBody
  <2>2. [file |-> Top.file, defs |-> Size[Top.file], whole |-> TRUE] \in Entries
    BY <1>3, TopOfStack DEF BodyEnds, AtBody, Entries
  <2>3. Whole' = Whole \cup {Top.file}
    BY <1>3, <2>2, WholeGrows DEF BodyEnds
  <2>4. Torn' \subseteq Torn
    BY <1>3, <2>1, <2>3 DEF BodyEnds, Torn
  <2> QED BY <1>3, <2>4 DEF BodyEnds, TornAccounted
<1>4. CASE LoadRaises
  <2>1. Whole' = Whole /\ stack # <<>> /\ Unwind
    BY <1>4 DEF LoadRaises, Loading, Whole
  <2> QED BY <2>1, UnwindAccounts
<1>5. CASE BodyRaises
  <2>1. stack # <<>> /\ Unwind
    BY <1>5 DEF BodyRaises, AtBody
  <2>2. PICK n \in 0 .. Size[Top.file] :
          registry' = Append(registry, [file |-> Top.file, defs |-> n, whole |-> FALSE])
    BY <1>5 DEF BodyRaises
  <2>3. [file |-> Top.file, defs |-> n, whole |-> FALSE] \in Entries
    BY <2>1, <2>2, TopOfStack DEF Entries
  <2>4. Whole' = Whole
    BY <2>2, <2>3, WholeGrows
  <2> QED BY <2>1, <2>4, UnwindAccounts
<1>6. CASE DriverSkips
  BY <1>6 DEF DriverSkips, TornAccounted, Torn, OnStack, Whole
<1>7. CASE DriverRuns
  <2>1. Head(queue) \in File /\ Push(Head(queue))
    BY <1>7, TailKeeps DEF DriverRuns, TypeOK
  <2>2. OnStack' = OnStack \cup {Head(queue)} /\ loaded' = loaded \cup {Head(queue)}
    BY <2>1, PushTypes DEF Push
  <2> QED BY <1>7, <2>2 DEF DriverRuns, TornAccounted, Torn, Whole
<1>8. CASE NextPhase
  BY <1>8 DEF NextPhase, TornAccounted, Torn, OnStack, Whole
<1>9. CASE LazyLoad
  <2>1. PICK f \in File : Push(f)
    BY <1>9 DEF LazyLoad
  <2>2. OnStack' = OnStack \cup {f} /\ loaded' = loaded \cup {f}
    BY <2>1, PushTypes DEF Push
  <2> QED BY <1>9, <2>2 DEF LazyLoad, TornAccounted, Torn, Whole
<1>10. CASE UNCHANGED vars
  BY <1>10 DEF vars, TornAccounted, Torn, OnStack, Whole
<1> QED
  BY <1>1, <1>2, <1>3, <1>4, <1>5, <1>6, <1>7, <1>8, <1>9, <1>10 DEF Next

(* A workspace that loaded holds no file that was left half-run but those   *)
(* that were on the stack when an exception was dropped on purpose.         *)
THEOREM LoadedIsWhole == Spec => []OkMeansWhole
<1>1. Init => TypeOK /\ RunsForDriver
  BY InitTypes
<1>2. Init => TornAccounted
  BY DEF Init, TornAccounted, Torn
<1>3. TypeOK /\ RunsForDriver /\ TornAccounted /\ [Next]_vars
        => TypeOK' /\ RunsForDriver' /\ TornAccounted'
  BY NextTypes, NextAccounts
<1>4. TornAccounted => OkMeansWhole
  BY DEF TornAccounted, OkMeansWhole
<1> QED BY <1>1, <1>2, <1>3, <1>4, PTL DEF Spec

--------------------------------------------------------------------------------
(* The order in which files run.  A file that is settled stays so: only a   *)
(* file that is not loaded is pushed, and a file is popped only once.       *)

LEMMA OnStackAt ==
  ASSUME TypeOK
  PROVE  \A k \in 1 .. Len(stack) : stack[k].file \in OnStack
  BY OnStackIs DEF TypeOK

LEMMA SameOrder ==
  ASSUME OrderInv, UNCHANGED <<loads, stack, loaded, registry>>
  PROVE  OrderInv'
<1>1. Settled' = Settled
  BY DEF Settled, OnStack
<1>2. StackDistinct' /\ StackFollowsLoads'
  BY DEF OrderInv, StackDistinct, StackFollowsLoads
<1>3. LoadsSettled'
  BY <1>1 DEF OrderInv, LoadsSettled
<1>4. RanSettled'
  BY <1>1 DEF OrderInv, RanSettled
<1>5. RanInOrder'
  BY DEF OrderInv, RanInOrder
<1> QED BY <1>2, <1>3, <1>4, <1>5 DEF OrderInv

LEMMA PushOrder ==
  ASSUME TypeOK, OrderInv, NEW f \in File \ loaded, Push(f),
         stack = <<>> \/ Loading(f), UNCHANGED <<loads, registry>>
  PROVE  OrderInv'
<1> DEFINE n == Len(stack)
<1>1. /\ stack' \in Seq(Frames) /\ Len(stack') = n + 1
      /\ stack'[n + 1].file = f /\ stack'[n + 1].next = 1
      /\ \A k \in 1 .. n : stack'[k] = stack[k]
  BY PushAdds DEF TypeOK, Push
<1>2. n \in Nat /\ \A k \in 1 .. n : stack[k].file \in OnStack /\ stack[k].file # f
  BY OnStackIs, OnStackAt DEF TypeOK
<1>3. OnStack' = OnStack \cup {f} /\ loaded' = loaded \cup {f}
  BY PushTypes DEF Push
<1>4. Settled' = Settled
  BY <1>3 DEF Settled, TypeOK
<1>5. StackDistinct'
  BY <1>1, <1>2 DEF StackDistinct, OrderInv
<1>6. StackFollowsLoads'
  <2> SUFFICES ASSUME NEW k \in 1 .. n + 1
               PROVE  /\ stack'[k].next >= 1
                      /\ k < n + 1 =>
                           /\ stack'[k].next <= Len(loads[stack'[k].file])
                           /\ loads[stack'[k].file][stack'[k].next] = stack'[k + 1].file
    BY <1>1 DEF StackFollowsLoads
  <2>1. CASE k = n + 1
    BY <1>1, <1>2, <2>1
  <2>2. CASE k < n
    BY <1>1, <1>2, <2>2 DEF StackFollowsLoads, OrderInv
  <2>3. CASE k = n
    <3>1. stack # <<>> /\ n \in 1 .. n
      BY <1>2, <2>3, EmptySeq DEF TypeOK
    <3>2. stack[n].next <= Len(loads[stack[n].file]) /\ f = loads[stack[n].file][stack[n].next]
      BY <3>1 DEF Loading, Top
    <3> QED BY <1>1, <2>3, <3>1, <3>2 DEF StackFollowsLoads, OrderInv
  <2> QED BY <1>2, <2>1, <2>2, <2>3
<1>7. LoadsSettled'
  <2> SUFFICES ASSUME NEW k \in 1 .. n + 1, NEW j \in 1 .. Len(loads[stack'[k].file]),
                      j < stack'[k].next
               PROVE  loads[stack'[k].file][j] \in Settled
    BY <1>1, <1>4 DEF LoadsSettled
  <2>1. k # n + 1
    BY <1>1
  <2> QED BY <1>1, <1>2, <2>1 DEF LoadsSettled, OrderInv
<1>8. RanSettled' /\ RanInOrder'
  BY <1>4 DEF OrderInv, RanSettled, RanInOrder
<1> QED BY <1>5, <1>6, <1>7, <1>8 DEF OrderInv

LEMMA CachedOrder ==
  ASSUME TypeOK, OrderInv, LoadCached
  PROVE  OrderInv'
<1> DEFINE n == Len(stack)
<1>1. PICK f \in loaded : Loading(f) /\ ~LoadIsCircular(f)
  BY DEF LoadCached
<1>2. /\ stack' \in Seq(Frames) /\ Len(stack') = n
      /\ \A k \in 1 .. n :
           /\ stack'[k].file = stack[k].file
           /\ stack'[k].next = IF k = n THEN stack[k].next + 1 ELSE stack[k].next
  BY StepAdvances DEF TypeOK, LoadCached
<1>3. n \in Nat /\ n >= 1 /\ \A k \in 1 .. n : stack[k] \in Frames
  BY <1>1, OnStackIs, TopOfStack DEF TypeOK, Loading
<1>4. OnStack' = OnStack /\ UNCHANGED <<loads, loaded, registry>>
  BY StepTypes DEF LoadCached
<1>5. Settled' = Settled /\ f \in Settled
  BY <1>1, <1>4 DEF Settled, LoadIsCircular
<1>6. StackDistinct'
  BY <1>2 DEF StackDistinct, OrderInv
<1>7. StackFollowsLoads'
  <2> SUFFICES ASSUME NEW k \in 1 .. n
               PROVE  /\ stack'[k].next >= 1
                      /\ k < n =>
                           /\ stack'[k].next <= Len(loads[stack'[k].file])
                           /\ loads[stack'[k].file][stack'[k].next] = stack'[k + 1].file
    BY <1>2, <1>4 DEF StackFollowsLoads
  <2>1. stack[k].next \in Nat /\ stack[k].next >= 1
    BY <1>3 DEF Frames, StackFollowsLoads, OrderInv
  <2>2. CASE k = n
    BY <1>2, <2>1, <2>2
  <2>3. CASE k < n
    <3>1. k + 1 \in 1 .. n
      BY <1>3, <2>3
    <3> QED BY <1>2, <1>3, <2>1, <2>3, <3>1 DEF StackFollowsLoads, OrderInv
  <2> QED BY <1>3, <2>2, <2>3
<1>8. LoadsSettled'
  <2> SUFFICES ASSUME NEW k \in 1 .. n, NEW j \in 1 .. Len(loads[stack[k].file]),
                      j < stack'[k].next
               PROVE  loads[stack[k].file][j] \in Settled
    BY <1>2, <1>4, <1>5 DEF LoadsSettled
  <2>1. CASE j < stack[k].next
    BY <2>1 DEF LoadsSettled, OrderInv
  <2>2. CASE ~(j < stack[k].next)
    <3>1. stack[k].next \in Nat /\ j \in Int
      BY <1>3 DEF Frames
    <3>2. k = n /\ j = stack[n].next
      BY <1>2, <2>2, <3>1
    <3> QED BY <1>1, <1>5, <3>2 DEF Loading, Top
  <2> QED BY <2>1, <2>2
<1>9. RanSettled' /\ RanInOrder'
  BY <1>4, <1>5 DEF OrderInv, RanSettled, RanInOrder
<1> QED BY <1>6, <1>7, <1>8, <1>9 DEF OrderInv

(* An exception leaves only settled files, and at most an entry of a torn one. *)
LEMMA RaiseOrder ==
  ASSUME TypeOK, OrderInv, stack' = <<>>, UNCHANGED <<loads, loaded>>,
         \/ registry' = registry
         \/ \E e \in Entries : registry' = Append(registry, e) /\ ~e.whole
  PROVE  OrderInv'
<1>1. Settled \subseteq Settled'
  BY DEF Settled, OnStack
<1>2. StackDistinct' /\ StackFollowsLoads' /\ LoadsSettled'
  BY DEF StackDistinct, StackFollowsLoads, LoadsSettled
<1>3. CASE registry' = registry
  <2>1. RanSettled' /\ RanInOrder'
    BY <1>1, <1>3 DEF OrderInv, RanSettled, RanInOrder
  <2> QED BY <1>2, <2>1 DEF OrderInv
<1>4. CASE \E e \in Entries : registry' = Append(registry, e) /\ ~e.whole
  <2>1. PICK e \in Entries : registry' = Append(registry, e) /\ ~e.whole
    BY <1>4
  <2>2. /\ Len(registry) \in Nat /\ Len(registry') = Len(registry) + 1
        /\ registry'[Len(registry) + 1] = e
        /\ \A k \in 1 .. Len(registry) : registry'[k] = registry[k]
    BY <2>1, EntryAdded, LenProperties DEF TypeOK
  <2>3. \A i \in 1 .. Len(registry') : registry'[i].whole =>
          i \in 1 .. Len(registry) /\ registry'[i] = registry[i]
    BY <2>1, <2>2
  <2>4. RanSettled'
    BY <1>1, <2>3 DEF OrderInv, RanSettled
  <2>5. RanInOrder'
    BY <2>3 DEF OrderInv, RanInOrder
  <2> QED BY <1>2, <2>4, <2>5 DEF OrderInv
<1> QED BY <1>3, <1>4

(* A body that ends has all its loads behind it, and they were settled      *)
(* before; nothing that ran before it loaded it, since it was on the stack. *)
LEMMA EndOrder ==
  ASSUME TypeOK, OrderInv, BodyEnds
  PROVE  OrderInv'
<1> DEFINE n == Len(stack)
           g == stack[n].file
           m == Len(registry)
<1>1. /\ stack # <<>> /\ stack' = Step(Front(stack)) /\ Top = stack[n] /\ n \in 1 .. n
      /\ stack[n].next > Len(loads[g])
  BY EndOfStack DEF BodyEnds, AtBody, Top, TypeOK
<1>2. /\ stack' \in Seq(Frames) /\ Len(stack') = n - 1
      /\ \A k \in 1 .. n - 1 :
           /\ stack'[k].file = stack[k].file
           /\ stack'[k].next = IF k = n - 1 THEN stack[k].next + 1 ELSE stack[k].next
  BY <1>1, PopReturns DEF TypeOK
<1>3. n \in Nat /\ n >= 1 /\ \A k \in 1 .. n : stack[k] \in Frames
  BY <1>1, OnStackIs, TopOfStack DEF TypeOK
<1>4. OnStack = {stack[i].file : i \in 1 .. n} /\ OnStack' = {stack'[i].file : i \in 1 .. n - 1}
  BY <1>2, OnStackIs, LenProperties DEF TypeOK, OnStack
<1>5. g \in OnStack /\ g \in loaded /\ g \notin Settled
  BY <1>1, OnStackAt DEF TypeOK, Settled
<1>6. \A k \in 1 .. n - 1 : stack[k].file # g
  BY <1>1, <1>3 DEF StackDistinct, OrderInv
<1>7. UNCHANGED <<loads, loaded>>
  BY DEF BodyEnds
<1>8. Settled' = Settled \cup {g}
  <2>1. OnStack = OnStack' \cup {g}
    BY <1>1, PopTypes
  <2>2. g \notin OnStack'
    BY <1>2, <1>4, <1>6
  <2> QED BY <1>5, <1>7, <2>1, <2>2 DEF Settled
<1>9. StackDistinct'
  BY <1>2, <1>3 DEF StackDistinct, OrderInv
<1>10. StackFollowsLoads'
  <2> SUFFICES ASSUME NEW k \in 1 .. n - 1
               PROVE  /\ stack'[k].next >= 1
                      /\ k < n - 1 =>
                           /\ stack'[k].next <= Len(loads[stack'[k].file])
                           /\ loads[stack'[k].file][stack'[k].next] = stack'[k + 1].file
    BY <1>2, <1>7 DEF StackFollowsLoads
  <2>1. k \in 1 .. n /\ k < n /\ stack[k].next \in Nat /\ stack[k].next >= 1
    BY <1>3 DEF Frames, StackFollowsLoads, OrderInv
  <2>2. CASE k = n - 1
    BY <1>2, <1>3, <2>1, <2>2
  <2>3. CASE k < n - 1
    <3>1. k + 1 \in 1 .. n - 1
      BY <1>3, <2>3
    <3>2. /\ stack[k].next <= Len(loads[stack[k].file])
          /\ loads[stack[k].file][stack[k].next] = stack[k + 1].file
      BY <2>1 DEF StackFollowsLoads, OrderInv
    <3>3. /\ stack'[k].file = stack[k].file /\ stack'[k].next = stack[k].next
          /\ stack'[k + 1].file = stack[k + 1].file
      BY <1>2, <2>3, <3>1
    <3> QED BY <2>1, <3>2, <3>3
  <2> QED BY <1>3, <2>2, <2>3
<1>11. LoadsSettled'
  <2> SUFFICES ASSUME NEW k \in 1 .. n - 1, NEW j \in 1 .. Len(loads[stack[k].file]),
                      j < stack'[k].next
               PROVE  loads[stack[k].file][j] \in Settled'
    BY <1>2, <1>7 DEF LoadsSettled
  <2>1. k \in 1 .. n /\ k < n /\ stack[k].next \in Nat /\ j \in Int
    BY <1>3 DEF Frames
  <2>2. CASE j < stack[k].next
    BY <1>8, <2>1, <2>2 DEF LoadsSettled, OrderInv
  <2>3. CASE ~(j < stack[k].next)
    <3>1. k = n - 1
      BY <1>2, <2>3
    <3>2. stack'[k].next = stack[k].next + 1
      BY <1>2, <3>1
    <3>3. j = stack[k].next /\ k + 1 = n
      BY <1>3, <2>1, <2>3, <3>1, <3>2
    <3>4. loads[stack[k].file][j] = stack[k + 1].file
      BY <2>1, <3>3 DEF StackFollowsLoads, OrderInv
    <3> QED BY <1>8, <3>3, <3>4
  <2> QED BY <2>2, <2>3
<1>12. /\ m \in Nat /\ Len(registry') = m + 1
       /\ registry'[m + 1].file = g
       /\ \A k \in 1 .. m : registry'[k] = registry[k]
  <2>1. [file |-> g, defs |-> Size[g], whole |-> TRUE] \in Entries
    BY <1>1, TopOfStack DEF Entries
  <2>2. registry' = Append(registry, [file |-> g, defs |-> Size[g], whole |-> TRUE])
    BY <1>1 DEF BodyEnds
  <2> QED BY <2>1, <2>2, EntryAdded, LenProperties DEF TypeOK
<1>13. \A j \in 1 .. Len(loads[g]) : loads[g][j] \in Settled
  <2> TAKE j \in 1 .. Len(loads[g])
  <2>1. loads[g] \in Seq(File) /\ stack[n].next \in Nat /\ j \in Int
    BY <1>1, <1>3, TopOfStack DEF Frames
  <2>2. Len(loads[g]) \in Nat
    BY <2>1, LenProperties
  <2>3. j < stack[n].next
    BY <1>1, <2>1, <2>2
  <2> QED BY <1>1, <2>3 DEF LoadsSettled, OrderInv
<1>14. RanSettled'
  <2> SUFFICES ASSUME NEW i \in 1 .. m + 1, registry'[i].whole,
                      NEW j \in 1 .. Len(loads[registry'[i].file])
               PROVE  loads[registry'[i].file][j] \in Settled'
    BY <1>7, <1>12 DEF RanSettled
  <2>1. CASE i = m + 1
    BY <1>8, <1>12, <1>13, <2>1
  <2>2. CASE i \in 1 .. m
    BY <1>8, <1>12, <2>2 DEF RanSettled, OrderInv
  <2> QED BY <1>12, <2>1, <2>2
<1>15. RanInOrder'
  <2> SUFFICES ASSUME NEW i \in 1 .. m + 1, NEW j \in 1 .. m + 1,
                      registry'[i].whole, registry'[j].whole,
                      NEW q \in 1 .. Len(loads[registry'[i].file]),
                      loads[registry'[i].file][q] = registry'[j].file
               PROVE  j < i
    BY <1>7, <1>12 DEF RanInOrder
  <2>1. CASE j = m + 1
    <3>1. loads[registry'[i].file][q] \in Settled
      <4>1. CASE i = m + 1
        BY <1>12, <1>13, <4>1
      <4>2. CASE i \in 1 .. m
        BY <1>12, <4>2 DEF RanSettled, OrderInv
      <4> QED BY <1>12, <4>1, <4>2
    <3> QED BY <1>5, <1>12, <2>1, <3>1
  <2>2. CASE j \in 1 .. m /\ i = m + 1
    BY <1>12, <2>2
  <2>3. CASE j \in 1 .. m /\ i \in 1 .. m
    BY <1>12, <2>3 DEF RanInOrder, OrderInv
  <2> QED BY <1>12, <2>1, <2>2, <2>3
<1> QED BY <1>9, <1>10, <1>11, <1>14, <1>15 DEF OrderInv

LEMMA NextOrder ==
  ASSUME TypeOK, RunsForDriver, OrderInv, [Next]_vars
  PROVE  OrderInv'
<1>1. CASE LoadCached
  BY <1>1, CachedOrder
<1>2. CASE LoadRun
  <2>1. PICK f \in File \ loaded : Loading(f) /\ Push(f)
    BY <1>2 DEF LoadRun
  <2> QED BY <1>2, <2>1, PushOrder DEF LoadRun
<1>3. CASE BodyEnds
  BY <1>3, EndOrder
<1>4. CASE LoadRaises
  BY <1>4, RaiseOrder DEF LoadRaises, Unwind
<1>5. CASE BodyRaises
  <2>1. stack # <<>> /\ Unwind
    BY <1>5 DEF BodyRaises, AtBody
  <2>2. PICK n \in 0 .. Size[Top.file] :
          registry' = Append(registry, [file |-> Top.file, defs |-> n, whole |-> FALSE])
    BY <1>5 DEF BodyRaises
  <2>3. [file |-> Top.file, defs |-> n, whole |-> FALSE] \in Entries
    BY <2>1, <2>2, TopOfStack DEF Entries
  <2>4. \E e \in Entries : registry' = Append(registry, e) /\ ~e.whole
    BY <2>2, <2>3
  <2> QED BY <2>1, <2>4, RaiseOrder DEF Unwind
<1>6. CASE DriverSkips
  BY <1>6, SameOrder DEF DriverSkips
<1>7. CASE DriverRuns
  <2>1. Head(queue) \in File \ loaded /\ Push(Head(queue)) /\ stack = <<>>
    BY <1>7, TailKeeps DEF DriverRuns, Driving, TypeOK
  <2> QED BY <1>7, <2>1, PushOrder DEF DriverRuns
<1>8. CASE NextPhase
  BY <1>8, SameOrder DEF NextPhase
<1>9. CASE LazyLoad
  <2>1. PICK f \in File \ loaded : Push(f)
    BY <1>9 DEF LazyLoad
  <2> QED BY <1>9, <2>1, PushOrder DEF LazyLoad
<1>10. CASE UNCHANGED vars
  BY <1>10, SameOrder DEF vars
<1> QED
  BY <1>1, <1>2, <1>3, <1>4, <1>5, <1>6, <1>7, <1>8, <1>9, <1>10 DEF Next

(* Of two files that ran to their end, the one that is loaded ended first,  *)
(* so the order of registration is a topological order of load().           *)
THEOREM LoadsComeFirst == Spec => []LoadsFinishFirst
<1>1. Init => TypeOK /\ RunsForDriver
  BY InitTypes
<1>2. Init => OrderInv
  BY DEF Init, OrderInv, StackDistinct, StackFollowsLoads, LoadsSettled, RanSettled, RanInOrder
<1>3. TypeOK /\ RunsForDriver /\ OrderInv /\ [Next]_vars
        => TypeOK' /\ RunsForDriver' /\ OrderInv'
  BY NextTypes, NextOrder
<1>4. TypeOK /\ OrderInv => LoadsFinishFirst
  <2> SUFFICES ASSUME TypeOK, OrderInv,
                      NEW i \in DOMAIN registry, registry[i].whole,
                      NEW f \in Range(loads[registry[i].file]),
                      NEW j \in DOMAIN registry, registry[j].whole, registry[j].file = f
               PROVE  j < i
    BY DEF LoadsFinishFirst
  <2>1. i \in 1 .. Len(registry) /\ j \in 1 .. Len(registry) /\ registry[i] \in Entries
    BY LenProperties, ElementOfSeq DEF TypeOK
  <2>2. loads[registry[i].file] \in Seq(File)
    BY <2>1 DEF TypeOK, Entries
  <2>3. PICK q \in DOMAIN loads[registry[i].file] : loads[registry[i].file][q] = f
    BY DEF Range
  <2>4. q \in 1 .. Len(loads[registry[i].file])
    BY <2>2, LenProperties
  <2> QED BY <2>1, <2>3, <2>4 DEF OrderInv, RanInOrder
<1> QED BY <1>1, <1>2, <1>3, <1>4, PTL DEF Spec

---------------------------------------------------------------------------------
(***************************************************************************)
(* Requests, for any number of requests, workspaces and values and any     *)
(* overrides.                                                              *)
(***************************************************************************)

(* An override, once its label has been expanded.                          *)
Entry == [refs : Seq(Label) \ {<<>>}, text : Int]

(* What has the shape of a request, of a position and of a workspace; the  *)
(* payloads and the users are of no type.                                  *)
RequestShape(r) ==
  /\ req[r] = [at |-> req[r].at, ver |-> req[r].ver, user |-> req[r].user,
               with |-> req[r].with, data |-> req[r].data, ctx |-> req[r].ctx,
               default |-> req[r].default]
  /\ req[r].at \in {"new", "with", "ready", "done", "failed"}
  /\ req[r].at # "new" => req[r].ver \in Version
  /\ req[r].with \in Seq(Entry)

PosShape(r) ==
  /\ pos[r] = [i |-> pos[r].i, j |-> pos[r].j, value |-> pos[r].value]
  /\ pos[r].i \in Nat \ {0} /\ pos[r].j \in Nat \ {0}

RequestTypes ==
  /\ DOMAIN req = Request /\ DOMAIN pos = Request /\ DOMAIN found = Request
  /\ req = [r \in Request |-> req[r]] /\ pos = [r \in Request |-> pos[r]]
  /\ found = [r \in Request |-> found[r]] /\ base = [v \in Version |-> base[v]]
  /\ \A r \in Request : RequestShape(r) /\ PosShape(r)
  /\ dispatch \in [Version -> Request \cup {None}]
  /\ methods \in [Request -> BOOLEAN]
  /\ met \in [Request -> BOOLEAN]

(* Two requests that are in one workspace at a time have met ...           *)
PeersHaveMet ==
  \A r, p \in Request :
    r # p /\ Active(r) /\ Active(p) /\ req[r].ver = req[p].ver => met[r]

(* ... and the methods of one that met nobody are still the dispatched.    *)
LoneBindingHolds ==
  \A r \in Request :
    /\ req[r].at \in {"new", "with"} => ~methods[r]
    /\ Active(r) /\ methods[r] /\ ~met[r] => dispatch[req[r].ver] = r

(* A baseline is what its layers and rules say, at every time.             *)
BaselineHolds ==
  \A v \in Version : base[v].built =>
    /\ base[v].data = [l \in Label |-> After(v, l, Len(Layers(v, l)))]
    /\ base[v].ctx = Configured(v)
    /\ base[v].default = FreshCtx(v, None)

Live(r) == req[r].at \in {"with", "ready", "done"}

CtxRefreshed ==
  \A r \in Request : Live(r) =>
    LET v == req[r].ver IN
    req[r].ctx = [f \in Field |-> Refresh(FreshCtx(v, None)[f], Configured(v)[f],
                                          FreshCtx(v, req[r].user)[f])]

(* The overrides that have been assigned to l so far.                      *)
Assigned(r, l) ==
  {i \in DOMAIN req[r].with : \E j \in DOMAIN req[r].with[i].refs :
     /\ req[r].with[i].refs[j] = l
     /\ i < pos[r].i \/ (i = pos[r].i /\ j < pos[r].j)}

(* The loop over the overrides and their refs: where it stands, what value *)
(* it carries, and what it has assigned.                                   *)
LoopStands(r) ==
  /\ DOMAIN req[r].data = Label
  /\ pos[r].i <= Len(req[r].with) + 1
  /\ req[r].at \in {"ready", "done"} => pos[r].i = Len(req[r].with) + 1
  /\ More(r) => pos[r].j <= Len(req[r].with[pos[r].i].refs)

LoopCarries(r) ==
  More(r) /\ pos[r].value # NoData =>
    \E k \in Range(req[r].with[pos[r].i].refs) :
       pos[r].value = Meant(k, req[r].with[pos[r].i].text)

LoopAssigned(r) ==
  \A l \in Label :
    /\ Assigned(r, l) = {} => req[r].data[l] = After(req[r].ver, l, Len(Layers(req[r].ver, l)))
    /\ \A i \in Assigned(r, l) :
         (\A j \in Assigned(r, l) : j <= i) /\ OneUnit(req[r].with[i].refs)
           => req[r].data[l] = Meant(l, req[r].with[i].text)

Unstarted ==
  \A r \in Request : req[r].at = "new" =>
    pos[r].i = 1 /\ pos[r].j = 1 /\ pos[r].value = NoData

Loop(r) == LoopStands(r) /\ LoopCarries(r) /\ LoopAssigned(r)
LoopHolds == \A r \in Request : Live(r) => Loop(r)

(* Each theorem has an inductive invariant of its own, with RequestTypes: the    *)
(* dispatcher's, the contexts' (BaselineHolds and CtxRefreshed), the       *)
(* overrides' (with BaselineHolds) and the histories' (with both).         *)
DInv == PeersHaveMet /\ LoneBindingHolds /\ LoneDispatchIsOwn
LInv == Unstarted /\ LoopHolds

----------------------------------------------------------------------------
(* What each action does to a request, field by field.                     *)

Put(data, l, x) == [data EXCEPT ![l] = x]

LEMMA MovesOn ==
  ASSUME RequestTypes, NEW r \in Request, NEW a, req' = [req EXCEPT ![r].at = a]
  PROVE  /\ DOMAIN req' = Request /\ req' = [p \in Request |-> req'[p]]
         /\ \A p \in Request \ {r} : req'[p] = req[p]
         /\ req'[r] = [at |-> a, ver |-> req[r].ver, user |-> req[r].user, with |-> req[r].with,
                       data |-> req[r].data, ctx |-> req[r].ctx, default |-> req[r].default]
<1> DEFINE S == [at |-> req[r].at, ver |-> req[r].ver, user |-> req[r].user,
                 with |-> req[r].with, data |-> req[r].data, ctx |-> req[r].ctx,
                 default |-> req[r].default]
<1>1. req[r] = S /\ DOMAIN req = Request
  BY DEF RequestTypes, RequestShape
<1>2. req'[r] = [req[r] EXCEPT !.at = a]
  BY <1>1
<1>3. [S EXCEPT !.at = a] = [S EXCEPT !.at = a]
  OBVIOUS
<1>4. req'[r] = [S EXCEPT !.at = a]
  BY <1>1, <1>2
<1> QED BY <1>1, <1>4

LEMMA Assigns ==
  ASSUME RequestTypes, NEW r \in Request, NEW l, NEW x, Assign(r, l, x)
  PROVE  /\ DOMAIN req' = Request /\ req' = [p \in Request |-> req'[p]]
         /\ \A p \in Request \ {r} : req'[p] = req[p]
         /\ req'[r] = [at |-> req[r].at, ver |-> req[r].ver, user |-> req[r].user,
                       with |-> req[r].with, data |-> Put(req[r].data, l, x),
                       ctx |-> req[r].ctx, default |-> req[r].default]
<1> DEFINE S == [at |-> req[r].at, ver |-> req[r].ver, user |-> req[r].user,
                 with |-> req[r].with, data |-> req[r].data, ctx |-> req[r].ctx,
                 default |-> req[r].default]
<1>1. req[r] = S /\ DOMAIN req = Request
  BY DEF RequestTypes, RequestShape
<1>2. req'[r] = [req[r] EXCEPT !.data = Put(req[r].data, l, x)]
  BY <1>1 DEF Assign, Put
<1>3. req'[r] = [S EXCEPT !.data = Put(req[r].data, l, x)]
  BY <1>1, <1>2
<1> QED BY <1>1, <1>3 DEF Assign

LEMMA Advances ==
  ASSUME RequestTypes, NEW r \in Request, NEW x, Advance(r, x)
  PROVE  /\ DOMAIN pos' = Request /\ pos' = [p \in Request |-> pos'[p]]
         /\ \A p \in Request \ {r} : pos'[p] = pos[p]
         /\ pos'[r] = IF pos[r].j < Len(req[r].with[pos[r].i].refs)
                      THEN [i |-> pos[r].i, j |-> pos[r].j + 1, value |-> x]
                      ELSE [i |-> pos[r].i + 1, j |-> 1, value |-> NoData]
<1>1. DOMAIN pos = Request
  BY DEF RequestTypes
<1> QED BY <1>1 DEF Advance

LEMMA Forks ==
  ASSUME RequestTypes, NEW r \in Request, Fork(r)
  PROVE  \E v \in Version, ask \in Asks :
    /\ base[v].built
    /\ DOMAIN req' = Request /\ req' = [p \in Request |-> req'[p]]
    /\ \A p \in Request \ {r} : req'[p] = req[p]
    /\ req'[r] = [at |-> "with", ver |-> v, user |-> ask.user, with |-> ask.with,
                  data |-> base[v].data,
                  ctx |-> [f \in Field |-> Refresh(base[v].default[f], base[v].ctx[f],
                                                   FreshCtx(v, ask.user)[f])],
                  default |-> FreshCtx(v, ask.user)]
    /\ dispatch' = [dispatch EXCEPT ![v] = r]
    /\ met' = [p \in Request |-> IF p \in Peers(r, v) \/ (p = r /\ Peers(r, v) # {})
                                 THEN TRUE ELSE met[p]]
<1>1. DOMAIN req = Request
  BY DEF RequestTypes
<1>2. PICK v \in Version, ask \in Asks :
        /\ base[v].built
        /\ req' = [req EXCEPT ![r] =
             [at |-> "with", ver |-> v, user |-> ask.user, with |-> ask.with,
              data |-> base[v].data,
              ctx |-> [f \in Field |-> Refresh(base[v].default[f], base[v].ctx[f],
                                               FreshCtx(v, ask.user)[f])],
              default |-> FreshCtx(v, ask.user)]]
        /\ dispatch' = [dispatch EXCEPT ![v] = r]
        /\ met' = [p \in Request |-> IF p \in Peers(r, v) \/ (p = r /\ Peers(r, v) # {})
                                     THEN TRUE ELSE met[p]]
  BY DEF Fork, Bind
<1>3. /\ DOMAIN req' = Request /\ req' = [p \in Request |-> req'[p]]
      /\ \A p \in Request \ {r} : req'[p] = req[p]
  BY <1>1, <1>2
<1>4. req'[r] = [at |-> "with", ver |-> v, user |-> ask.user, with |-> ask.with,
                 data |-> base[v].data,
                 ctx |-> [f \in Field |-> Refresh(base[v].default[f], base[v].ctx[f],
                                                  FreshCtx(v, ask.user)[f])],
                 default |-> FreshCtx(v, ask.user)]
  BY <1>1, <1>2
<1> QED BY <1>2, <1>3, <1>4

LEMMA ReadOverride ==
  ASSUME RequestTypes, NEW r \in Request, More(r)
  PROVE  /\ pos[r].i \in DOMAIN req[r].with
         /\ req[r].with[pos[r].i] \in Entry
         /\ req[r].with[pos[r].i].refs \in Seq(Label)
         /\ Len(req[r].with[pos[r].i].refs) >= 1
<1>1. pos[r].i \in Nat \ {0} /\ req[r].with \in Seq(Entry)
  BY DEF RequestTypes, RequestShape, PosShape
<1>2. pos[r].i \in DOMAIN req[r].with
  BY <1>1 DEF More
<1>3. req[r].with[pos[r].i] \in Entry
  BY <1>1, <1>2
<1>4. req[r].with[pos[r].i].refs \in Seq(Label) \ {<<>>}
  BY <1>3 DEF Entry
<1> QED BY <1>2, <1>3, <1>4

LEMMA ShapeOf ==
  ASSUME NEW r \in Request, NEW a, NEW v, NEW u, NEW w, NEW d, NEW c, NEW f,
         req'[r] = [at |-> a, ver |-> v, user |-> u, with |-> w, data |-> d,
                    ctx |-> c, default |-> f],
         a \in {"with", "ready", "done", "failed"}, v \in Version, w \in Seq(Entry)
  PROVE  RequestShape(r)'
  BY DEF RequestShape

LEMMA InitRequestTypes == RequestsInit => RequestTypes
<1> SUFFICES ASSUME RequestsInit PROVE RequestTypes OBVIOUS
<1>1. ASSUME NEW r \in Request PROVE RequestShape(r) /\ PosShape(r)
  <2>1. req[r] = [at |-> "new", ver |-> None, user |-> None, with |-> <<>>,
                  data |-> <<>>, ctx |-> <<>>, default |-> <<>>]
    BY DEF RequestsInit, Nobody
  <2>2. RequestShape(r)
    BY <2>1 DEF RequestShape
  <2>3. PosShape(r)
    BY DEF RequestsInit, PosShape
  <2> QED BY <2>2, <2>3
<1>2. /\ DOMAIN req = Request /\ DOMAIN pos = Request /\ DOMAIN found = Request
      /\ req = [r \in Request |-> req[r]] /\ pos = [r \in Request |-> pos[r]]
      /\ found = [r \in Request |-> found[r]] /\ base = [v \in Version |-> base[v]]
  BY DEF RequestsInit
<1>3. /\ dispatch \in [Version -> Request \cup {None}]
      /\ methods \in [Request -> BOOLEAN] /\ met \in [Request -> BOOLEAN]
  BY DEF RequestsInit
<1> QED BY <1>1, <1>2, <1>3 DEF RequestTypes

(* A request that only changes its place keeps its shape, and so do the    *)
(* others.                                                                 *)
LEMMA MoveTypes ==
  ASSUME RequestTypes, NEW r \in Request, req[r].at \in {"with", "ready"},
         NEW a \in {"ready", "done", "failed"},
         req' = [req EXCEPT ![r].at = a],
         UNCHANGED <<base, pos, dispatch, methods, met, found>>
  PROVE  RequestTypes'
<1>1. ASSUME NEW p \in Request PROVE RequestShape(p)' /\ PosShape(p)'
  <2>0. PosShape(p)'
    BY DEF PosShape, RequestTypes
  <2>1. CASE p # r
    BY <2>0, <2>1, MovesOn DEF RequestTypes, RequestShape
  <2>2. CASE p = r
    <3>1. req[r].ver \in Version /\ req[r].with \in Seq(Entry)
      BY DEF RequestTypes, RequestShape
    <3>2. req'[r] = [at |-> a, ver |-> req[r].ver, user |-> req[r].user, with |-> req[r].with,
                     data |-> req[r].data, ctx |-> req[r].ctx, default |-> req[r].default]
      BY MovesOn
    <3>3. RequestShape(r)'
      BY <3>1, <3>2, ShapeOf
    <3> QED BY <2>0, <2>2, <3>3
  <2> QED BY <2>1, <2>2
<1>2. DOMAIN req' = Request /\ req' = [p \in Request |-> req'[p]]
  BY MovesOn
<1> QED BY <1>1, <1>2 DEF RequestTypes

LEMMA ForkTypes ==
  ASSUME RequestTypes, NEW r \in Request, Fork(r)
  PROVE  RequestTypes'
<1> PICK v \in Version, ask \in Asks :
    /\ DOMAIN req' = Request /\ req' = [p \in Request |-> req'[p]]
    /\ \A p \in Request \ {r} : req'[p] = req[p]
    /\ req'[r] = [at |-> "with", ver |-> v, user |-> ask.user, with |-> ask.with,
                  data |-> base[v].data,
                  ctx |-> [f \in Field |-> Refresh(base[v].default[f], base[v].ctx[f],
                                                   FreshCtx(v, ask.user)[f])],
                  default |-> FreshCtx(v, ask.user)]
    /\ dispatch' = [dispatch EXCEPT ![v] = r]
    /\ met' = [p \in Request |-> IF p \in Peers(r, v) \/ (p = r /\ Peers(r, v) # {})
                                 THEN TRUE ELSE met[p]]
  BY Forks
<1>1. ask.with \in Seq(Entry)
  BY RequestConstants DEF Entry
<1>2. RequestShape(r)'
  BY <1>1, ShapeOf
<1>3. UNCHANGED <<base, pos, methods, found>>
  BY DEF Fork
<1>4. ASSUME NEW p \in Request PROVE RequestShape(p)' /\ PosShape(p)'
  <2>1. PosShape(p)'
    BY <1>3 DEF RequestTypes, PosShape
  <2>2. p # r => RequestShape(p)'
    BY DEF RequestTypes, RequestShape
  <2> QED BY <1>2, <2>1, <2>2
<1>5. dispatch' \in [Version -> Request \cup {None}] /\ met' \in [Request -> BOOLEAN]
  BY DEF RequestTypes
<1> QED BY <1>3, <1>4, <1>5 DEF RequestTypes

LEMMA OverrideTypes ==
  ASSUME RequestTypes, NEW r \in Request, Override(r)
  PROVE  RequestTypes'
<1>1. PICK l, x : Assign(r, l, x) /\ Advance(r, x)
  BY DEF Override
<1>2. UNCHANGED <<base, dispatch, methods, met, found>> /\ req[r].at = "with"
  BY <1>1 DEF Override, Assign
<1>3. RequestShape(r)'
  <2>1. req[r].ver \in Version /\ req[r].with \in Seq(Entry)
    BY <1>2 DEF RequestTypes, RequestShape
  <2>2. req'[r] = [at |-> req[r].at, ver |-> req[r].ver, user |-> req[r].user, with |-> req[r].with,
                   data |-> Put(req[r].data, l, x),
                   ctx |-> req[r].ctx, default |-> req[r].default]
    BY <1>1, Assigns
  <2> QED BY <1>2, <2>1, <2>2, ShapeOf
<1>4. PosShape(r)'
  <2>1. pos[r].i \in Nat \ {0} /\ pos[r].j \in Nat \ {0}
    BY DEF RequestTypes, PosShape
  <2>2. pos'[r] = IF pos[r].j < Len(req[r].with[pos[r].i].refs)
                  THEN [i |-> pos[r].i, j |-> pos[r].j + 1, value |-> x]
                  ELSE [i |-> pos[r].i + 1, j |-> 1, value |-> NoData]
    BY <1>1, Advances
  <2>3. pos'[r] \in {[i |-> pos[r].i, j |-> pos[r].j + 1, value |-> x],
                    [i |-> pos[r].i + 1, j |-> 1, value |-> NoData]}
    BY <2>2
  <2> QED BY <2>1, <2>3 DEF PosShape
<1>5. /\ DOMAIN req' = Request /\ req' = [p \in Request |-> req'[p]]
      /\ \A p \in Request \ {r} : req'[p] = req[p]
  BY <1>1, Assigns
<1>6. /\ DOMAIN pos' = Request /\ pos' = [p \in Request |-> pos'[p]]
      /\ \A p \in Request \ {r} : pos'[p] = pos[p]
  BY <1>1, Advances
<1>7. ASSUME NEW p \in Request \ {r} PROVE RequestShape(p)' /\ PosShape(p)'
  <2>1. RequestShape(p)'
    BY <1>5 DEF RequestTypes, RequestShape
  <2>2. PosShape(p)'
    BY <1>6 DEF RequestTypes, PosShape
  <2> QED BY <2>1, <2>2
<1>8. \A p \in Request : RequestShape(p)' /\ PosShape(p)'
  BY <1>3, <1>4, <1>7
<1> QED BY <1>2, <1>5, <1>6, <1>8 DEF RequestTypes

LEMMA BuildTypes ==
  ASSUME RequestTypes, NEW v \in Version, Build(v)
  PROVE  RequestTypes'
<1>1. UNCHANGED <<req, pos, dispatch, methods, met, found>> /\ base' = [w \in Version |-> base'[w]]
  BY DEF Build, RequestTypes
<1>2. \A p \in Request : RequestShape(p)' /\ PosShape(p)'
  BY <1>1 DEF RequestTypes, RequestShape, PosShape
<1> QED BY <1>1, <1>2 DEF RequestTypes

LEMMA UseTypes ==
  ASSUME RequestTypes, NEW r \in Request, DefineMethod(r) \/ Call(r)
  PROVE  RequestTypes'
<1>1. UNCHANGED <<base, req, pos, met>>
  BY DEF DefineMethod, Call
<1>2. \A p \in Request : RequestShape(p)' /\ PosShape(p)'
  BY <1>1 DEF RequestTypes, RequestShape, PosShape
<1>3. DOMAIN found' = Request /\ found' = [p \in Request |-> found'[p]]
  BY DEF DefineMethod, Call, RequestTypes
<1>4. dispatch' \in [Version -> Request \cup {None}] /\ methods' \in [Request -> BOOLEAN]
  <2>1. req[r].at = "ready" => req[r].ver \in Version
    BY DEF RequestTypes, RequestShape
  <2>2. CASE DefineMethod(r)
    BY <2>1, <2>2 DEF DefineMethod, Bind, RequestTypes
  <2>3. CASE Call(r)
    BY <2>3 DEF Call, RequestTypes
  <2> QED BY <2>2, <2>3
<1> QED BY <1>1, <1>2, <1>3, <1>4 DEF RequestTypes

LEMMA NextRequestTypes == RequestTypes /\ [RequestsNext]_requestsVars => RequestTypes'
<1> SUFFICES ASSUME RequestTypes, [RequestsNext]_requestsVars PROVE RequestTypes' OBVIOUS
<1>1. CASE UNCHANGED requestsVars
  <2>1. \A p \in Request : RequestShape(p)' /\ PosShape(p)'
    BY <1>1 DEF requestsVars, RequestTypes, RequestShape, PosShape
  <2> QED BY <1>1, <2>1 DEF requestsVars, RequestTypes
<1>2. ASSUME NEW v \in Version, Build(v) PROVE RequestTypes'
  BY <1>2, BuildTypes
<1>3. ASSUME NEW r \in Request, Fork(r) PROVE RequestTypes'
  BY <1>3, ForkTypes
<1>4. ASSUME NEW r \in Request, Override(r) PROVE RequestTypes'
  BY <1>4, OverrideTypes
<1>5. ASSUME NEW r \in Request, Refuse(r) PROVE RequestTypes'
  BY <1>5, MoveTypes DEF Refuse
<1>6. ASSUME NEW r \in Request, Ready(r) PROVE RequestTypes'
  BY <1>6, MoveTypes DEF Ready
<1>7. ASSUME NEW r \in Request, End(r) PROVE RequestTypes'
  BY <1>7, MoveTypes DEF End
<1>8. ASSUME NEW r \in Request, DefineMethod(r) \/ Call(r) PROVE RequestTypes'
  BY <1>8, UseTypes
<1> QED BY <1>1, <1>2, <1>3, <1>4, <1>5, <1>6, <1>7, <1>8 DEF RequestsNext

----------------------------------------------------------------------------
(* The dispatcher                                                          *)

LEMMA Progress ==
  ASSUME RequestTypes, NEW r \in Request, Override(r) \/ Refuse(r) \/ Ready(r) \/ End(r)
  PROVE  /\ \A p \in Request : req'[p].ver = req[p].ver /\ req'[p].user = req[p].user
                               /\ req'[p].with = req[p].with /\ req'[p].ctx = req[p].ctx
         /\ \A p \in Request \ {r} : req'[p] = req[p]
         /\ req[r].at \in {"with", "ready"} /\ req'[r].at \notin {"new"}
         /\ req'[r].at = "with" => req[r].at = "with"
         /\ UNCHANGED <<base, dispatch, methods, met, found>>
<1>1. CASE Override(r)
  <2>1. PICK l, x : Assign(r, l, x) /\ req[r].at = "with"
    BY <1>1 DEF Override
  <2>2. /\ \A p \in Request \ {r} : req'[p] = req[p]
        /\ req'[r] = [at |-> req[r].at, ver |-> req[r].ver, user |-> req[r].user,
                      with |-> req[r].with, data |-> Put(req[r].data, l, x),
                      ctx |-> req[r].ctx, default |-> req[r].default]
    BY <2>1, Assigns
  <2>3. UNCHANGED <<base, dispatch, methods, met, found>>
    BY <1>1, <2>1 DEF Override, Assign
  <2> QED BY <2>1, <2>2, <2>3
<1>2. ASSUME NEW a \in {"ready", "done", "failed"}, req' = [req EXCEPT ![r].at = a],
             req[r].at \in {"with", "ready"}, UNCHANGED <<base, dispatch, methods, met, found>>
      PROVE  /\ \A p \in Request : req'[p].ver = req[p].ver /\ req'[p].user = req[p].user
                                   /\ req'[p].with = req[p].with /\ req'[p].ctx = req[p].ctx
             /\ \A p \in Request \ {r} : req'[p] = req[p]
             /\ req[r].at \in {"with", "ready"} /\ req'[r].at \notin {"new"}
             /\ req'[r].at = "with" => req[r].at = "with"
             /\ UNCHANGED <<base, dispatch, methods, met, found>>
  BY <1>2, MovesOn
<1>3. CASE Refuse(r)
  BY <1>2, <1>3 DEF Refuse
<1>4. CASE Ready(r)
  BY <1>2, <1>4 DEF Ready
<1>5. CASE End(r)
  BY <1>2, <1>5 DEF End
<1> QED BY <1>1, <1>3, <1>4, <1>5

LEMMA InitDInv == RequestsInit => DInv
<1> SUFFICES ASSUME RequestsInit PROVE DInv OBVIOUS
<1>1. \A r \in Request : req[r].at = "new" /\ methods[r] = FALSE /\ found[r] = "none"
  BY DEF RequestsInit, Nobody
<1> QED BY <1>1 DEF DInv, PeersHaveMet, LoneBindingHolds, LoneDispatchIsOwn, Active

LEMMA ProgressDInv ==
  ASSUME RequestTypes, DInv, NEW r \in Request, Override(r) \/ Refuse(r) \/ Ready(r) \/ End(r)
  PROVE  DInv'
<1>1. \A p \in Request : req'[p].ver = req[p].ver
  BY Progress
<1>2. \A p \in Request : Active(p)' => Active(p)
  BY Progress DEF Active
<1>3. \A p \in Request : req'[p].at \in {"new", "with"} => req[p].at \in {"new", "with"}
  BY Progress
<1>4. UNCHANGED <<dispatch, methods, met, found>>
  BY Progress
<1>5. PeersHaveMet'
  BY <1>1, <1>2, <1>4 DEF DInv, PeersHaveMet
<1>6. LoneBindingHolds'
  BY <1>1, <1>2, <1>3, <1>4 DEF DInv, LoneBindingHolds
<1> QED BY <1>4, <1>5, <1>6 DEF DInv, LoneDispatchIsOwn

LEMMA ForkDInv ==
  ASSUME RequestTypes, DInv, NEW r \in Request, Fork(r)
  PROVE  DInv'
<1> PICK v \in Version, ask \in Asks :
    /\ \A p \in Request \ {r} : req'[p] = req[p]
    /\ req'[r] = [at |-> "with", ver |-> v, user |-> ask.user, with |-> ask.with,
                  data |-> base[v].data,
                  ctx |-> [f \in Field |-> Refresh(base[v].default[f], base[v].ctx[f],
                                                   FreshCtx(v, ask.user)[f])],
                  default |-> FreshCtx(v, ask.user)]
    /\ dispatch' = [dispatch EXCEPT ![v] = r]
    /\ met' = [p \in Request |-> IF p \in Peers(r, v) \/ (p = r /\ Peers(r, v) # {})
                                 THEN TRUE ELSE met[p]]
  BY Forks
<1>1. req'[r].at = "with" /\ req'[r].ver = v /\ req[r].at = "new"
  BY DEF Fork
<1>2. UNCHANGED <<methods, found>>
  BY DEF Fork
<1>3. \A p \in Request : met[p] => met'[p]
  OBVIOUS
<1>4. \A p \in Request \ {r} : Active(p) /\ req[p].ver = v => met'[p] /\ met'[r]
  BY DEF Peers
<1>5. \A p \in Request \ {r} : (Active(p)' <=> Active(p)) /\ req'[p].ver = req[p].ver
                               /\ req'[p].at = req[p].at
  BY DEF Active
<1>6. PeersHaveMet'
  BY <1>1, <1>3, <1>4, <1>5 DEF DInv, PeersHaveMet
<1>7. LoneBindingHolds'
  <2>1. ~methods[r]
    BY <1>1 DEF DInv, LoneBindingHolds
  <2>2. \A p \in Request \ {r} : Active(p) /\ methods[p] /\ ~met'[p] => dispatch'[req[p].ver] = p
    <3> SUFFICES ASSUME NEW p \in Request \ {r}, Active(p), methods[p], ~met'[p]
                 PROVE  dispatch'[req[p].ver] = p
      OBVIOUS
    <3>1. req[p].ver # v /\ ~met[p]
      BY <1>3, <1>4
    <3>2. dispatch[req[p].ver] = p
      BY <3>1 DEF DInv, LoneBindingHolds
    <3> QED BY <3>1, <3>2 DEF RequestTypes
  <2> QED BY <1>2, <1>5, <2>1, <2>2 DEF DInv, LoneBindingHolds
<1>8. LoneDispatchIsOwn'
  BY <1>2, <1>3 DEF DInv, LoneDispatchIsOwn
<1> QED BY <1>6, <1>7, <1>8 DEF DInv

LEMMA DefineMethodDInv ==
  ASSUME RequestTypes, DInv, NEW r \in Request, DefineMethod(r)
  PROVE  DInv'
<1> DEFINE v == req[r].ver
<1>1. UNCHANGED <<req, met, found>> /\ req[r].at = "ready" /\ Active(r)
  BY DEF DefineMethod, Active
<1>2. v \in Version
  BY <1>1 DEF RequestTypes, RequestShape
<1>3. dispatch' = [dispatch EXCEPT ![v] = r] /\ dispatch'[v] = r
  BY <1>2 DEF DefineMethod, Bind, RequestTypes
<1>4. \A p \in Request \ {r} : methods'[p] = methods[p]
  BY DEF DefineMethod, RequestTypes
<1>5. \A p \in Request : Active(p)' <=> Active(p)
  BY <1>1 DEF Active
<1>6. PeersHaveMet'
  BY <1>1, <1>5 DEF DInv, PeersHaveMet
<1>7. LoneBindingHolds'
  <2>1. \A p \in Request \ {r} : Active(p) /\ methods[p] /\ ~met[p] => dispatch'[req[p].ver] = p
    <3> SUFFICES ASSUME NEW p \in Request \ {r}, Active(p), methods[p], ~met[p]
                 PROVE  dispatch'[req[p].ver] = p
      OBVIOUS
    <3>1. req[p].ver # v
      BY <1>1 DEF DInv, PeersHaveMet
    <3>2. dispatch[req[p].ver] = p
      BY DEF DInv, LoneBindingHolds
    <3> QED BY <1>3, <3>1, <3>2 DEF RequestTypes
  <2> QED BY <1>1, <1>3, <1>4, <1>5, <2>1 DEF DInv, LoneBindingHolds
<1> QED BY <1>1, <1>6, <1>7 DEF DInv, LoneDispatchIsOwn

LEMMA CallDInv ==
  ASSUME RequestTypes, DInv, NEW r \in Request, Call(r)
  PROVE  DInv'
<1>1. UNCHANGED <<req, dispatch, methods, met>> /\ Active(r) /\ methods[r]
  BY DEF Call, Active
<1>2. \A p \in Request : Active(p)' <=> Active(p)
  BY <1>1 DEF Active
<1>3. LoneDispatchIsOwn'
  <2>1. ~met[r] => dispatch[req[r].ver] = r
    BY <1>1 DEF DInv, LoneBindingHolds
  <2>2. ~met[r] => found'[r] = "own"
    BY <2>1 DEF Call, RequestTypes
  <2>3. \A p \in Request \ {r} : found'[p] = found[p]
    BY DEF Call, RequestTypes
  <2> QED BY <1>1, <2>2, <2>3 DEF DInv, LoneDispatchIsOwn
<1> QED BY <1>1, <1>2, <1>3 DEF DInv, PeersHaveMet, LoneBindingHolds

LEMMA NextDInv == RequestTypes /\ DInv /\ [RequestsNext]_requestsVars => DInv'
<1> SUFFICES ASSUME RequestTypes, DInv, [RequestsNext]_requestsVars PROVE DInv' OBVIOUS
<1>1. CASE UNCHANGED requestsVars
  BY <1>1 DEF requestsVars, DInv, PeersHaveMet, LoneBindingHolds, LoneDispatchIsOwn, Active
<1>2. ASSUME NEW v \in Version, Build(v) PROVE DInv'
  BY <1>2 DEF Build, DInv, PeersHaveMet, LoneBindingHolds, LoneDispatchIsOwn, Active
<1>3. ASSUME NEW r \in Request, Fork(r) PROVE DInv'
  BY <1>3, ForkDInv
<1>4. ASSUME NEW r \in Request, Override(r) \/ Refuse(r) \/ Ready(r) \/ End(r) PROVE DInv'
  BY <1>4, ProgressDInv
<1>5. ASSUME NEW r \in Request, DefineMethod(r) PROVE DInv'
  BY <1>5, DefineMethodDInv
<1>6. ASSUME NEW r \in Request, Call(r) PROVE DInv'
  BY <1>6, CallDInv
<1> QED BY <1>1, <1>2, <1>3, <1>4, <1>5, <1>6 DEF RequestsNext

(* A request that has a workspace to itself dispatches to the methods of   *)
(* its own fork, whoever was bound to the dispatcher before.               *)
THEOREM LoneDispatch == RequestsSpec => []LoneDispatchIsOwn
<1>1. RequestTypes /\ DInv /\ [RequestsNext]_requestsVars => (RequestTypes /\ DInv)'
  BY NextRequestTypes, NextDInv
<1>2. DInv => LoneDispatchIsOwn
  BY DEF DInv
<1> QED BY InitRequestTypes, InitDInv, <1>1, <1>2, PTL DEF RequestsSpec

----------------------------------------------------------------------------
(* The task context                                                        *)

LEMMA InitBaseline == RequestsInit => BaselineHolds
  BY DEF RequestsInit, BaselineHolds

LEMMA NextBaseline == RequestTypes /\ BaselineHolds /\ [RequestsNext]_requestsVars => BaselineHolds'
<1> SUFFICES ASSUME RequestTypes, BaselineHolds, [RequestsNext]_requestsVars PROVE BaselineHolds' OBVIOUS
<1>1. ASSUME UNCHANGED base PROVE BaselineHolds'
  BY <1>1 DEF BaselineHolds
<1>2. ASSUME NEW v \in Version, Build(v) PROVE BaselineHolds'
  <2>1. base' = [base EXCEPT ![v] =
          [built |-> TRUE, data |-> [l \in Label |-> After(v, l, Len(Layers(v, l)))],
           ctx |-> Configured(v), default |-> FreshCtx(v, None)]]
    BY <1>2 DEF Build
  <2>2. \A w \in Version \ {v} : base'[w] = base[w]
    BY <2>1 DEF RequestTypes
  <2>3. base'[v] = [built |-> TRUE, data |-> [l \in Label |-> After(v, l, Len(Layers(v, l)))],
                    ctx |-> Configured(v), default |-> FreshCtx(v, None)]
    BY <2>1 DEF RequestTypes
  <2>4. /\ base'[v].data = [l \in Label |-> After(v, l, Len(Layers(v, l)))]
        /\ base'[v].ctx = Configured(v) /\ base'[v].default = FreshCtx(v, None)
    BY <2>3
  <2> QED BY <2>2, <2>4 DEF BaselineHolds
<1>3. ASSUME NEW r \in Request, Override(r) \/ Refuse(r) \/ Ready(r) \/ End(r)
      PROVE  BaselineHolds'
  BY <1>1, <1>3, Progress
<1>4. ASSUME NEW r \in Request, Fork(r) \/ DefineMethod(r) \/ Call(r) PROVE BaselineHolds'
  BY <1>1, <1>4 DEF Fork, DefineMethod, Call
<1>5. CASE UNCHANGED requestsVars
  BY <1>1, <1>5 DEF requestsVars
<1> QED BY <1>2, <1>3, <1>4, <1>5 DEF RequestsNext

LEMMA InitCtx == RequestsInit => CtxRefreshed
  BY DEF RequestsInit, Nobody, CtxRefreshed, Live

LEMMA NextCtx == RequestTypes /\ BaselineHolds /\ CtxRefreshed /\ [RequestsNext]_requestsVars => CtxRefreshed'
<1> SUFFICES ASSUME RequestTypes, BaselineHolds, CtxRefreshed, [RequestsNext]_requestsVars PROVE CtxRefreshed'
  OBVIOUS
<1>1. ASSUME UNCHANGED req PROVE CtxRefreshed'
  BY <1>1 DEF CtxRefreshed, Live
<1>2. ASSUME NEW v \in Version, Build(v) PROVE CtxRefreshed'
  BY <1>1, <1>2 DEF Build
<1>3. ASSUME NEW r \in Request, Override(r) \/ Refuse(r) \/ Ready(r) \/ End(r)
      PROVE  CtxRefreshed'
  <2>1. \A p \in Request : req'[p].ver = req[p].ver /\ req'[p].user = req[p].user
                           /\ req'[p].ctx = req[p].ctx /\ (Live(p)' => Live(p))
    BY <1>3, Progress DEF Live
  <2> QED BY <2>1 DEF CtxRefreshed
<1>4. ASSUME NEW r \in Request, Fork(r) PROVE CtxRefreshed'
  <2> PICK v \in Version, ask \in Asks :
        /\ base[v].built
        /\ \A p \in Request \ {r} : req'[p] = req[p]
        /\ req'[r] = [at |-> "with", ver |-> v, user |-> ask.user, with |-> ask.with,
                      data |-> base[v].data,
                      ctx |-> [f \in Field |-> Refresh(base[v].default[f], base[v].ctx[f],
                                                       FreshCtx(v, ask.user)[f])],
                      default |-> FreshCtx(v, ask.user)]
    BY <1>4, Forks
  <2>1. base[v].ctx = Configured(v) /\ base[v].default = FreshCtx(v, None)
    BY DEF BaselineHolds
  <2>2. req'[r].ver = v /\ req'[r].user = ask.user
    OBVIOUS
  <2>3. req'[r].ctx = [f \in Field |-> Refresh(FreshCtx(v, None)[f], Configured(v)[f],
                                               FreshCtx(v, ask.user)[f])]
    BY <2>1
  <2> QED BY <2>2, <2>3 DEF CtxRefreshed, Live
<1>5. ASSUME NEW r \in Request, DefineMethod(r) \/ Call(r) PROVE CtxRefreshed'
  BY <1>1, <1>5 DEF DefineMethod, Call
<1>6. CASE UNCHANGED requestsVars
  BY <1>1, <1>6 DEF requestsVars
<1> QED BY <1>2, <1>3, <1>4, <1>5, <1>6 DEF RequestsNext

(* A ctx field that a config rule set keeps its value in every request;    *)
(* the others are the request's own, whoever forked the workspace before.  *)
THEOREM CtxHolds == RequestsSpec => []CtxIsOwnOrConfigured
<1>1. RequestsInit => RequestTypes /\ BaselineHolds /\ CtxRefreshed
  BY InitRequestTypes, InitBaseline, InitCtx
<1>2. /\ RequestTypes /\ BaselineHolds /\ CtxRefreshed /\ [RequestsNext]_requestsVars
      => (RequestTypes /\ BaselineHolds /\ CtxRefreshed)'
  BY NextRequestTypes, NextBaseline, NextCtx
<1>3. CtxRefreshed => CtxIsOwnOrConfigured
  <2> SUFFICES ASSUME CtxRefreshed, NEW r \in Request, Applied(r), NEW f \in Field,
                      NEW v, v = req[r].ver
               PROVE  req[r].ctx[f] =
                        IF f \in DOMAIN CtxRule[v] /\ CtxRule[v][f] # FreshCtx(v, None)[f]
                        THEN CtxRule[v][f] ELSE FreshCtx(v, req[r].user)[f]
    BY DEF CtxIsOwnOrConfigured
  <2>1. req[r].ctx[f] = Refresh(FreshCtx(v, None)[f], Configured(v)[f],
                                FreshCtx(v, req[r].user)[f])
    BY DEF Applied, CtxRefreshed, Live
  <2>2. Configured(v)[f] = IF f \in DOMAIN CtxRule[v] THEN CtxRule[v][f]
                           ELSE FreshCtx(v, None)[f]
    BY DEF Configured
  <2> QED BY <2>1, <2>2 DEF Refresh
<1> QED BY <1>1, <1>2, <1>3, PTL DEF RequestsSpec

----------------------------------------------------------------------------
(* The overrides                                                           *)

LEMMA LoopFrame ==
  ASSUME NEW r, UNCHANGED pos[r], UNCHANGED req[r], Loop(r)
  PROVE  Loop(r)'
<1>1. \A l : Assigned(r, l)' = Assigned(r, l)
  BY DEF Assigned
<1>2. LoopStands(r)' /\ LoopCarries(r)'
  BY DEF Loop, LoopStands, LoopCarries, More
<1>3. LoopAssigned(r)'
  BY <1>1 DEF Loop, LoopAssigned
<1> QED BY <1>2, <1>3 DEF Loop

(* One more ref is assigned, and no earlier or later one.                  *)
LEMMA AssignedGrows ==
  ASSUME RequestTypes, NEW r \in Request, More(r), LoopStands(r), NEW x, Advance(r, x),
         req'[r].with = req[r].with, NEW l
  PROVE  /\ Assigned(r, l)' = IF l = Ref(r) THEN Assigned(r, l) \cup {pos[r].i}
                              ELSE Assigned(r, l)
         /\ \A i \in Assigned(r, l) : i <= pos[r].i
<1> DEFINE w == req[r].with
           i0 == pos[r].i
           j0 == pos[r].j
<1>0. pos'[r] = IF j0 < Len(w[i0].refs) THEN [i |-> i0, j |-> j0 + 1, value |-> x]
                ELSE [i |-> i0 + 1, j |-> 1, value |-> NoData]
  BY Advances
<1>1. /\ i0 \in DOMAIN w /\ w[i0].refs \in Seq(Label) /\ i0 \in Nat \ {0} /\ j0 \in Nat \ {0}
      /\ j0 \in DOMAIN w[i0].refs
  <2>1. i0 \in Nat \ {0} /\ j0 \in Nat \ {0}
    BY DEF RequestTypes, PosShape
  <2>2. j0 <= Len(w[i0].refs)
    BY DEF LoopStands
  <2>3. i0 \in DOMAIN w /\ w[i0].refs \in Seq(Label)
    BY ReadOverride
  <2>4. j0 \in DOMAIN w[i0].refs
    BY <2>1, <2>2, <2>3
  <2> QED BY <2>1, <2>3, <2>4
<1>2. w \in Seq(Entry)
  BY DEF RequestTypes, RequestShape
<1>3. ASSUME NEW i \in DOMAIN w, NEW j \in DOMAIN w[i].refs
      PROVE  (i < pos'[r].i \/ (i = pos'[r].i /\ j < pos'[r].j))
               <=> (i < i0 \/ (i = i0 /\ j < j0) \/ (i = i0 /\ j = j0))
  <2>1. i \in Nat /\ j \in Nat \ {0}
    <3>1. w[i] \in Entry
      BY <1>2
    <3>2. w[i].refs \in Seq(Label)
      BY <3>1 DEF Entry
    <3> QED BY <1>2, <3>2
  <2>2. CASE j0 < Len(w[i0].refs)
    <3>1. pos'[r].i = i0 /\ pos'[r].j = j0 + 1
      BY <2>2, <1>0
    <3> QED BY <3>1, <2>1, <1>1
  <2>3. CASE ~(j0 < Len(w[i0].refs))
    <3>1. pos'[r].i = i0 + 1 /\ pos'[r].j = 1
      BY <2>3, <1>0
    <3>2. i = i0 => j <= j0
      BY <2>3, <1>1
    <3> QED BY <3>1, <3>2, <2>1, <1>1
  <2> QED BY <2>2, <2>3
<1>4. Assigned(r, l)' =
        {i \in DOMAIN w : \E j \in DOMAIN w[i].refs :
           w[i].refs[j] = l /\ (i < pos'[r].i \/ (i = pos'[r].i /\ j < pos'[r].j))}
  BY DEF Assigned
<1>5. Assigned(r, l)' =
        {i \in DOMAIN w : \E j \in DOMAIN w[i].refs :
           w[i].refs[j] = l /\ (i < i0 \/ (i = i0 /\ j < j0) \/ (i = i0 /\ j = j0))}
  BY <1>3, <1>4
<1>6. Ref(r) = w[i0].refs[j0]
  BY DEF Ref
<1>7. Assigned(r, l)' = IF l = Ref(r) THEN Assigned(r, l) \cup {i0} ELSE Assigned(r, l)
  <2> HIDE DEF w, i0, j0
  <2>1. Assigned(r, l) =
          {i \in DOMAIN w : \E j \in DOMAIN w[i].refs :
             w[i].refs[j] = l /\ (i < i0 \/ (i = i0 /\ j < j0))}
    BY DEF Assigned, w, i0, j0
  <2> QED BY <1>1, <1>5, <1>6, <2>1
<1>8. \A i \in Assigned(r, l) : i <= i0
  BY <1>1, <1>2 DEF Assigned
<1> QED BY <1>7, <1>8

LEMMA OverrideLoop ==
  ASSUME RequestTypes, NEW r \in Request, Loop(r), Override(r)
  PROVE  Loop(r)'
<1> DEFINE w == req[r].with
           i0 == pos[r].i
           o == w[i0]
<1> SUFFICES ASSUME NEW l, l = Ref(r), NEW x, x = Value(r, l) PROVE Loop(r)'
  OBVIOUS
<1>1. More(r) /\ req[r].at = "with" /\ Assign(r, l, x) /\ Advance(r, x)
  BY DEF Override
<1>2. /\ i0 \in Nat \ {0} /\ pos[r].j \in Nat \ {0} /\ pos[r].j \in DOMAIN o.refs
      /\ o.refs \in Seq(Label) /\ l \in Label /\ l \in Range(o.refs) /\ w \in Seq(Entry)
  <2>1. i0 \in Nat \ {0} /\ pos[r].j \in Nat \ {0}
    BY DEF RequestTypes, PosShape
  <2>2. pos[r].j <= Len(o.refs)
    BY <1>1 DEF Loop, LoopStands
  <2>3. o.refs \in Seq(Label)
    BY <1>1, ReadOverride
  <2>4. pos[r].j \in DOMAIN o.refs
    BY <2>1, <2>2, <2>3
  <2>5. l = o.refs[pos[r].j]
    BY DEF Ref
  <2>6. l \in Range(o.refs)
    BY <2>4, <2>5 DEF Range
  <2>7. l \in Label
    <3>1. \A s \in Seq(Label) : \A j \in DOMAIN s : s[j] \in Label
      OBVIOUS
    <3> QED BY <2>3, <2>4, <2>5, <3>1
  <2>8. w \in Seq(Entry)
    BY DEF RequestTypes, RequestShape
  <2> QED BY <2>1, <2>3, <2>4, <2>6, <2>7, <2>8
<1>3. /\ req'[r].with = w /\ req'[r].ver = req[r].ver /\ req'[r].at = "with"
      /\ req'[r].data = Put(req[r].data, l, x)
  <2>1. req'[r] = [at |-> req[r].at, ver |-> req[r].ver, user |-> req[r].user,
                   with |-> w, data |-> Put(req[r].data, l, x),
                   ctx |-> req[r].ctx, default |-> req[r].default]
    BY <1>1, Assigns
  <2> QED BY <1>1, <2>1
<1>4. /\ pos[r].j < Len(o.refs) => pos'[r] = [i |-> i0, j |-> pos[r].j + 1, value |-> x]
      /\ ~(pos[r].j < Len(o.refs)) => pos'[r] = [i |-> i0 + 1, j |-> 1, value |-> NoData]
  BY <1>1, Advances
<1>5. \/ x = Meant(l, o.text)
      \/ \E k \in Range(o.refs) : x = Meant(k, o.text)
  BY <1>1 DEF Value, Loop, LoopCarries
<1>6. \E k \in Range(o.refs) : x = Meant(k, o.text)
  BY <1>2, <1>5
<1>7. OneUnit(o.refs) => x = Meant(l, o.text)
  <2> SUFFICES ASSUME OneUnit(o.refs) PROVE x = Meant(l, o.text) OBVIOUS
  <2>1. PICK k \in Range(o.refs) : x = Meant(k, o.text)
    BY <1>6
  <2>2. Factor[k] = Factor[l]
    BY <1>2 DEF OneUnit
  <2> QED BY <2>1, <2>2 DEF Meant
<1>8. LoopStands(r)'
  <2>1. DOMAIN req'[r].data = Label
    BY <1>3 DEF Loop, LoopStands, Put
  <2>2. i0 <= Len(w)
    BY <1>1 DEF More
  <2>3. CASE pos[r].j < Len(o.refs)
    <3>1. pos'[r].i = i0 /\ pos'[r].j = pos[r].j + 1
      BY <2>3, <1>4
    <3>2. Len(o.refs) \in Nat /\ Len(w) \in Nat
      BY <1>2
    <3>3. pos'[r].i <= Len(w)
      BY <2>2, <3>1
    <3>4. pos'[r].j <= Len(o.refs)
      <4>1. \A a, b \in Nat : a < b => a + 1 <= b
        OBVIOUS
      <4>2. pos[r].j + 1 <= Len(o.refs)
        BY <2>3, <3>2, <1>2, <4>1
      <4> QED BY <3>1, <4>2
    <3> QED BY <2>1, <3>1, <3>2, <3>3, <3>4, <1>2, <1>3 DEF LoopStands, More
  <2>4. CASE ~(pos[r].j < Len(o.refs))
    <3>1. pos'[r].i = i0 + 1 /\ pos'[r].j = 1
      BY <2>4, <1>4
    <3>2. More(r)' => Len(w[i0 + 1].refs) >= 1
      <4> SUFFICES ASSUME i0 + 1 <= Len(w) PROVE Len(w[i0 + 1].refs) >= 1
        BY <3>1, <1>3 DEF More
      <4>1. w[i0 + 1] \in Entry
        BY <1>2
      <4>2. w[i0 + 1].refs \in Seq(Label) \ {<<>>}
        BY <4>1 DEF Entry
      <4>3. \A refs \in Seq(Label) \ {<<>>} : Len(refs) >= 1
        OBVIOUS
      <4> QED BY <4>2, <4>3
    <3> QED BY <2>1, <2>2, <3>1, <3>2, <1>2, <1>3 DEF LoopStands, More
  <2> QED BY <2>3, <2>4
<1>9. LoopCarries(r)'
  <2>1. CASE pos[r].j < Len(o.refs)
    <3>1. pos'[r].i = i0 /\ pos'[r].value = x
      BY <2>1, <1>4
    <3> QED BY <3>1, <1>3, <1>6 DEF LoopCarries
  <2>2. CASE ~(pos[r].j < Len(o.refs))
    <3>1. pos'[r].value = NoData
      BY <2>2, <1>4
    <3> QED BY <3>1 DEF LoopCarries
  <2> QED BY <2>1, <2>2
<1>10. LoopAssigned(r)'
  <2> SUFFICES ASSUME NEW m \in Label
               PROVE  /\ Assigned(r, m)' = {} =>
                           req'[r].data[m] = After(req[r].ver, m, Len(Layers(req[r].ver, m)))
                      /\ \A i \in Assigned(r, m)' :
                           (\A j \in Assigned(r, m)' : j <= i) /\ OneUnit(w[i].refs)
                             => req'[r].data[m] = Meant(m, w[i].text)
    BY <1>3 DEF LoopAssigned
  <2>0. DOMAIN req[r].data = Label
    BY DEF Loop, LoopStands
  <2>1. /\ Assigned(r, m)' = IF m = l THEN Assigned(r, m) \cup {i0} ELSE Assigned(r, m)
        /\ \A i \in Assigned(r, m) : i <= i0
    BY <1>1, <1>3, AssignedGrows DEF Loop
  <2>2. CASE m = l
    <3>1. req'[r].data[m] = x
      BY <2>0, <2>2, <1>3 DEF Put
    <3>2. \A i \in Assigned(r, m)' : (\A j \in Assigned(r, m)' : j <= i) => i = i0
      <4>1. \A i \in Assigned(r, m) : i \in Nat
        BY <1>2 DEF Assigned
      <4>2. \A i \in Assigned(r, m)' : i \in Nat /\ i <= i0
        BY <4>1, <2>1, <2>2, <1>2
      <4>3. i0 \in Assigned(r, m)'
        BY <2>1, <2>2
      <4> QED BY <4>2, <4>3, <1>2
    <3> QED BY <2>1, <2>2, <3>1, <3>2, <1>7
  <2>3. CASE m # l
    <3>1. req'[r].data[m] = req[r].data[m]
      BY <2>0, <2>3, <1>3 DEF Put
    <3>2. Assigned(r, m)' = Assigned(r, m)
      BY <2>1, <2>3
    <3> QED BY <3>1, <3>2 DEF Loop, LoopAssigned
  <2> QED BY <2>2, <2>3
<1> QED BY <1>8, <1>9, <1>10 DEF Loop

(* The positions of a list of overrides are numbers from 1.                *)
LEMMA RefsFromOne ==
  ASSUME NEW w \in Seq(Entry), NEW i \in DOMAIN w, NEW j \in DOMAIN w[i].refs
  PROVE  i >= 1 /\ j >= 1 /\ i \in Nat /\ j \in Nat
<1>1. w[i] \in Entry
  OBVIOUS
<1>2. w[i].refs \in Seq(Label)
  BY <1>1 DEF Entry
<1> QED BY <1>2

LEMMA ForkLoop ==
  ASSUME RequestTypes, Unstarted, BaselineHolds, NEW r \in Request, Fork(r)
  PROVE  Loop(r)' /\ req'[r].at = "with"
<1> PICK v \in Version, ask \in Asks :
    /\ base[v].built
    /\ req'[r] = [at |-> "with", ver |-> v, user |-> ask.user, with |-> ask.with,
                  data |-> base[v].data,
                  ctx |-> [f \in Field |-> Refresh(base[v].default[f], base[v].ctx[f],
                                                   FreshCtx(v, ask.user)[f])],
                  default |-> FreshCtx(v, ask.user)]
  BY Forks
<1>1. pos'[r] = pos[r] /\ pos[r].i = 1 /\ pos[r].j = 1 /\ pos[r].value = NoData
  BY DEF Fork, Unstarted
<1>2. base[v].data = [l \in Label |-> After(v, l, Len(Layers(v, l)))]
  BY DEF BaselineHolds
<1>3. /\ req'[r].at = "with" /\ req'[r].ver = v /\ req'[r].with = ask.with
      /\ req'[r].data = [l \in Label |-> After(v, l, Len(Layers(v, l)))]
  BY <1>2
<1>4. ask.with \in Seq(Entry)
  BY RequestConstants DEF Entry
<1>5. LoopStands(r)'
  <2>1. More(r)' => Len(ask.with[1].refs) >= 1
    <3> SUFFICES ASSUME 1 <= Len(ask.with) PROVE Len(ask.with[1].refs) >= 1
      BY <1>1, <1>3 DEF More
    <3>1. ask.with[1] \in Entry
      BY <1>4
    <3>2. ask.with[1].refs \in Seq(Label) \ {<<>>}
      BY <3>1 DEF Entry
    <3>3. \A refs \in Seq(Label) \ {<<>>} : Len(refs) >= 1
      OBVIOUS
    <3> QED BY <3>2, <3>3
  <2>2. 1 <= Len(ask.with) + 1
    BY <1>4
  <2>3. DOMAIN req'[r].data = Label
    BY <1>3
  <2> QED BY <2>1, <2>2, <2>3, <1>1, <1>3 DEF LoopStands
<1>6. LoopCarries(r)'
  BY <1>1 DEF LoopCarries
<1>7. \A l : Assigned(r, l)' = {}
  BY <1>1, <1>3, <1>4, RefsFromOne DEF Assigned
<1>8. LoopAssigned(r)'
  BY <1>3, <1>7 DEF LoopAssigned
<1> QED BY <1>3, <1>5, <1>6, <1>8 DEF Loop

(* A request that only changes its place has its loop where it was.        *)
LEMMA MoveLoop ==
  ASSUME RequestTypes, NEW r \in Request, Loop(r), req[r].at \in {"with", "ready"},
         req[r].at = "with" => ~More(r), NEW a \in {"ready", "done"},
         req' = [req EXCEPT ![r].at = a], UNCHANGED pos
  PROVE  Loop(r)'
<1>1. req'[r] = [at |-> a, ver |-> req[r].ver, user |-> req[r].user, with |-> req[r].with,
                 data |-> req[r].data, ctx |-> req[r].ctx, default |-> req[r].default]
  BY MovesOn
<1>2. req'[r].ver = req[r].ver /\ req'[r].with = req[r].with /\ req'[r].data = req[r].data
  BY <1>1
<1>3. pos[r].i = Len(req[r].with) + 1
  <2>1. pos[r].i \in Nat /\ req[r].with \in Seq(Entry)
    BY DEF RequestTypes, PosShape, RequestShape
  <2> QED BY <2>1 DEF Loop, LoopStands, More
<1>4. LoopStands(r)' /\ LoopCarries(r)'
  BY <1>2, <1>3 DEF Loop, LoopStands, LoopCarries, More
<1>5. \A l : Assigned(r, l)' = Assigned(r, l)
  BY <1>2 DEF Assigned
<1>6. LoopAssigned(r)'
  BY <1>2, <1>5 DEF Loop, LoopAssigned
<1> QED BY <1>4, <1>6 DEF Loop

LEMMA InitLInv == RequestsInit => LInv
<1> SUFFICES ASSUME RequestsInit PROVE LInv OBVIOUS
<1>1. \A r \in Request : req[r].at = "new" /\ pos[r] = [i |-> 1, j |-> 1, value |-> NoData]
  BY DEF RequestsInit, Nobody
<1> QED BY <1>1 DEF LInv, Unstarted, LoopHolds, Live

(* What one request does leaves the others' loops alone.                   *)
LEMMA OneLoop ==
  ASSUME LInv, NEW r \in Request,
         \A p \in Request \ {r} : req'[p] = req[p] /\ pos'[p] = pos[p],
         req'[r].at # "new", Live(r)' => Loop(r)'
  PROVE  LInv'
<1>1. Unstarted'
  BY DEF LInv, Unstarted
<1>2. ASSUME NEW p \in Request \ {r}, Live(p)' PROVE Loop(p)'
  <2>1. Live(p) /\ UNCHANGED req[p] /\ UNCHANGED pos[p]
    BY <1>2 DEF Live
  <2>2. Loop(p)
    BY <2>1 DEF LInv, LoopHolds, Loop
  <2> QED BY <2>1, <2>2, LoopFrame
<1>3. \A p \in Request : Live(p)' => Loop(p)'
  BY <1>2
<1> QED BY <1>1, <1>3 DEF LInv, LoopHolds, Loop

LEMMA NextLInv == RequestTypes /\ BaselineHolds /\ LInv /\ [RequestsNext]_requestsVars => LInv'
<1> SUFFICES ASSUME RequestTypes, BaselineHolds, LInv, [RequestsNext]_requestsVars PROVE LInv' OBVIOUS
<1>1. ASSUME UNCHANGED <<req, pos>> PROVE LInv'
  <2>1. ASSUME NEW p \in Request, Live(p)' PROVE Loop(p)'
    <3>1. Live(p) /\ UNCHANGED req[p] /\ UNCHANGED pos[p]
      BY <1>1, <2>1 DEF Live
    <3>2. Loop(p)
      BY <3>1 DEF LInv, LoopHolds, Loop
    <3> QED BY <3>1, <3>2, LoopFrame
  <2>2. Unstarted'
    BY <1>1 DEF LInv, Unstarted
  <2> QED BY <2>1, <2>2 DEF LInv, LoopHolds, Loop
<1>2. ASSUME NEW v \in Version, Build(v) PROVE LInv'
  BY <1>1, <1>2 DEF Build
<1>3. ASSUME NEW r \in Request, Fork(r) PROVE LInv'
  <2>1. Loop(r)' /\ req'[r].at = "with"
    BY <1>3, ForkLoop DEF LInv
  <2>2. \A p \in Request \ {r} : req'[p] = req[p]
    <3>1. PICK x : req' = [req EXCEPT ![r] = x]
      BY <1>3 DEF Fork
    <3> QED BY <3>1 DEF RequestTypes
  <2>3. UNCHANGED pos
    BY <1>3 DEF Fork
  <2> QED BY <2>1, <2>2, <2>3, OneLoop
<1>4. ASSUME NEW r \in Request, Override(r) PROVE LInv'
  <2>1. Loop(r)
    BY <1>4 DEF LInv, LoopHolds, Loop, Live, Override
  <2>2. Loop(r)'
    BY <1>4, <2>1, OverrideLoop
  <2>3. \A p \in Request \ {r} : pos'[p] = pos[p]
    <3>1. PICK x : Advance(r, x)
      BY <1>4 DEF Override
    <3> QED BY <3>1, Advances
  <2>4. (\A p \in Request \ {r} : req'[p] = req[p]) /\ req'[r].at # "new"
    BY <1>4, Progress
  <2> QED BY <2>2, <2>3, <2>4, OneLoop
<1>5. ASSUME NEW r \in Request, Refuse(r) PROVE LInv'
  <2>1. (\A p \in Request \ {r} : req'[p] = req[p]) /\ req'[r].at = "failed"
    <3>1. req' = [req EXCEPT ![r].at = "failed"]
      BY <1>5 DEF Refuse
    <3>2. PICK a : a = "failed"
      OBVIOUS
    <3>3. req' = [req EXCEPT ![r].at = a]
      BY <3>1, <3>2
    <3>4. /\ \A p \in Request \ {r} : req'[p] = req[p]
          /\ req'[r] = [at |-> a, ver |-> req[r].ver, user |-> req[r].user,
                        with |-> req[r].with, data |-> req[r].data,
                        ctx |-> req[r].ctx, default |-> req[r].default]
      BY <3>3, MovesOn
    <3> QED BY <3>2, <3>4
  <2>2. UNCHANGED pos
    BY <1>5 DEF Refuse
  <2> QED BY <2>1, <2>2, OneLoop DEF Live
<1>6. ASSUME NEW r \in Request, Ready(r) PROVE LInv'
  <2>1. Loop(r) /\ req[r].at = "with" /\ ~More(r) /\ UNCHANGED pos
    BY <1>6 DEF LInv, LoopHolds, Loop, Live, Ready
  <2>2. Loop(r)'
    BY <1>6, <2>1, MoveLoop DEF Ready
  <2>3. (\A p \in Request \ {r} : req'[p] = req[p]) /\ req'[r].at # "new"
    BY <1>6, Progress
  <2> QED BY <2>1, <2>2, <2>3, OneLoop
<1>7. ASSUME NEW r \in Request, End(r) PROVE LInv'
  <2>1. Loop(r) /\ req[r].at = "ready" /\ UNCHANGED pos
    BY <1>7 DEF LInv, LoopHolds, Loop, Live, End
  <2>2. Loop(r)'
    BY <1>7, <2>1, MoveLoop DEF End
  <2>3. (\A p \in Request \ {r} : req'[p] = req[p]) /\ req'[r].at # "new"
    BY <1>7, Progress
  <2> QED BY <2>1, <2>2, <2>3, OneLoop
<1>8. ASSUME NEW r \in Request, DefineMethod(r) \/ Call(r) PROVE LInv'
  BY <1>1, <1>8 DEF DefineMethod, Call
<1>9. CASE UNCHANGED requestsVars
  BY <1>1, <1>9 DEF requestsVars
<1> QED BY <1>2, <1>3, <1>4, <1>5, <1>6, <1>7, <1>8, <1>9 DEF RequestsNext

(* When the loop has ended it has assigned every ref.                      *)
LEMMA AllAssigned ==
  ASSUME RequestTypes, NEW r \in Request, pos[r].i = Len(req[r].with) + 1, NEW l
  PROVE  Assigned(r, l) = Naming(r, l) /\ Naming(r, l) \in SUBSET (1..Len(req[r].with))
<1>1. req[r].with \in Seq(Entry)
  BY DEF RequestTypes, RequestShape
<1>2. \A i \in DOMAIN req[r].with : i < pos[r].i /\ i \in 1..Len(req[r].with)
  BY <1>1
<1>3. Assigned(r, l) = Naming(r, l)
  BY <1>2 DEF Assigned, Naming, Range
<1> QED BY <1>2, <1>3 DEF Naming

(* A set of numbers that is not empty has a smallest.                      *)
LEMMA Smallest ==
  ASSUME NEW S \in SUBSET Nat, S # {}
  PROVE  \E m \in S : \A k \in S : m <= k
<1> DEFINE Above == {p \in Nat \X Nat : p[1] < p[2]}
<1>1. IsWellFoundedOn(Above, Nat)
  <2>1. Above = OpToRel(<, Nat)
    BY DEF OpToRel
  <2> QED BY <2>1, NatLessThanWellFounded
<1>2. PICK m \in S : \A k \in S : <<k, m>> \notin Above
  <2> HIDE DEF Above
  <2> QED BY <1>1, WFMin
<1>3. \A k \in S : m <= k
  <2> SUFFICES ASSUME NEW k \in S, k < m PROVE FALSE OBVIOUS
  <2>1. <<k, m>> \in Above
    OBVIOUS
  <2> QED BY <1>2, <2>1
<1> QED BY <1>3

(* A finite set of numbers that is not empty has a greatest.               *)
LEMMA Greatest ==
  ASSUME NEW n \in Nat, NEW S \in SUBSET (1..n), S # {}
  PROVE  \E i \in S : \A j \in S : j <= i
<1> DEFINE Up == {m \in Nat : m <= n /\ n - m \in S}
<1>1. PICK m \in Up : \A k \in Up : m <= k
  <2>1. PICK i \in S : TRUE
    OBVIOUS
  <2>2. n - i \in Up /\ Up \in SUBSET Nat
    OBVIOUS
  <2> HIDE DEF Up
  <2> QED BY <2>2, Smallest
<1>2. \A j \in S : j <= n - m
  <2> SUFFICES ASSUME NEW j \in S PROVE j <= n - m OBVIOUS
  <2>1. n - j \in Up
    OBVIOUS
  <2> QED BY <1>1, <2>1
<1> QED BY <1>2

(* A configured request sees of every value what the last of its own       *)
(* overrides says, else the last layer under it.                           *)
THEOREM LayersAreHeld == RequestsSpec => []LayersHold
<1>1. RequestsInit => RequestTypes /\ BaselineHolds /\ LInv
  BY InitRequestTypes, InitBaseline, InitLInv
<1>2. /\ RequestTypes /\ BaselineHolds /\ LInv /\ [RequestsNext]_requestsVars
      => (RequestTypes /\ BaselineHolds /\ LInv)'
  BY NextRequestTypes, NextBaseline, NextLInv
<1>3. RequestTypes /\ LInv => LayersHold
  <2> SUFFICES ASSUME RequestTypes, LInv, NEW r \in Request, Applied(r), NEW l \in Label
               PROVE  IF Naming(r, l) = {}
                      THEN req[r].data[l] = After(req[r].ver, l, Len(Layers(req[r].ver, l)))
                      ELSE OneUnit(req[r].with[LastNaming(r, l)].refs) =>
                             req[r].data[l] = Meant(l, req[r].with[LastNaming(r, l)].text)
    BY DEF LayersHold
  <2>1. Loop(r) /\ pos[r].i = Len(req[r].with) + 1
    BY DEF LInv, LoopHolds, Loop, LoopStands, Live, Applied
  <2>2. Assigned(r, l) = Naming(r, l) /\ Naming(r, l) \in SUBSET (1..Len(req[r].with))
    BY <2>1, AllAssigned
  <2>3. CASE Naming(r, l) = {}
    BY <2>1, <2>2, <2>3 DEF Loop, LoopAssigned
  <2>4. CASE Naming(r, l) # {}
    <3>1. Len(req[r].with) \in Nat
      BY DEF RequestTypes, RequestShape
    <3>2. \E i \in Naming(r, l) : \A j \in Naming(r, l) : j <= i
      BY <2>2, <2>4, <3>1, Greatest
    <3>3. LastNaming(r, l) \in Naming(r, l) /\ \A j \in Naming(r, l) : j <= LastNaming(r, l)
      BY <3>2 DEF LastNaming
    <3> QED BY <2>1, <2>2, <2>4, <3>3 DEF Loop, LoopAssigned
  <2> QED BY <2>3, <2>4
<1> QED BY <1>1, <1>2, <1>3, PTL DEF RequestsSpec

----------------------------------------------------------------------------
(* Lineage                                                                 *)

(* A function on 0..N is given by its first value and a step for each next. *)
LEMMA StepByStep ==
  ASSUME NEW N \in Nat, NEW V, NEW a \in V, NEW g \in [1..N -> [V -> V]]
  PROVE  \E f \in [0..N -> V] : f[0] = a /\ \A n \in 1..N : f[n] = g[n][f[n - 1]]
<1> DEFINE Upto(f, m) == f[0] = a /\ \A n \in 1..m : f[n] = g[n][f[n - 1]]
           Without == {m \in 0..N : ~ \E f \in [0..m -> V] : Upto(f, m)}
<1> SUFFICES ASSUME Without # {} PROVE FALSE OBVIOUS
<1>1. PICK m \in Without : \A k \in Without : m <= k
  <2>1. Without \in SUBSET Nat
    OBVIOUS
  <2> HIDE DEF Without
  <2> QED BY <2>1, Smallest
<1>2. m \in Nat /\ m <= N
  OBVIOUS
<1>3. m # 0
  <2> SUFFICES ASSUME m = 0 PROVE FALSE OBVIOUS
  <2> DEFINE f == [i \in 0..0 |-> a]
  <2>1. f \in [0..0 -> V] /\ Upto(f, 0)
    OBVIOUS
  <2> QED BY <2>1
<1>4. m - 1 \in 0..N /\ m - 1 \notin Without
  <2>1. m - 1 \in 0..N /\ ~(m <= m - 1)
    BY <1>2, <1>3
  <2> HIDE DEF Without
  <2> QED BY <1>1, <2>1
<1>5. PICK f \in [0..(m - 1) -> V] : Upto(f, m - 1)
  BY <1>4
<1>6. g[m] \in [V -> V] /\ f[m - 1] \in V
  BY <1>2, <1>3
<1> DEFINE h == [i \in 0..m |-> IF i < m THEN f[i] ELSE g[m][f[m - 1]]]
<1>7. h \in [0..m -> V]
  <2>1. \A i \in 0..m : i < m => f[i] \in V
    BY <1>2
  <2>2. g[m][f[m - 1]] \in V
    BY <1>6
  <2> QED BY <2>1, <2>2
<1>8. h[0] = a
  BY <1>2, <1>3, <1>5
<1>9. ASSUME NEW n \in 1..m PROVE h[n] = g[n][h[n - 1]]
  <2>1. n - 1 \in 0..m /\ n - 1 < m /\ n \in 0..m
    BY <1>2
  <2>2. h[n - 1] = f[n - 1]
    BY <2>1
  <2>3. CASE n < m
    <3>1. n \in 1..(m - 1)
      BY <2>3, <1>2
    <3>2. f[n] = g[n][f[n - 1]]
      BY <3>1, <1>5
    <3>3. h[n] = f[n]
      BY <2>1, <2>3
    <3> QED BY <2>2, <3>2, <3>3
  <2>4. CASE n = m
    BY <2>1, <2>2, <2>4
  <2> QED BY <2>3, <2>4, <1>2
<1> QED
  <2>1. Upto(h, m)
    <3> HIDE DEF h
    <3> QED BY <1>8, <1>9
  <2> HIDE DEF h, Upto
  <2> QED BY <1>7, <2>1

(* A sequence, of whatever.                                                *)
IsSeq(s) == s \in Seq(Range(s))

LEMMA SeqIs ==
  ASSUME NEW T, NEW s \in Seq(T)
  PROVE  IsSeq(s) /\ Len(s) \in Nat /\ DOMAIN s = 1..Len(s)
<1>1. Len(s) \in Nat /\ DOMAIN s = 1..Len(s) /\ s = [i \in 1..Len(s) |-> s[i]]
  OBVIOUS
<1>2. \A i \in 1..Len(s) : s[i] \in Range(s)
  BY <1>1 DEF Range
<1>3. s \in [1..Len(s) -> Range(s)]
  BY <1>1, <1>2
<1> QED BY <1>1, <1>3 DEF IsSeq

LEMMA TableIs ==
  ASSUME NEW n \in Nat, NEW s, DOMAIN s = 1..n, s = [i \in 1..n |-> s[i]]
  PROVE  IsSeq(s) /\ Len(s) = n
<1>1. \A i \in 1..n : s[i] \in Range(s)
  BY DEF Range
<1>2. s \in [1..n -> Range(s)]
  BY <1>1
<1> QED BY <1>2 DEF IsSeq

(* INSERT OR IGNORE adds the rows that were not there, and loses none.     *)
InsertSteps(u, rs, new) ==
  [i \in 0..Len(new) |->
     IF i = 0 THEN rs
     ELSE IF new[i] \in Range(u[i - 1]) THEN u[i - 1] ELSE Append(u[i - 1], new[i])]

LEMMA InsertIs ==
  ASSUME NEW rs, IsSeq(rs), NEW new, IsSeq(new)
  PROVE  IsSeq(Insert(rs, new)) /\ Range(Insert(rs, new)) = Range(rs) \cup Range(new)
<1> DEFINE N == Len(new)
           V == Seq(Range(rs) \cup Range(new))
           g == [i \in 1..N |-> [q \in V |-> IF new[i] \in Range(q) THEN q ELSE Append(q, new[i])]]
           upto == CHOOSE u : u = InsertSteps(u, rs, new)
           Good(i) == upto[i] \in V /\ Range(upto[i]) = Range(rs) \cup {new[k] : k \in 1..i}
           Bad == {i \in 0..N : ~Good(i)}
<1>1. N \in Nat /\ DOMAIN new = 1..N
  BY SeqIs DEF IsSeq
<1>2. \A i \in 1..N : new[i] \in Range(new)
  BY <1>1 DEF Range
<1>3. rs \in V
  BY DEF IsSeq
<1>4. ASSUME NEW q \in V, NEW i \in 1..N
      PROVE  Append(q, new[i]) \in V /\ Range(Append(q, new[i])) = Range(q) \cup {new[i]}
  <2>1. new[i] \in Range(rs) \cup Range(new)
    BY <1>2
  <2>2. /\ Append(q, new[i]) \in V /\ Len(q) \in Nat /\ Len(Append(q, new[i])) = Len(q) + 1
        /\ Append(q, new[i])[Len(q) + 1] = new[i]
        /\ \A k \in 1..Len(q) : Append(q, new[i])[k] = q[k]
    BY <2>1
  <2>3. DOMAIN q = 1..Len(q) /\ DOMAIN Append(q, new[i]) = 1..(Len(q) + 1)
    BY <2>2
  <2>4. 1..(Len(q) + 1) = (1..Len(q)) \cup {Len(q) + 1}
    BY <2>2
  <2> QED BY <2>2, <2>3, <2>4 DEF Range
<1>5. g \in [1..N -> [V -> V]]
  BY <1>4
<1>6. PICK f \in [0..N -> V] : f[0] = rs /\ \A n \in 1..N : f[n] = g[n][f[n - 1]]
  <2> HIDE DEF g, V, N
  <2> QED BY <1>1, <1>3, <1>5, StepByStep
<1>7. f = InsertSteps(f, rs, new)
  <2>1. ASSUME NEW n \in 1..N
        PROVE  f[n] = IF new[n] \in Range(f[n - 1]) THEN f[n - 1] ELSE Append(f[n - 1], new[n])
    <3>1. n - 1 \in 0..N
      BY <1>1
    <3>2. f[n - 1] \in V
      BY <3>1
    <3> QED BY <3>2, <1>6
  <2>2. f = [i \in 0..N |-> f[i]]
    OBVIOUS
  <2>3. \A i \in 0..N : i # 0 => i \in 1..N
    BY <1>1
  <2>4. ASSUME NEW i \in 0..N
        PROVE  f[i] = IF i = 0 THEN rs ELSE IF new[i] \in Range(f[i - 1]) THEN f[i - 1]
                      ELSE Append(f[i - 1], new[i])
    <3> HIDE DEF g, V, N
    <3> QED BY <2>1, <2>3, <1>6
  <2> HIDE DEF g, V
  <2> QED BY <2>2, <2>4 DEF InsertSteps
<1>8. upto = InsertSteps(upto, rs, new)
  BY <1>7
<1>9. Insert(rs, new) = upto[N]
  BY DEF Insert, InsertSteps
<1> HIDE DEF upto
<1>10. /\ upto[0] = rs
       /\ \A i \in 1..N : upto[i] = IF new[i] \in Range(upto[i - 1]) THEN upto[i - 1]
                                    ELSE Append(upto[i - 1], new[i])
  <2>1. \A i \in 0..N :
          upto[i] = IF i = 0 THEN rs ELSE IF new[i] \in Range(upto[i - 1]) THEN upto[i - 1]
                    ELSE Append(upto[i - 1], new[i])
    BY <1>8 DEF InsertSteps
  <2>2. 0 \in 0..N /\ \A i \in 1..N : i \in 0..N /\ i # 0
    BY <1>1
  <2> HIDE DEF N
  <2> QED BY <2>1, <2>2
<1>11. ASSUME Bad # {} PROVE FALSE
  <2>1. PICK m \in Bad : \A k \in Bad : m <= k
    <3>1. Bad \in SUBSET Nat
      BY <1>1
    <3> HIDE DEF Bad
    <3> QED BY <1>11, <3>1, Smallest
  <2>2. m # 0
    <3> SUFFICES ASSUME m = 0 PROVE FALSE OBVIOUS
    <3>1. {new[k] : k \in 1..0} = {}
      OBVIOUS
    <3> QED BY <3>1, <1>3, <1>10
  <2>3. m \in 1..N /\ m - 1 \in 0..N /\ Good(m - 1)
    <3>1. m \in 0..N
      OBVIOUS
    <3>2. m \in 1..N /\ m - 1 \in 0..N /\ ~(m <= m - 1)
      BY <1>1, <2>2, <3>1
    <3>3. m - 1 \notin Bad
      <4> HIDE DEF Bad
      <4> QED BY <2>1, <3>2
    <3> HIDE DEF Good, N
    <3> QED BY <3>2, <3>3
  <2>4. {new[k] : k \in 1..m} = {new[k] : k \in 1..(m - 1)} \cup {new[m]}
    <3>1. 1..m = (1..(m - 1)) \cup {m}
      BY <1>1, <2>3
    <3> QED BY <3>1
  <2>5. CASE new[m] \in Range(upto[m - 1])
    <3>1. upto[m] = upto[m - 1]
      BY <1>10, <2>3, <2>5
    <3>2. Range(upto[m - 1]) \cup {new[m]} = Range(upto[m - 1])
      BY <2>5
    <3> QED BY <2>3, <2>4, <3>1, <3>2
  <2>6. CASE new[m] \notin Range(upto[m - 1])
    <3>1. upto[m] = Append(upto[m - 1], new[m])
      BY <1>10, <2>3, <2>6
    <3>2. upto[m] \in V /\ Range(upto[m]) = Range(upto[m - 1]) \cup {new[m]}
      <4>1. upto[m - 1] \in V
        BY <2>3
      <4>2. /\ Append(upto[m - 1], new[m]) \in V
            /\ Range(Append(upto[m - 1], new[m])) = Range(upto[m - 1]) \cup {new[m]}
        BY <4>1, <2>3, <1>4
      <4> QED BY <4>2, <3>1
    <3> QED BY <2>3, <2>4, <3>2
  <2> QED BY <2>5, <2>6
<1>12. Good(N)
  <2>1. N \in 0..N
    BY <1>1
  <2> HIDE DEF Good, N
  <2> QED BY <1>11, <2>1
<1>13. Range(new) = {new[k] : k \in 1..N}
  BY <1>1 DEF Range
<1>14. IsSeq(upto[N])
  BY <1>12, SeqIs
<1> QED BY <1>9, <1>12, <1>13, <1>14

LEMMA LayersAre ==
  ASSUME NEW v \in Version, NEW l \in Label
  PROVE  IsSeq(Layers(v, l))
<1> DEFINE first == IF DefaultApplies(v, l)
                    THEN <<[source |-> <<"DEFAULT", v>>, payload |-> Default[v][l]]>> ELSE <<>>
           then == [i \in DOMAIN Rules[v][l] |->
                      [source |-> <<"CONFIG", v>>, payload |-> Rules[v][l][i]]]
           T == {[source |-> <<"DEFAULT", v>>, payload |-> Default[v][l]]} \cup Range(then)
<1>1. IsSeq(Rules[v][l])
  BY RequestConstants DEF IsSeq
<1>2. Len(Rules[v][l]) \in Nat /\ DOMAIN Rules[v][l] = 1..Len(Rules[v][l])
  BY <1>1, SeqIs DEF IsSeq
<1>3. IsSeq(then)
  BY <1>2, TableIs
<1>4. first \in Seq(T)
  <2> HIDE DEF then
  <2>1. <<[source |-> <<"DEFAULT", v>>, payload |-> Default[v][l]]>> \in Seq(T)
    OBVIOUS
  <2> QED BY <2>1
<1>5. then \in Seq(T)
  <2> HIDE DEF then
  <2>1. \A A, B : Seq(A) \subseteq Seq(A \cup B)
    OBVIOUS
  <2> QED BY <1>3, <2>1 DEF IsSeq
<1>6. first \o then \in Seq(T)
  <2> HIDE DEF first, then, T
  <2> QED BY <1>4, <1>5
<1>7. Layers(v, l) = first \o then
  BY DEF Layers
<1> QED BY <1>6, <1>7, SeqIs

(* The history of a value after each of the overrides.                     *)
ToldSteps(t, v, with, l) ==
  [i \in 0..Len(with) |->
     IF i = 0 THEN [n \in DOMAIN Layers(v, l) |-> Layers(v, l)[n].source]
     ELSE IF l \in Range(with[i].refs)
          THEN Append(t[i - 1], <<"COMMAND_LINE", with[i].text>>)
          ELSE t[i - 1]]

LEMMA HistoryIs ==
  ASSUME NEW v \in Version, NEW l \in Label, NEW w, IsSeq(w)
  PROVE  History(v, w, l) = ToldSteps(History(v, w, l), v, w, l)
<1> DEFINE N == Len(w)
           src(i) == <<"COMMAND_LINE", w[i].text>>
           first == [n \in DOMAIN Layers(v, l) |-> Layers(v, l)[n].source]
           V == Seq(Range(first) \cup {src(i) : i \in 1..N})
           g == [i \in 1..N |-> [q \in V |-> IF l \in Range(w[i].refs) THEN Append(q, src(i)) ELSE q]]
           told == CHOOSE t : t = ToldSteps(t, v, w, l)
<1>1. N \in Nat
  BY SeqIs DEF IsSeq
<1>2. IsSeq(first)
  <2>1. Len(Layers(v, l)) \in Nat /\ DOMAIN Layers(v, l) = 1..Len(Layers(v, l))
    BY LayersAre, SeqIs DEF IsSeq
  <2> QED BY <2>1, TableIs
<1>3. first \in V
  <2> HIDE DEF first, src
  <2>1. \A A, B : Seq(A) \subseteq Seq(A \cup B)
    OBVIOUS
  <2> QED BY <1>2, <2>1 DEF IsSeq
<1>4. ASSUME NEW q \in V, NEW i \in 1..N PROVE Append(q, src(i)) \in V
  <2> HIDE DEF first, src
  <2> QED OBVIOUS
<1> HIDE DEF first, src
<1>5. g \in [1..N -> [V -> V]]
  <2> HIDE DEF V
  <2> QED BY <1>4
<1>6. PICK f \in [0..N -> V] : f[0] = first /\ \A n \in 1..N : f[n] = g[n][f[n - 1]]
  <2> HIDE DEF g, N, V, told
  <2>1. ASSUME NEW a \in V, NEW s \in [1..N -> [V -> V]]
        PROVE  \E f \in [0..N -> V] : f[0] = a /\ \A n \in 1..N : f[n] = s[n][f[n - 1]]
    BY <1>1, StepByStep
  <2> QED BY <1>3, <1>5, <2>1
<1> HIDE DEF V
<1>7. f = ToldSteps(f, v, w, l)
  <2>1. ASSUME NEW n \in 1..N
        PROVE  f[n] = IF l \in Range(w[n].refs) THEN Append(f[n - 1], src(n)) ELSE f[n - 1]
    <3>1. n - 1 \in 0..N
      BY <1>1
    <3>2. f[n - 1] \in V
      BY <3>1
    <3> QED BY <3>2, <1>6
  <2>2. f = [i \in 0..N |-> f[i]]
    OBVIOUS
  <2>3. \A i \in 0..N : i # 0 => i \in 1..N
    BY <1>1
  <2>4. ASSUME NEW i \in 0..N
        PROVE  f[i] = IF i = 0 THEN first ELSE IF l \in Range(w[i].refs)
                      THEN Append(f[i - 1], src(i)) ELSE f[i - 1]
    <3> HIDE DEF g, N
    <3> QED BY <2>1, <2>3, <1>6
  <2> HIDE DEF g
  <2> QED BY <2>2, <2>4 DEF ToldSteps, first, src
<1>8. told = ToldSteps(told, v, w, l)
  BY <1>7
<1>9. History(v, w, l) = told
  BY DEF History, ToldSteps
<1> QED BY <1>8, <1>9

LEMMA HistoryStarts ==
  ASSUME NEW v \in Version, NEW l \in Label, NEW w, IsSeq(w)
  PROVE  History(v, w, l)[0] = [n \in DOMAIN Layers(v, l) |-> Layers(v, l)[n].source]
<1>1. 0 \in 0..Len(w)
  BY SeqIs DEF IsSeq
<1> QED BY <1>1, HistoryIs DEF ToldSteps

LEMMA HistoryNext ==
  ASSUME NEW v \in Version, NEW l \in Label, NEW w, IsSeq(w), NEW i \in 1..Len(w)
  PROVE  /\ l \in Range(w[i].refs) =>
              History(v, w, l)[i] = Append(History(v, w, l)[i - 1], <<"COMMAND_LINE", w[i].text>>)
         /\ l \notin Range(w[i].refs) => History(v, w, l)[i] = History(v, w, l)[i - 1]
<1>1. i \in 0..Len(w) /\ i # 0
  BY SeqIs DEF IsSeq
<1>2. History(v, w, l)[i] = ToldSteps(History(v, w, l), v, w, l)[i]
  BY HistoryIs
<1> QED BY <1>1, <1>2 DEF ToldSteps

LEMMA HistorySeq ==
  ASSUME NEW v \in Version, NEW l \in Label, NEW w, IsSeq(w), NEW n \in 0..Len(w)
  PROVE  IsSeq(History(v, w, l)[n])
<1> DEFINE H == History(v, w, l)
           Bad == {i \in 0..Len(w) : ~IsSeq(H[i])}
<1> HIDE DEF H
<1>1. Len(w) \in Nat
  BY SeqIs DEF IsSeq
<1>2. ASSUME NEW s, IsSeq(s), NEW e PROVE IsSeq(Append(s, e))
  <2>1. s \in Seq(Range(s) \cup {e})
    <3>1. \A A, B : Seq(A) \subseteq Seq(A \cup B)
      OBVIOUS
    <3> QED BY <1>2, <3>1 DEF IsSeq
  <2>2. Append(s, e) \in Seq(Range(s) \cup {e})
    BY <2>1
  <2> QED BY <2>2, SeqIs
<1>3. ASSUME Bad # {} PROVE FALSE
  <2>1. PICK m \in Bad : \A k \in Bad : m <= k
    <3>1. Bad \in SUBSET Nat
      BY <1>1
    <3> HIDE DEF Bad
    <3> QED BY <1>3, <3>1, Smallest
  <2>2. m # 0
    <3>1. H[0] = [k \in DOMAIN Layers(v, l) |-> Layers(v, l)[k].source]
      BY HistoryStarts DEF H
    <3>2. Len(Layers(v, l)) \in Nat /\ DOMAIN Layers(v, l) = 1..Len(Layers(v, l))
      BY LayersAre, SeqIs DEF IsSeq
    <3>3. IsSeq(H[0])
      BY <3>1, <3>2, TableIs
    <3> QED BY <3>3
  <2>3. m \in 1..Len(w) /\ m - 1 \in 0..Len(w) /\ ~(m <= m - 1)
    BY <1>1, <2>2
  <2>4. IsSeq(H[m - 1])
    BY <2>1, <2>3
  <2>5. H[m] = Append(H[m - 1], <<"COMMAND_LINE", w[m].text>>) \/ H[m] = H[m - 1]
    <3>1. CASE l \in Range(w[m].refs)
      BY <2>3, <3>1, HistoryNext DEF H
    <3>2. CASE l \notin Range(w[m].refs)
      BY <2>3, <3>2, HistoryNext DEF H
    <3> QED BY <3>1, <3>2
  <2>6. IsSeq(H[m])
    BY <1>2, <2>4, <2>5
  <2> QED BY <2>6
<1> QED BY <1>3 DEF H

(* Each of these sources gave the payload that the next one found.         *)
Chained(rs, X, srcs) == \A k \in 1..Len(srcs) : Row(X[k], srcs[k], X[k - 1]) \in Range(rs)
Chain(rs, own, srcs, h) ==
  \E X : X[0] = own /\ X[Len(srcs)] = h /\ Chained(rs, X, srcs)

(* No two rows have one hash, and none that of the file's payload.         *)
Tells(rs, own) ==
  \A a \in Range(rs) : a.hash # own /\ \A b \in Range(rs) : a.hash = b.hash => a = b

LEMMA ClearTells ==
  ASSUME NEW l, NEW own
  PROVE  ~Collision(l, own) <=> Tells(rows[l], own)
BY DEF Collision, Tells

(* A payload does not come twice on a chain: from its two places the same  *)
(* rows would lead back, and the first to the file's payload.              *)
LEMMA NoneTwice ==
  ASSUME NEW rs, NEW own, Tells(rs, own), NEW srcs, Len(srcs) \in Nat,
         NEW X, X[0] = own, Chained(rs, X, srcs),
         NEW a \in 0..Len(srcs), NEW b \in 0..Len(srcs), a < b
  PROVE  X[a] # X[b]
<1> SUFFICES ASSUME X[a] = X[b] PROVE FALSE OBVIOUS
<1> DEFINE K == Len(srcs)
           Bad == {n \in 0..a : X[a - n] # X[b - n]}
<1> HIDE DEF K
<1>0. K \in Nat /\ a \in 0..K /\ b \in 0..K
  BY DEF K
<1>1. \A k \in 1..K : Row(X[k], srcs[k], X[k - 1]) \in Range(rs)
  BY DEF Chained, K
<1>2. ASSUME NEW j \in 1..K, NEW k \in 1..K, X[j] = X[k] PROVE X[j - 1] = X[k - 1]
  <2>1. Row(X[j], srcs[j], X[j - 1]) = Row(X[k], srcs[k], X[k - 1])
    BY <1>1, <1>2 DEF Tells, Row
  <2> QED BY <2>1 DEF Row
<1>3. ASSUME Bad # {} PROVE FALSE
  <2>1. PICK m \in Bad : \A k \in Bad : m <= k
    <3>1. Bad \in SUBSET Nat
      BY <1>0
    <3> HIDE DEF Bad
    <3> QED BY <1>3, <3>1, Smallest
  <2>2. m # 0
    <3> SUFFICES ASSUME m = 0 PROVE FALSE OBVIOUS
    <3>1. a - 0 = a /\ b - 0 = b
      BY <1>0
    <3> QED BY <3>1
  <2>3. m - 1 \in 0..a /\ ~(m <= m - 1)
    BY <1>0, <2>2
  <2>4. X[a - (m - 1)] = X[b - (m - 1)]
    BY <2>1, <2>3
  <2>5. a - (m - 1) \in 1..K /\ b - (m - 1) \in 1..K
    BY <1>0, <2>2
  <2>6. (a - (m - 1)) - 1 = a - m /\ (b - (m - 1)) - 1 = b - m
    BY <1>0
  <2>7. X[(a - (m - 1)) - 1] = X[(b - (m - 1)) - 1]
    BY <1>2, <2>4, <2>5
  <2>8. X[a - m] = X[b - m]
    BY <2>6, <2>7
  <2> QED BY <2>8
<1>4. a \in 0..a /\ a - a = 0 /\ b - a \in 1..K
  BY <1>0
<1>5. X[0] = X[b - a]
  BY <1>3, <1>4
<1>6. Row(X[b - a], srcs[b - a], X[b - a - 1]) \in Range(rs)
  BY <1>1, <1>4
<1>7. Row(X[b - a], srcs[b - a], X[b - a - 1]).hash = own
  BY <1>5 DEF Row
<1> QED BY <1>6, <1>7 DEF Tells

(* What the database finds under each of the payloads of a chain.          *)
LEMMA NewestIs ==
  ASSUME NEW rs, IsSeq(rs), NEW own, Tells(rs, own), NEW e \in Range(rs)
  PROVE  Events(rs, e.hash) # {} /\ Newest(rs, e.hash) = e
<1> DEFINE I == Events(rs, e.hash)
<1>1. Len(rs) \in Nat /\ DOMAIN rs = 1..Len(rs)
  BY SeqIs DEF IsSeq
<1>2. I \in SUBSET (1..Len(rs)) /\ I # {}
  BY <1>1 DEF Events, Range
<1>3. \E i \in I : \A j \in I : j <= i
  <2> HIDE DEF I
  <2> QED BY <1>1, <1>2, Greatest
<1> DEFINE i == CHOOSE i \in I : \A j \in I : j <= i
<1>4. i \in I
  BY <1>3
<1>5. rs[i].hash = e.hash /\ rs[i] \in Range(rs)
  <2> HIDE DEF i
  <2> QED BY <1>4 DEF Events, Range
<1>6. Newest(rs, e.hash) = rs[i]
  BY DEF Newest
<1> QED
  <2> HIDE DEF i, I
  <2>1. rs[i] = e
    BY <1>5 DEF Tells
  <2> QED BY <1>2, <1>6, <2>1 DEF I

(* A chain has a row of its own for each of its sources.                   *)
LEMMA ChainFits ==
  ASSUME NEW rs, IsSeq(rs), NEW own, Tells(rs, own), NEW srcs, Len(srcs) \in Nat,
         NEW X, X[0] = own, Chained(rs, X, srcs)
  PROVE  Len(srcs) <= Len(rs)
<1> DEFINE K == Len(srcs)
           N == Len(rs)
           at == [k \in 1..K |-> CHOOSE i \in 1..N : rs[i].hash = X[k]]
<1>1. N \in Nat /\ DOMAIN rs = 1..N
  BY SeqIs DEF IsSeq
<1>2. ASSUME NEW k \in 1..K PROVE at[k] \in 1..N /\ rs[at[k]].hash = X[k]
  <2>1. Row(X[k], srcs[k], X[k - 1]) \in Range(rs)
    BY DEF Chained
  <2>2. PICK i \in 1..N : rs[i] = Row(X[k], srcs[k], X[k - 1])
    BY <1>1, <2>1 DEF Range
  <2>3. rs[i].hash = X[k]
    BY <2>2 DEF Row
  <2> QED BY <2>3
<1>3. at \in [1..K -> 1..N]
  BY <1>2
<1>4. ASSUME NEW j \in 1..K, NEW k \in 1..K, at[j] = at[k] PROVE j = k
  <2>1. X[j] = X[k]
    <3> HIDE DEF at
    <3> QED BY <1>2, <1>4
  <2>2. j \in 0..K /\ k \in 0..K /\ j \in Nat /\ k \in Nat
    OBVIOUS
  <2>3. ~(j < k)
    BY <2>1, <2>2, NoneTwice
  <2>4. ~(k < j)
    BY <2>1, <2>2, NoneTwice
  <2> QED BY <2>2, <2>3, <2>4
<1>5. at \in Injection(1..K, 1..N)
  <2> HIDE DEF at
  <2> QED BY <1>3, <1>4 DEF Injection, IsInjective
<1>6. /\ IsFiniteSet(1..N) /\ Cardinality(1..N) = N /\ Cardinality(1..K) = K
  <2>1. \A n \in Nat : IsFiniteSet(1..n) /\ Cardinality(1..n) = n
    <3> SUFFICES ASSUME NEW n \in Nat PROVE IsFiniteSet(1..n) /\ Cardinality(1..n) = n
      OBVIOUS
    <3>1. IsFiniteSet(1..n) /\ Cardinality(1..n) = IF 1 > n THEN 0 ELSE n - 1 + 1
      BY FS_Interval
    <3> QED BY <3>1
  <2> QED BY <1>1, <2>1
<1>7. Cardinality(1..K) <= Cardinality(1..N)
  <2> HIDE DEF at, K, N
  <2> QED BY <1>5, <1>6, FS_Injection
<1> QED BY <1>6, <1>7

(* The walk of materialized_lineage, in steps.                             *)
WalkStep(rs, w) ==
  IF w.hash \in w.seen \/ Events(rs, w.hash) = {} THEN w
  ELSE [hash |-> Newest(rs, w.hash).prev, seen |-> w.seen \cup {w.hash},
        out |-> <<Newest(rs, w.hash).source>> \o w.out]

WalkSteps(u, rs, h) ==
  [n \in 0..Len(rs) |-> IF n = 0 THEN [hash |-> h, seen |-> {}, out |-> <<>>]
                        ELSE WalkStep(rs, u[n - 1])]

(* Where it is on a chain after n of its sources.                          *)
Visited(X, srcs, n) ==
  [hash |-> X[Len(srcs) - n],
   seen |-> {X[Len(srcs) - i] : i \in 0..(n - 1)},
   out |-> [i \in 1..n |-> srcs[Len(srcs) - n + i]]]

LEMMA VisitNext ==
  ASSUME NEW rs, IsSeq(rs), NEW own, Tells(rs, own), NEW srcs, IsSeq(srcs),
         NEW X, X[0] = own, Chained(rs, X, srcs),
         NEW n \in Nat, n < Len(srcs)
  PROVE  WalkStep(rs, Visited(X, srcs, n)) = Visited(X, srcs, n + 1)
<1> DEFINE K == Len(srcs)
           w == Visited(X, srcs, n)
           e == Row(X[K - n], srcs[K - n], X[K - n - 1])
<1>1. K \in Nat /\ DOMAIN srcs = 1..K /\ K - n \in 1..K /\ K - n \in 0..K
  BY SeqIs DEF IsSeq
<1>2. w.hash = X[K - n] /\ w.seen = {X[K - i] : i \in 0..(n - 1)}
      /\ w.out = [i \in 1..n |-> srcs[K - n + i]]
  BY DEF Visited
<1>3. e \in Range(rs) /\ e.hash = X[K - n] /\ e.prev = X[K - n - 1] /\ e.source = srcs[K - n]
  BY <1>1 DEF Chained, Row
<1>4. Events(rs, w.hash) # {} /\ Newest(rs, w.hash) = e
  <2> HIDE DEF e, w
  <2> QED BY <1>2, <1>3, NewestIs
<1>5. w.hash \notin w.seen
  <2> SUFFICES ASSUME NEW i \in 0..(n - 1), X[K - n] = X[K - i] PROVE FALSE
    BY <1>2
  <2>1. K - i \in 0..K /\ K - n < K - i
    BY <1>1
  <2> QED BY <1>1, <2>1, NoneTwice
<1> DEFINE to == [hash |-> e.prev, seen |-> w.seen \cup {w.hash}, out |-> <<e.source>> \o w.out]
<1>6. WalkStep(rs, w) = to
  <2> HIDE DEF e, w
  <2> QED BY <1>4, <1>5 DEF WalkStep
<1>7. to.hash = X[K - (n + 1)]
  <2>1. K - n - 1 = K - (n + 1)
    BY <1>1
  <2> QED BY <1>3, <2>1
<1>8. w.seen \cup {w.hash} = {X[K - i] : i \in 0..((n + 1) - 1)}
  <2>1. 0..((n + 1) - 1) = (0..(n - 1)) \cup {n}
    OBVIOUS
  <2> HIDE DEF w, K
  <2>2. \A A : {X[K - i] : i \in A \cup {n}} = {X[K - i] : i \in A} \cup {X[K - n]}
    OBVIOUS
  <2> QED BY <1>2, <2>1, <2>2
<1>9. <<e.source>> \o w.out = [i \in 1..(n + 1) |-> srcs[K - (n + 1) + i]]
  <2> DEFINE out == [i \in 1..n |-> srcs[K - n + i]]
             all == [i \in 1..(n + 1) |-> srcs[K - (n + 1) + i]]
             S == Range(srcs)
  <2>1. \A i \in 1..K : srcs[i] \in S
    BY <1>1 DEF Range
  <2>2. \A i \in 1..n : K - n + i \in 1..K
    BY <1>1
  <2>3. out \in Seq(S) /\ Len(out) = n
    <3>1. \A i \in 1..n : srcs[K - n + i] \in S
      BY <2>1, <2>2
    <3> HIDE DEF S, K
    <3> QED BY <3>1
  <2>4. \A i \in 1..(n + 1) : K - (n + 1) + i \in 1..K
    BY <1>1
  <2>5. all \in Seq(S) /\ Len(all) = n + 1
    <3>1. \A i \in 1..(n + 1) : srcs[K - (n + 1) + i] \in S
      BY <2>1, <2>4
    <3> HIDE DEF S, K
    <3> QED BY <3>1
  <2>6. srcs[K - n] \in S
    BY <1>1, <2>1
  <2>7. /\ <<srcs[K - n]>> \o out \in Seq(S) /\ Len(<<srcs[K - n]>> \o out) = n + 1
        /\ (<<srcs[K - n]>> \o out)[1] = srcs[K - n]
        /\ \A i \in 1..n : (<<srcs[K - n]>> \o out)[i + 1] = out[i]
    <3> PICK x : x = srcs[K - n]
      OBVIOUS
    <3> HIDE DEF out, S, K
    <3> QED BY <2>3, <2>6
  <2>8. ASSUME NEW i \in 1..(n + 1) PROVE (<<srcs[K - n]>> \o out)[i] = all[i]
    <3>1. CASE i = 1
      <4>1. K - (n + 1) + 1 = K - n
        BY <1>1
      <4> QED BY <2>7, <3>1, <4>1
    <3>2. CASE i # 1
      <4>1. i - 1 \in 1..n /\ (i - 1) + 1 = i /\ K - n + (i - 1) = K - (n + 1) + i
        BY <1>1, <3>2
      <4>2. (<<srcs[K - n]>> \o out)[i] = out[i - 1]
        BY <2>7, <4>1
      <4> QED BY <4>1, <4>2
    <3> QED BY <3>1, <3>2
  <2>9. <<srcs[K - n]>> \o out = all
    <3> HIDE DEF out, all, S, K
    <3> QED BY <2>5, <2>7, <2>8, SeqEqual
  <2> QED BY <1>2, <1>3, <2>9
<1> QED
  <2> HIDE DEF e, w, K
  <2>1. to = [hash |-> X[K - (n + 1)], seen |-> {X[K - i] : i \in 0..((n + 1) - 1)},
              out |-> [i \in 1..(n + 1) |-> srcs[K - (n + 1) + i]]]
    BY <1>7, <1>8, <1>9
  <2> HIDE DEF to
  <2> QED BY <1>6, <2>1 DEF Visited, w, K

LEMMA VisitEnds ==
  ASSUME NEW rs, NEW own, Tells(rs, own), NEW srcs, Len(srcs) \in Nat,
         NEW X, X[0] = own
  PROVE  WalkStep(rs, Visited(X, srcs, Len(srcs))) = Visited(X, srcs, Len(srcs))
<1> DEFINE w == Visited(X, srcs, Len(srcs))
<1>1. w.hash = own
  BY DEF Visited
<1>2. Events(rs, w.hash) = {}
  <2> HIDE DEF w
  <2> QED BY <1>1 DEF Events, Tells, Range
<1> HIDE DEF w
<1> QED BY <1>2 DEF WalkStep, w

(* The walk from the end of a chain is the chain.                          *)
LEMMA WalkIs ==
  ASSUME NEW rs, IsSeq(rs), NEW own, Tells(rs, own), NEW srcs, IsSeq(srcs), NEW h,
         Chain(rs, own, srcs, h)
  PROVE  Walk(rs, h) = srcs
<1> DEFINE K == Len(srcs)
           N == Len(rs)
<1>1. PICK X : X[0] = own /\ X[K] = h /\ Chained(rs, X, srcs)
  BY DEF Chain
<1>2. K \in Nat /\ N \in Nat /\ K <= N /\ DOMAIN srcs = 1..K
  BY <1>1, SeqIs, ChainFits DEF IsSeq
<1> DEFINE at(n) == Visited(X, srcs, IF n <= K THEN n ELSE K)
           walk == CHOOSE u : u = WalkSteps(u, rs, h)
           f == [n \in 0..N |-> at(n)]
           Bad == {n \in 0..N : walk[n] # at(n)}
<1>3. at(0) = [hash |-> h, seen |-> {}, out |-> <<>>]
  <2>1. at(0) = Visited(X, srcs, 0)
    BY <1>2
  <2>2. K - 0 = K /\ {X[K - i] : i \in 0..(0 - 1)} = {} /\ [i \in 1..0 |-> srcs[K - 0 + i]] = <<>>
    BY <1>2
  <2> HIDE DEF K
  <2> QED BY <1>1, <2>1, <2>2 DEF Visited, K
<1>4. ASSUME NEW n \in 1..N PROVE at(n) = WalkStep(rs, at(n - 1))
  <2>1. CASE n <= K
    <3>1. n - 1 \in Nat /\ n - 1 < K /\ n - 1 <= K /\ (n - 1) + 1 = n
      BY <1>2, <2>1
    <3>2. WalkStep(rs, Visited(X, srcs, n - 1)) = Visited(X, srcs, (n - 1) + 1)
      BY <1>1, <3>1, VisitNext
    <3> QED BY <2>1, <3>1, <3>2
  <2>2. CASE ~(n <= K)
    <3>1. at(n) = Visited(X, srcs, K) /\ at(n - 1) = Visited(X, srcs, K)
      <4>1. n - 1 <= K => n - 1 = K
        BY <1>2, <2>2
      <4> QED BY <2>2, <4>1
    <3>2. WalkStep(rs, Visited(X, srcs, K)) = Visited(X, srcs, K)
      BY <1>1, <1>2, VisitEnds
    <3> QED BY <3>1, <3>2
  <2> QED BY <2>1, <2>2
<1> HIDE DEF at
<1>5. f = WalkSteps(f, rs, h)
  <2>1. ASSUME NEW n \in 0..N
        PROVE  f[n] = IF n = 0 THEN [hash |-> h, seen |-> {}, out |-> <<>>]
                      ELSE WalkStep(rs, f[n - 1])
    <3>1. CASE n = 0
      BY <1>2, <1>3, <3>1
    <3>2. CASE n # 0
      <4>1. n \in 1..N /\ n - 1 \in 0..N
        BY <1>2, <3>2
      <4> QED BY <1>4, <3>2, <4>1
    <3> QED BY <3>1, <3>2
  <2>2. f = [n \in 0..N |-> f[n]]
    OBVIOUS
  <2> HIDE DEF f
  <2> QED BY <2>1, <2>2 DEF WalkSteps
<1>6. walk = WalkSteps(walk, rs, h)
  <2> HIDE DEF f
  <2> QED BY <1>5
<1>7. Walk(rs, h) = walk[N].out
  BY DEF Walk, WalkSteps, WalkStep
<1> HIDE DEF walk, f
<1>8. /\ walk[0] = [hash |-> h, seen |-> {}, out |-> <<>>]
      /\ \A n \in 1..N : walk[n] = WalkStep(rs, walk[n - 1])
  <2>1. \A n \in 0..N : walk[n] = IF n = 0 THEN [hash |-> h, seen |-> {}, out |-> <<>>]
                                  ELSE WalkStep(rs, walk[n - 1])
    BY <1>6 DEF WalkSteps
  <2>2. 0 \in 0..N /\ \A n \in 1..N : n \in 0..N /\ n # 0
    BY <1>2
  <2> HIDE DEF N
  <2> QED BY <2>1, <2>2
<1>9. ASSUME Bad # {} PROVE FALSE
  <2>1. PICK m \in Bad : \A k \in Bad : m <= k
    <3>1. Bad \in SUBSET Nat
      BY <1>2
    <3> HIDE DEF Bad
    <3> QED BY <1>9, <3>1, Smallest
  <2>2. m # 0
    BY <1>3, <1>8
  <2>3. m \in 1..N /\ m - 1 \in 0..N /\ ~(m <= m - 1)
    BY <1>2, <2>2
  <2>4. walk[m - 1] = at(m - 1)
    BY <2>1, <2>3
  <2>5. walk[m] = at(m)
    BY <1>4, <1>8, <2>3, <2>4
  <2> QED BY <2>5
<1>10. walk[N] = Visited(X, srcs, K)
  <2>1. walk[N] = at(N)
    BY <1>2, <1>9
  <2>2. N <= K => N = K
    BY <1>2
  <2> QED BY <2>1, <2>2 DEF at
<1>11. Visited(X, srcs, K).out = [i \in 1..K |-> srcs[K - K + i]]
  BY DEF Visited
<1>12. [i \in 1..K |-> srcs[K - K + i]] = srcs
  <2>1. \A i \in 1..K : K - K + i = i
    BY <1>2
  <2>2. srcs = [i \in 1..K |-> srcs[i]]
    BY <1>2 DEF IsSeq
  <2> HIDE DEF K
  <2> QED BY <2>1, <2>2
<1> QED BY <1>7, <1>10, <1>11, <1>12

----------------------------------------------------------------------------
LEMMA BaseRowsAre ==
  ASSUME NEW v \in Version, NEW l \in Label
  PROVE  /\ IsSeq(BaseRows(v, l)) /\ Len(BaseRows(v, l)) = Len(Layers(v, l))
         /\ \A k \in 1..Len(Layers(v, l)) :
              Row(After(v, l, k), Layers(v, l)[k].source, After(v, l, k - 1))
                \in Range(BaseRows(v, l))
<1>1. Len(Layers(v, l)) \in Nat /\ DOMAIN Layers(v, l) = 1..Len(Layers(v, l))
  BY LayersAre, SeqIs DEF IsSeq
<1>2. BaseRows(v, l) = [k \in 1..Len(Layers(v, l)) |->
                          Row(After(v, l, k), Layers(v, l)[k].source, After(v, l, k - 1))]
  BY <1>1 DEF BaseRows, Previous
<1>3. IsSeq(BaseRows(v, l)) /\ Len(BaseRows(v, l)) = Len(Layers(v, l))
  BY <1>1, <1>2, TableIs
<1> QED BY <1>2, <1>3 DEF Range

LEMMA BaseChain ==
  ASSUME NEW v \in Version, NEW l \in Label, NEW w, IsSeq(w), NEW rs,
         Range(BaseRows(v, l)) \subseteq Range(rs)
  PROVE  Chain(rs, Own[v][l], History(v, w, l)[0], After(v, l, Len(Layers(v, l))))
<1> DEFINE K == Len(Layers(v, l))
           srcs == [n \in DOMAIN Layers(v, l) |-> Layers(v, l)[n].source]
           X == [k \in 0..K |-> After(v, l, k)]
<1>1. K \in Nat /\ DOMAIN Layers(v, l) = 1..K
  BY LayersAre, SeqIs DEF IsSeq
<1>2. History(v, w, l)[0] = srcs
  BY HistoryStarts
<1>3. Len(srcs) = K
  BY <1>1, TableIs
<1>4. X[0] = Own[v][l] /\ X[K] = After(v, l, K)
  BY <1>1 DEF After
<1>5. ASSUME NEW k \in 1..K PROVE Row(X[k], srcs[k], X[k - 1]) \in Range(rs)
  <2>1. X[k] = After(v, l, k) /\ X[k - 1] = After(v, l, k - 1) /\ srcs[k] = Layers(v, l)[k].source
    BY <1>1
  <2> HIDE DEF X, srcs
  <2> QED BY <2>1, BaseRowsAre
<1>6. Chained(rs, X, srcs)
  <2> HIDE DEF X, srcs, K
  <2> QED BY <1>3, <1>5 DEF Chained
<1> QED
  <2> HIDE DEF X, srcs, K
  <2> QED BY <1>2, <1>3, <1>4, <1>6 DEF Chain, K

LEMMA ChainGrows ==
  ASSUME NEW rs, NEW more, Range(rs) \subseteq Range(more), NEW own, NEW srcs, NEW h,
         Chain(rs, own, srcs, h)
  PROVE  Chain(more, own, srcs, h)
<1>1. PICK X : X[0] = own /\ X[Len(srcs)] = h /\ Chained(rs, X, srcs)
  BY DEF Chain
<1>2. Chained(more, X, srcs)
  BY <1>1 DEF Chained
<1> QED BY <1>1, <1>2 DEF Chain

LEMMA ChainLonger ==
  ASSUME NEW rs, NEW own, NEW srcs, IsSeq(srcs), NEW h, Chain(rs, own, srcs, h),
         NEW x, NEW src, Row(x, src, h) \in Range(rs)
  PROVE  Chain(rs, own, Append(srcs, src), x)
<1> DEFINE K == Len(srcs)
           all == Append(srcs, src)
<1>1. PICK X : X[0] = own /\ X[K] = h /\ Chained(rs, X, srcs)
  BY DEF Chain
<1>2. K \in Nat
  BY SeqIs DEF IsSeq
<1>3. Len(all) = K + 1 /\ all[K + 1] = src /\ \A k \in 1..K : all[k] = srcs[k]
  <2>1. srcs \in Seq(Range(srcs) \cup {src})
    <3>1. \A A, B : Seq(A) \subseteq Seq(A \cup B)
      OBVIOUS
    <3> QED BY <3>1 DEF IsSeq
  <2> QED BY <2>1
<1> HIDE DEF all, K
<1> DEFINE Y == [k \in 0..(K + 1) |-> IF k <= K THEN X[k] ELSE x]
<1>4. Y[0] = own /\ Y[K + 1] = x
  BY <1>1, <1>2
<1>5. ASSUME NEW k \in 1..(K + 1) PROVE Row(Y[k], all[k], Y[k - 1]) \in Range(rs)
  <2>1. k - 1 \in 0..(K + 1) /\ k - 1 <= K /\ Y[k - 1] = X[k - 1]
    BY <1>2
  <2>2. CASE k <= K
    <3>1. k \in 1..K /\ Y[k] = X[k]
      BY <1>2, <2>2
    <3>2. Row(X[k], srcs[k], X[k - 1]) \in Range(rs)
      BY <1>1, <3>1 DEF Chained, K
    <3> QED BY <1>3, <2>1, <3>1, <3>2
  <2>3. CASE ~(k <= K)
    <3>1. k = K + 1 /\ k - 1 = K
      BY <1>2, <2>3
    <3> QED BY <1>1, <1>3, <1>4, <2>1, <3>1
  <2> QED BY <2>2, <2>3
<1>6. Chained(rs, Y, all)
  <2> HIDE DEF Y
  <2> QED BY <1>3, <1>5 DEF Chained
<1> QED
  <2> HIDE DEF Y
  <2> QED BY <1>3, <1>4, <1>6 DEF Chain, all

----------------------------------------------------------------------------
RowsOK == rows = [l \in Label |-> rows[l]] /\ \A l \in Label : IsSeq(rows[l])

(* The rows of a workspace's layers are there once it is built.            *)
BaseWritten ==
  \A v \in Version, l \in Label :
    base[v].built /\ l \notin lost => Range(BaseRows(v, l)) \subseteq Range(rows[l])

Clear(v, l) == l \notin lost /\ ~Collision(l, Own[v][l])

(* How many of its overrides the loop has brought to l.                    *)
Done(r, l) == IF pos[r].i \in Assigned(r, l) THEN pos[r].i ELSE pos[r].i - 1

(* The refs that the current override has reached have the value that the  *)
(* loop carries, and the rows lead from what a request has of a value back *)
(* to what its file says, along the request's own history so far.          *)
Kept(r) == \A l \in Label :
  pos[r].i \in Assigned(r, l) => pos[r].value # NoData /\ req[r].data[l] = pos[r].value
Recorded(r) == \A l \in Label : Clear(req[r].ver, l) =>
  Chain(rows[l], Own[req[r].ver][l], History(req[r].ver, req[r].with, l)[Done(r, l)],
        req[r].data[l])

HistoryInv == RowsOK /\ BaseWritten /\ \A r \in Request : Live(r) => Kept(r) /\ Recorded(r)

RowsGrow ==
  /\ RowsOK'
  /\ \A l \in Label : Range(rows[l]) \subseteq Range(rows'[l]) /\ (l \notin lost' => l \notin lost)

LEMMA WriteGrows ==
  ASSUME RowsOK, NEW new, Write(new), \A l \in Label : IsSeq(new[l])
  PROVE  RowsGrow /\ \A l \in Label : l \notin lost' => Range(new[l]) \subseteq Range(rows'[l])
<1>1. PICK refused \in SUBSET {l \in Label : new[l] # <<>>} :
        /\ rows' = [l \in Label |-> IF l \in refused THEN rows[l] ELSE Insert(rows[l], new[l])]
        /\ lost' = lost \cup refused
  BY DEF Write
<1>2. ASSUME NEW l \in Label
      PROVE  /\ IsSeq(rows'[l]) /\ Range(rows[l]) \subseteq Range(rows'[l])
             /\ l \notin lost' => l \notin lost /\ Range(new[l]) \subseteq Range(rows'[l])
  <2>1. IsSeq(rows[l]) /\ IsSeq(new[l])
    BY DEF RowsOK
  <2>2. CASE l \in refused
    BY <1>1, <2>1, <2>2
  <2>3. CASE l \notin refused
    <3>1. rows'[l] = Insert(rows[l], new[l])
      BY <1>1, <2>3
    <3>2. IsSeq(Insert(rows[l], new[l]))
          /\ Range(Insert(rows[l], new[l])) = Range(rows[l]) \cup Range(new[l])
      BY <2>1, InsertIs
    <3> QED BY <1>1, <3>1, <3>2
  <2> QED BY <2>2, <2>3
<1>3. rows' = [l \in Label |-> rows'[l]]
  BY <1>1
<1> QED BY <1>2, <1>3 DEF RowsGrow, RowsOK

LEMMA StillClear ==
  ASSUME RowsGrow, NEW v, NEW l \in Label, Clear(v, l)'
  PROVE  Clear(v, l)
BY DEF RowsGrow, Clear, Collision

(* A request that assigns nothing has its history, whatever is written.    *)
LEMMA HistoryFrame ==
  ASSUME RowsGrow, NEW r, Kept(r), Recorded(r), pos'[r] = pos[r],
         req'[r].ver = req[r].ver, req'[r].with = req[r].with, req'[r].data = req[r].data
  PROVE  Kept(r)' /\ Recorded(r)'
<1>1. \A l : Assigned(r, l)' = Assigned(r, l)
  BY DEF Assigned
<1>2. Kept(r)'
  BY <1>1 DEF Kept
<1>3. ASSUME NEW l \in Label, Clear(req[r].ver, l)'
      PROVE  Chain(rows'[l], Own[req[r].ver][l],
                   History(req[r].ver, req[r].with, l)[Done(r, l)'], req[r].data[l])
  <2>1. Done(r, l)' = Done(r, l)
    BY <1>1 DEF Done
  <2>2. PICK v : v = req[r].ver
    OBVIOUS
  <2>3. Clear(v, l)
    BY <1>3, <2>2, StillClear
  <2>4. Range(rows[l]) \subseteq Range(rows'[l])
    BY DEF RowsGrow
  <2>5. Chain(rows[l], Own[req[r].ver][l], History(req[r].ver, req[r].with, l)[Done(r, l)],
              req[r].data[l])
    BY <2>2, <2>3 DEF Recorded
  <2> QED BY <2>1, <2>4, <2>5, ChainGrows
<1> QED BY <1>2, <1>3 DEF Recorded

LEMMA ForkHistory ==
  ASSUME RequestTypes, BaselineHolds, Unstarted, BaseWritten, RowsOK, NEW r \in Request, Fork(r)
  PROVE  Kept(r)' /\ Recorded(r)'
<1> PICK v \in Version, ask \in Asks :
    /\ base[v].built
    /\ req'[r] = [at |-> "with", ver |-> v, user |-> ask.user, with |-> ask.with,
                  data |-> base[v].data,
                  ctx |-> [f \in Field |-> Refresh(base[v].default[f], base[v].ctx[f],
                                                   FreshCtx(v, ask.user)[f])],
                  default |-> FreshCtx(v, ask.user)]
  BY Forks
<1>1. pos'[r].i = 1 /\ pos'[r].j = 1 /\ UNCHANGED <<rows, lost>>
  BY DEF Fork, Unstarted
<1>2. req'[r].ver = v /\ req'[r].with = ask.with /\ req'[r].data = base[v].data
  OBVIOUS
<1>3. base[v].data = [l \in Label |-> After(v, l, Len(Layers(v, l)))]
  BY DEF BaselineHolds
<1>4. ask.with \in Seq(Entry) /\ IsSeq(ask.with)
  <2>1. ask.with \in Seq(Entry)
    BY RequestConstants DEF Entry
  <2> QED BY <2>1, SeqIs
<1>5. \A l : Assigned(r, l)' = {}
  BY <1>1, <1>2, <1>4, RefsFromOne DEF Assigned
<1>6. Kept(r)'
  BY <1>5 DEF Kept
<1>7. ASSUME NEW l \in Label, l \notin lost
      PROVE  Chain(rows[l], Own[v][l], History(v, ask.with, l)[0], base[v].data[l])
  <2>1. Range(BaseRows(v, l)) \subseteq Range(rows[l])
    BY <1>7 DEF BaseWritten
  <2>2. base[v].data[l] = After(v, l, Len(Layers(v, l)))
    BY <1>3
  <2> QED BY <1>4, <2>1, <2>2, BaseChain
<1>8. \A l : Done(r, l)' = 0
  BY <1>1, <1>5 DEF Done
<1>9. Recorded(r)'
  BY <1>1, <1>2, <1>7, <1>8 DEF Recorded, Clear
<1> QED BY <1>6, <1>9

(* The current override reaches l for the first time, or again.            *)
LEMMA OverrideHistory ==
  ASSUME RequestTypes, RowsOK, NEW r \in Request, Loop(r), Kept(r), Recorded(r), Override(r)
  PROVE  RowsGrow /\ Kept(r)' /\ Recorded(r)'
<1> DEFINE w == req[r].with
           v == req[r].ver
           i0 == pos[r].i
           o == w[i0]
           data == req[r].data
<1> SUFFICES ASSUME NEW l, l = Ref(r), NEW x, x = Value(r, l)
             PROVE  RowsGrow /\ Kept(r)' /\ Recorded(r)'
  OBVIOUS
<1> DEFINE src == <<"COMMAND_LINE", o.text>>
           new == [k \in Label |-> IF k # l THEN <<>> ELSE <<Row(x, src, data[l])>>]
<1>1. More(r) /\ req[r].at = "with" /\ Assign(r, l, x) /\ Advance(r, x) /\ Write(new)
  BY DEF Override, Previous
<1>2. /\ i0 \in Nat \ {0} /\ pos[r].j \in Nat \ {0} /\ pos[r].j \in DOMAIN o.refs
      /\ o.refs \in Seq(Label) /\ l \in Label /\ l \in Range(o.refs) /\ w \in Seq(Entry)
      /\ o \in Entry /\ i0 \in 1..Len(w) /\ Len(w) \in Nat
  <2>1. i0 \in Nat \ {0} /\ pos[r].j \in Nat \ {0}
    BY DEF RequestTypes, PosShape
  <2>2. pos[r].j <= Len(o.refs)
    BY <1>1 DEF Loop, LoopStands
  <2>3. o.refs \in Seq(Label) /\ o \in Entry /\ i0 \in DOMAIN w
    BY <1>1, ReadOverride
  <2>4. pos[r].j \in DOMAIN o.refs
    BY <2>1, <2>2, <2>3
  <2>5. l = o.refs[pos[r].j]
    BY DEF Ref
  <2>6. l \in Range(o.refs)
    BY <2>4, <2>5 DEF Range
  <2>7. l \in Label
    <3>1. \A s \in Seq(Label) : \A j \in DOMAIN s : s[j] \in Label
      OBVIOUS
    <3> QED BY <2>3, <2>4, <2>5, <3>1
  <2>8. w \in Seq(Entry)
    BY DEF RequestTypes, RequestShape
  <2>9. Len(w) \in Nat /\ DOMAIN w = 1..Len(w)
    BY <2>8
  <2> QED BY <2>1, <2>3, <2>4, <2>6, <2>7, <2>8, <2>9
<1>3. /\ req'[r].with = w /\ req'[r].ver = v
      /\ req'[r].data = Put(data, l, x)
  <2>1. req'[r] = [at |-> req[r].at, ver |-> req[r].ver, user |-> req[r].user,
                   with |-> w, data |-> Put(req[r].data, l, x),
                   ctx |-> req[r].ctx, default |-> req[r].default]
    BY <1>1, Assigns
  <2> QED BY <1>1, <2>1
<1>4. /\ req'[r].data[l] = x
      /\ \A k \in Label \ {l} : req'[r].data[k] = data[k]
  BY <1>2, <1>3 DEF Put, Loop, LoopStands
<1>5. /\ pos[r].j < Len(o.refs) => pos'[r] = [i |-> i0, j |-> pos[r].j + 1, value |-> x]
      /\ ~(pos[r].j < Len(o.refs)) => pos'[r] = [i |-> i0 + 1, j |-> 1, value |-> NoData]
  BY <1>1, Advances
<1>6. ASSUME NEW k
      PROVE  /\ Assigned(r, k)' = IF k = l THEN Assigned(r, k) \cup {i0} ELSE Assigned(r, k)
             /\ i0 + 1 \notin Assigned(r, k)'
  <2>1. /\ Assigned(r, k)' = IF k = l THEN Assigned(r, k) \cup {i0} ELSE Assigned(r, k)
        /\ \A i \in Assigned(r, k) : i <= i0
    BY <1>1, <1>3, AssignedGrows DEF Loop
  <2>2. ~(i0 + 1 <= i0)
    BY <1>2
  <2> QED BY <1>2, <2>1, <2>2
<1>7. /\ x # NoData
      /\ pos[r].value # NoData => x = pos[r].value
  <2>1. Factor[l] \in Int /\ o.text \in Int
    BY <1>2, RequestConstants DEF Entry
  <2>2. Meant(l, o.text) \in Int
    BY <2>1 DEF Meant
  <2> QED BY <2>2, RequestConstants DEF Value
<1>8. RowsGrow /\ (l \notin lost' => Row(x, src, data[l]) \in Range(rows'[l]))
  <2>1. \A k \in Label : IsSeq(new[k])
    <3>1. IsSeq(<<>>) /\ IsSeq(<<Row(x, src, data[l])>>)
      <4>1. \A e : IsSeq(<<e>>)
        <5> TAKE e
        <5>1. <<e>> \in Seq({e})
          OBVIOUS
        <5> QED BY <5>1, SeqIs
      <4>2. IsSeq(<<>>)
        BY DEF IsSeq
      <4> QED BY <4>1, <4>2
    <3> QED BY <3>1
  <2>2. RowsGrow /\ \A k \in Label : k \notin lost' => Range(new[k]) \subseteq Range(rows'[k])
    <3> HIDE DEF new
    <3> QED BY <1>1, <2>1, WriteGrows
  <2>3. Row(x, src, data[l]) \in Range(new[l])
    <3>1. \A e : e \in Range(<<e>>)
      BY DEF Range
    <3> QED BY <1>2, <3>1
  <2> HIDE DEF new
  <2> QED BY <1>2, <2>2, <2>3
<1>9. Kept(r)'
  <2>1. CASE pos[r].j < Len(o.refs)
    <3>1. pos'[r].i = i0 /\ pos'[r].value = x
      BY <1>5, <2>1
    <3> SUFFICES ASSUME NEW k \in Label, i0 \in Assigned(r, k)'
                 PROVE  x # NoData /\ req'[r].data[k] = x
      BY <3>1 DEF Kept
    <3>2. CASE k = l
      BY <1>4, <1>7, <3>2
    <3>3. CASE k # l
      <4>1. pos[r].value # NoData /\ data[k] = pos[r].value
        BY <1>6, <3>3 DEF Kept
      <4> QED BY <1>4, <1>7, <3>3, <4>1
    <3> QED BY <3>2, <3>3
  <2>2. CASE ~(pos[r].j < Len(o.refs))
    <3>1. pos'[r].i = i0 + 1
      BY <1>5, <2>2
    <3> QED BY <1>6, <3>1 DEF Kept
  <2> QED BY <2>1, <2>2
(* What the loop has brought to a value after the step.                    *)
<1>10. ASSUME NEW k \in Label
       PROVE  /\ k = l => Done(r, k)' = i0
              /\ k # l => History(v, w, k)[Done(r, k)'] = History(v, w, k)[Done(r, k)]
  <2>1. pos'[r].i \in {i0, i0 + 1}
    BY <1>5
  <2>2. i0 \in Assigned(r, k)' => Done(r, k)' = i0
    <3>1. pos'[r].i = i0 + 1 => pos'[r].i - 1 = i0
      BY <1>2
    <3> QED BY <1>6, <2>1, <3>1 DEF Done
  <2>3. CASE k = l
    <3>1. i0 \in Assigned(r, k)'
      BY <1>6, <2>3
    <3> QED BY <2>2, <2>3, <3>1
  <2>4. CASE k # l
    <3>1. Assigned(r, k)' = Assigned(r, k)
      BY <1>6, <2>4
    <3>2. CASE i0 \in Assigned(r, k)
      BY <2>2, <2>4, <3>1, <3>2 DEF Done
    <3>3. CASE i0 \notin Assigned(r, k) /\ pos[r].j < Len(o.refs)
      <4>1. pos'[r].i = i0
        BY <1>5, <3>3
      <4>2. Done(r, k)' = Done(r, k)
        BY <3>1, <4>1 DEF Done
      <4> QED BY <2>4, <4>2
    <3>4. CASE i0 \notin Assigned(r, k) /\ ~(pos[r].j < Len(o.refs))
      <4>1. pos'[r].i = i0 + 1
        BY <1>5, <3>4
      <4>2. Done(r, k)' = i0 /\ Done(r, k) = i0 - 1
        <5>1. (i0 + 1) - 1 = i0
          BY <1>2
        <5> QED BY <1>6, <3>4, <4>1, <5>1 DEF Done
      <4>3. k \notin Range(o.refs)
        <5> SUFFICES ASSUME NEW j \in DOMAIN o.refs, o.refs[j] = k PROVE FALSE
          BY DEF Range
        <5>1. j \in Nat /\ j <= Len(o.refs) /\ Len(o.refs) \in Nat
          <6>1. Len(o.refs) \in Nat /\ DOMAIN o.refs = 1..Len(o.refs)
            <7> HIDE DEF o
            <7> QED BY <1>2, SeqIs
          <6> QED BY <6>1
        <5>2. j # pos[r].j
          BY <2>4 DEF Ref
        <5>3. j < pos[r].j
          BY <1>2, <3>4, <5>1, <5>2
        <5>4. i0 \in DOMAIN w
          BY <1>2
        <5>5. i0 \in Assigned(r, k)
          BY <5>3, <5>4 DEF Assigned
        <5> QED BY <3>4, <5>5
      <4>4. v \in Version /\ IsSeq(w)
        BY <1>1, <1>2, SeqIs DEF RequestTypes, RequestShape
      <4>5. History(v, w, k)[i0] = History(v, w, k)[i0 - 1]
        <5>1. i0 \in 1..Len(w) /\ k \notin Range(w[i0].refs)
          BY <1>2, <4>3
        <5> HIDE DEF v, w, i0, o
        <5> QED BY <4>4, <5>1, HistoryNext
      <4> QED BY <2>4, <4>2, <4>5
    <3> QED BY <3>2, <3>3, <3>4
  <2> QED BY <2>3, <2>4
<1>11. v \in Version /\ IsSeq(w)
  BY <1>1, <1>2, SeqIs DEF RequestTypes, RequestShape
<1>12. ASSUME NEW k \in Label, Clear(v, k)'
       PROVE  Chain(rows'[k], Own[v][k], History(v, w, k)[Done(r, k)], data[k])
  <2>1. Clear(v, k)
    <3> PICK u : u = v
      OBVIOUS
    <3>1. Clear(u, k)'
      BY <1>3, <1>12 DEF Clear, Collision
    <3>2. Clear(u, k)
      BY <1>8, <3>1, StillClear
    <3> QED BY <3>2
  <2>2. Range(rows[k]) \subseteq Range(rows'[k])
    BY <1>8 DEF RowsGrow
  <2>3. Chain(rows[k], Own[v][k], History(v, w, k)[Done(r, k)], data[k])
    BY <2>1 DEF Recorded
  <2> QED BY <2>2, <2>3, ChainGrows
<1>13. ASSUME Clear(v, l)'
       PROVE  Chain(rows'[l], Own[v][l], History(v, w, l)[i0], x)
  <2>1. Row(x, src, data[l]) \in Range(rows'[l])
    BY <1>8, <1>13 DEF Clear
  <2>2. l \in Label /\ i0 \in 1..Len(w) /\ l \in Range(w[i0].refs)
    BY <1>2
  <2>3. History(v, w, l)[i0] = Append(History(v, w, l)[i0 - 1], src)
    <3> HIDE DEF v, w, i0
    <3> QED BY <1>11, <2>2, HistoryNext DEF src, o
  <2>4. IsSeq(History(v, w, l)[i0 - 1])
    <3>1. i0 - 1 \in 0..Len(w)
      BY <1>2
    <3> HIDE DEF v, w, i0
    <3> QED BY <1>2, <1>11, <3>1, HistorySeq
  <2>5. Chain(rows'[l], Own[v][l], History(v, w, l)[Done(r, l)], data[l])
    BY <1>2, <1>12, <1>13
  <2>6. CASE i0 \in Assigned(r, l)
    <3>1. data[l] = x
      BY <1>2, <1>7, <2>6 DEF Kept
    <3> QED BY <2>5, <2>6, <3>1 DEF Done
  <2>7. CASE i0 \notin Assigned(r, l)
    <3>1. Chain(rows'[l], Own[v][l], History(v, w, l)[i0 - 1], data[l])
      BY <2>5, <2>7 DEF Done
    <3> HIDE DEF w, v, i0, data, src
    <3> QED BY <2>1, <2>3, <2>4, <3>1, ChainLonger
  <2> QED BY <2>6, <2>7
<1>14. Recorded(r)'
  <2> SUFFICES ASSUME NEW k \in Label, Clear(v, k)'
               PROVE  Chain(rows'[k], Own[v][k], History(v, w, k)[Done(r, k)'], req'[r].data[k])
    BY <1>3 DEF Recorded
  <2>1. CASE k = l
    BY <1>4, <1>10, <1>13, <2>1
  <2>2. CASE k # l
    BY <1>4, <1>10, <1>12, <2>2
  <2> QED BY <2>1, <2>2
<1> QED BY <1>8, <1>9, <1>14

LEMMA InitHistory == RequestsInit => HistoryInv
<1> SUFFICES ASSUME RequestsInit PROVE HistoryInv OBVIOUS
<1>1. RowsOK
  BY DEF RequestsInit, RowsOK, IsSeq
<1>2. BaseWritten /\ \A r \in Request : ~Live(r)
  BY DEF RequestsInit, BaseWritten, Nobody, Live
<1> QED BY <1>1, <1>2 DEF HistoryInv

(* What one request does leaves the others' histories as they were.        *)
LEMMA OneHistory ==
  ASSUME HistoryInv, RowsGrow, UNCHANGED base, NEW r \in Request,
         \A p \in Request \ {r} : req'[p] = req[p] /\ pos'[p] = pos[p],
         Live(r)' => Kept(r)' /\ Recorded(r)'
  PROVE  HistoryInv'
<1>1. ASSUME NEW p \in Request \ {r}, Live(p)' PROVE Kept(p)' /\ Recorded(p)'
  <2>1. Live(p) /\ req'[p] = req[p] /\ pos'[p] = pos[p]
    BY <1>1 DEF Live
  <2>2. Kept(p) /\ Recorded(p)
    BY <2>1 DEF HistoryInv
  <2> QED BY <2>1, <2>2, HistoryFrame
<1>2. BaseWritten'
  BY DEF HistoryInv, BaseWritten, RowsGrow
<1> QED BY <1>1, <1>2 DEF HistoryInv, RowsGrow

LEMMA SameRows == RowsOK /\ UNCHANGED <<rows, lost>> => RowsGrow
  BY DEF RowsOK, RowsGrow

LEMMA NextHistory ==
  RequestTypes /\ BaselineHolds /\ LInv /\ HistoryInv /\ [RequestsNext]_requestsVars => HistoryInv'
<1> SUFFICES ASSUME RequestTypes, BaselineHolds, LInv, HistoryInv, [RequestsNext]_requestsVars
             PROVE  HistoryInv'
  OBVIOUS
<1>0. RowsOK /\ BaseWritten
  BY DEF HistoryInv
<1>1. ASSUME UNCHANGED <<base, req, pos, rows, lost>> PROVE HistoryInv'
  <2>1. RowsGrow
    BY <1>0, <1>1, SameRows
  <2>2. ASSUME NEW p \in Request, Live(p)' PROVE Kept(p)' /\ Recorded(p)'
    <3>1. Live(p) /\ req'[p] = req[p] /\ pos'[p] = pos[p]
      BY <1>1, <2>2 DEF Live
    <3>2. Kept(p) /\ Recorded(p)
      BY <3>1 DEF HistoryInv
    <3> QED BY <2>1, <3>1, <3>2, HistoryFrame
  <2>3. BaseWritten'
    BY <1>0, <1>1 DEF BaseWritten
  <2> QED BY <2>1, <2>2, <2>3 DEF HistoryInv, RowsGrow
<1>2. ASSUME NEW v \in Version, Build(v) PROVE HistoryInv'
  <2> DEFINE new == [l \in Label |-> BaseRows(v, l)]
  <2>1. Write(new) /\ UNCHANGED <<req, pos>>
    BY <1>2 DEF Build
  <2>2. \A l \in Label : IsSeq(new[l])
    BY BaseRowsAre
  <2>3. RowsGrow /\ \A l \in Label : l \notin lost' => Range(BaseRows(v, l)) \subseteq Range(rows'[l])
    <3>1. RowsGrow /\ \A l \in Label : l \notin lost' => Range(new[l]) \subseteq Range(rows'[l])
      <4> HIDE DEF new
      <4> QED BY <1>0, <2>1, <2>2, WriteGrows
    <3> QED BY <3>1
  <2>4. \A u \in Version \ {v} : base'[u] = base[u]
    BY <1>2 DEF Build, RequestTypes
  <2>5. BaseWritten'
    BY <1>0, <2>3, <2>4 DEF BaseWritten, RowsGrow
  <2>6. ASSUME NEW p \in Request, Live(p)' PROVE Kept(p)' /\ Recorded(p)'
    <3>1. Live(p) /\ req'[p] = req[p] /\ pos'[p] = pos[p]
      BY <2>1, <2>6 DEF Live
    <3>2. Kept(p) /\ Recorded(p)
      BY <3>1 DEF HistoryInv
    <3> QED BY <2>3, <3>1, <3>2, HistoryFrame
  <2> QED BY <2>3, <2>5, <2>6 DEF HistoryInv, RowsGrow
<1>3. ASSUME NEW r \in Request, Fork(r) PROVE HistoryInv'
  <2>1. UNCHANGED <<base, pos, rows, lost>>
    BY <1>3 DEF Fork
  <2>2. Kept(r)' /\ Recorded(r)'
    BY <1>0, <1>3, ForkHistory DEF LInv
  <2>3. \A p \in Request \ {r} : req'[p] = req[p]
    <3>1. PICK x : req' = [req EXCEPT ![r] = x]
      BY <1>3 DEF Fork
    <3> QED BY <3>1 DEF RequestTypes
  <2>4. RowsGrow
    BY <1>0, <2>1, SameRows
  <2> QED BY <2>1, <2>2, <2>3, <2>4, OneHistory
<1>4. ASSUME NEW r \in Request, Override(r) PROVE HistoryInv'
  <2>1. Live(r) /\ UNCHANGED base
    BY <1>4, Progress DEF Live, Override
  <2>2. Loop(r)
    BY <2>1 DEF LInv, LoopHolds, Loop
  <2>3. Kept(r) /\ Recorded(r)
    BY <2>1 DEF HistoryInv
  <2>4. RowsGrow /\ Kept(r)' /\ Recorded(r)'
    BY <1>0, <1>4, <2>2, <2>3, OverrideHistory
  <2>5. \A p \in Request \ {r} : pos'[p] = pos[p]
    <3>1. PICK x : Advance(r, x)
      BY <1>4 DEF Override
    <3> QED BY <3>1, Advances
  <2>6. \A p \in Request \ {r} : req'[p] = req[p]
    BY <1>4, Progress
  <2> QED BY <2>1, <2>4, <2>5, <2>6, OneHistory
<1>5. ASSUME NEW r \in Request, Refuse(r) \/ Ready(r) \/ End(r) PROVE HistoryInv'
  <2>1. UNCHANGED <<base, pos, rows, lost>> /\ req[r].at \in {"with", "ready"}
    BY <1>5 DEF Refuse, Ready, End
  <2>2. PICK a : req' = [req EXCEPT ![r].at = a]
    BY <1>5 DEF Refuse, Ready, End
  <2>3. /\ \A p \in Request \ {r} : req'[p] = req[p]
        /\ req'[r] = [at |-> a, ver |-> req[r].ver, user |-> req[r].user, with |-> req[r].with,
                      data |-> req[r].data, ctx |-> req[r].ctx, default |-> req[r].default]
    BY <2>2, MovesOn
  <2>4. req'[r].ver = req[r].ver /\ req'[r].with = req[r].with /\ req'[r].data = req[r].data
    BY <2>3
  <2>5. Kept(r) /\ Recorded(r)
    BY <2>1 DEF HistoryInv, Live
  <2>6. RowsGrow
    BY <1>0, <2>1, SameRows
  <2>7. Kept(r)' /\ Recorded(r)'
    BY <2>1, <2>4, <2>5, <2>6, HistoryFrame
  <2> QED BY <2>1, <2>3, <2>6, <2>7, OneHistory
<1>6. ASSUME NEW r \in Request, DefineMethod(r) \/ Call(r) PROVE HistoryInv'
  BY <1>1, <1>6 DEF DefineMethod, Call
<1>7. CASE UNCHANGED requestsVars
  BY <1>1, <1>7 DEF requestsVars
<1> QED BY <1>2, <1>3, <1>4, <1>5, <1>6, <1>7 DEF RequestsNext

LEMMA OneLineage ==
  RequestTypes /\ LInv /\ HistoryInv => LineageIsOwnHistory
<1> SUFFICES ASSUME RequestTypes, LInv, HistoryInv, NEW r \in Request, Applied(r), NEW l \in Label,
                    NEW v, v = req[r].ver, Clear(v, l)
             PROVE  Walk(rows[l], req[r].data[l]) = History(v, req[r].with, l)[Len(req[r].with)]
  BY DEF LineageIsOwnHistory, Clear
<1> DEFINE w == req[r].with
           n == Len(w)
<1>1. Live(r) /\ pos[r].i = n + 1
  BY DEF LInv, LoopHolds, Loop, LoopStands, Live, Applied
<1>2. v \in Version /\ w \in Seq(Entry) /\ IsSeq(w) /\ n \in Nat
  <2>1. v \in Version /\ w \in Seq(Entry)
    BY DEF Applied, RequestTypes, RequestShape
  <2> QED BY <2>1, SeqIs
<1>3. Done(r, l) = n
  <2>1. n + 1 \notin DOMAIN w
    BY <1>2
  <2>2. n + 1 \notin Assigned(r, l)
    BY <2>1 DEF Assigned
  <2> QED BY <1>1, <1>2, <2>2 DEF Done
<1>4. Chain(rows[l], Own[v][l], History(v, w, l)[n], req[r].data[l])
  BY <1>1, <1>3 DEF HistoryInv, Recorded
<1>5. IsSeq(History(v, w, l)[n])
  <2>1. n \in 0..Len(w)
    BY <1>2
  <2> QED BY <1>2, <2>1, HistorySeq
<1>6. IsSeq(rows[l]) /\ Tells(rows[l], Own[v][l])
  BY ClearTells DEF HistoryInv, RowsOK, Clear
<1> QED
  <2> HIDE DEF w, n
  <2>1. Walk(rows[l], req[r].data[l]) = History(v, w, l)[n]
    BY <1>4, <1>5, <1>6, WalkIs
  <2> QED BY <2>1 DEF w, n

(* The rows lead back from what a configured request has of a value, by    *)
(* payload hashes, through exactly the overrides that it made of the value *)
(* and the layers under them, whatever other requests and builds write     *)
(* between, if no other row has the hash of one of them.                   *)
THEOREM LineageIsHistory == RequestsSpec => []LineageIsOwnHistory
<1>1. RequestsInit => RequestTypes /\ BaselineHolds /\ LInv /\ HistoryInv
  BY InitRequestTypes, InitBaseline, InitLInv, InitHistory
<1>2. /\ RequestTypes /\ BaselineHolds /\ LInv /\ HistoryInv /\ [RequestsNext]_requestsVars
      => (RequestTypes /\ BaselineHolds /\ LInv /\ HistoryInv)'
  BY NextRequestTypes, NextBaseline, NextLInv, NextHistory
<1> QED BY <1>1, <1>2, OneLineage, PTL DEF RequestsSpec

=================================================================================

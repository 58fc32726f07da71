----------------------------- MODULE ServersProofs -----------------------------
(***************************************************************************)
(* Theorems about ApiServer, for any requests of any clients and any number *)
(* of events and deaths; and about LanguageServer, for any documents, texts *)
(* and messages.                                                           *)
(***************************************************************************)
EXTENDS MCServers, SequenceTheorems, FiniteSetTheorems, TLAPS

Places == {"new", "wipe", "write", "start", "run", "target", "ending", "collected",
           "answering", "printing", "done"}
Kinds == {"started", "chunk", "result", "error", "log", "completed"}
Event == Kinds \X Requests
Answers == {"none", "refused", "done", "partial_error", "error", "cut"}

(* What each thread of the server has, and what they share.                *)
ThreadTypes ==
  /\ plan \in Plans /\ pc \in [Requests -> Places]
  /\ events \in [Requests -> Seq(Event)] /\ todo \in [Requests -> Nat]
  /\ \A r \in Requests : pc[r] = "target" => todo[r] > 0
  /\ conn \subseteq Requests /\ answer \in [Requests -> Answers]
FileTypes ==
  /\ history \in [st : {"absent", "whole", "empty", "torn"}, entries : Seq(Requests)]
  /\ snap \in [Requests -> Seq(Requests)] /\ recorded \in Seq(Requests)
  /\ quiet \in BOOLEAN
OutTypes ==
  /\ stdout \in Requests \cup {Terminal} /\ saved \in [Requests -> Requests \cup {Terminal}]
  /\ out \in [Requests -> Seq(Requests)] /\ mixed \subseteq {"verbatim", "show"}
Types == ThreadTypes /\ FileTypes /\ OutTypes

--------------------------------------------------------------------------------
(* The requests do not change while they are served.                       *)
LEMMA PlanIsFixed == [Next]_vars => plan' = plan /\ Requests' = Requests /\ Event' = Event
<1> SUFFICES ASSUME [Next]_vars PROVE plan' = plan
  BY DEF Requests, Event
<1>1. CASE UNCHANGED vars
  BY <1>1 DEF vars
<1>2. CASE Die
  BY <1>2 DEF Die
<1>3. ASSUME NEW r \in Requests,
             \/ Reject(r) \/ LoadHistory(r) \/ WipeHistory(r) \/ WriteHistory(r)
             \/ PersistFails(r)
      PROVE  plan' = plan
  BY <1>3 DEF Reject, LoadHistory, WipeHistory, WriteHistory, PersistFails, commandVars
<1>4. ASSUME NEW r \in Requests,
             \/ Start(r) \/ Log(r) \/ OpenTarget(r) \/ Label(r) \/ EndTarget(r) \/ TargetFails(r)
             \/ CommandFails(r) \/ Unsupported(r) \/ Exhausted(r) \/ Complete(r) \/ Disconnect(r)
             \/ StageFails(r) \/ StoreLogs(r) \/ Answer(r)
             \/ Swap(r) \/ PrintOut(r) \/ PrintLoading(r) \/ Restore(r)
      PROVE  plan' = plan
  BY <1>4 DEF Start, Log, OpenTarget, Label, EndTarget, TargetFails, CommandFails,
     Unsupported, Exhausted, Complete, Disconnect, StageFails, StoreLogs, Answer,
     Swap, PrintOut, PrintLoading, Restore, fileVars
<1> QED BY <1>1, <1>2, <1>3, <1>4 DEF Next

LEMMA Emitted ==
  ASSUME ThreadTypes, NEW r \in Requests, NEW kind \in Kinds, Emit(r, kind)
  PROVE  events' \in [Requests -> Seq(Event)]
<1>1. <<kind, r>> \in Event
  BY DEF Event
<1>2. Append(events[r], <<kind, r>>) \in Seq(Event)
  BY <1>1, AppendProperties DEF ThreadTypes
<1> QED BY <1>2 DEF ThreadTypes, Emit

LEMMA InitTypes == Init => Types
<1> SUFFICES ASSUME Init PROVE Types
  OBVIOUS
<1>1. \A r \in Requests : plan[r].targets \in Nat
  BY ConstantsOK DEF Init, Requests
<1>2. ThreadTypes
  BY <1>1 DEF Init, ThreadTypes, Places, Answers
<1>3. FileTypes
  BY DEF Init, FileTypes, File
<1>4. OutTypes
  <2>1. stdout = Terminal /\ saved \in [Requests -> {Terminal}] /\ mixed = {}
    BY DEF Init
  <2>2. <<>> \in Seq(Requests) /\ out = [r \in Requests |-> <<>>]
    BY DEF Init
  <2>3. out \in [Requests -> Seq(Requests)]
    BY <2>2
  <2> QED BY <2>1, <2>3 DEF OutTypes
<1> QED BY <1>2, <1>3, <1>4 DEF Types

LEMMA NextThreadTypes ==
  ASSUME ThreadTypes, [Next]_vars
  PROVE  ThreadTypes'
<1>0. plan' = plan /\ Requests' = Requests /\ Event' = Event
  BY PlanIsFixed
<1>1. CASE UNCHANGED vars
  BY <1>0, <1>1 DEF vars, ThreadTypes
<1>2. CASE Die
  BY <1>0, <1>2 DEF Die, ThreadTypes, Places, Answers
<1>3. ASSUME NEW r \in Requests,
             \/ Reject(r) \/ LoadHistory(r) \/ WipeHistory(r) \/ WriteHistory(r)
             \/ PersistFails(r)
      PROVE  ThreadTypes'
  BY <1>0, <1>3 DEF Reject, LoadHistory, WipeHistory, WriteHistory, PersistFails, commandVars,
     Go, ThreadTypes, Places, Answers
<1>4. ASSUME NEW r \in Requests,
             \/ EndTarget(r) \/ Exhausted(r) \/ Disconnect(r)
             \/ StageFails(r) \/ StoreLogs(r) \/ Answer(r)
             \/ Swap(r) \/ PrintOut(r) \/ PrintLoading(r) \/ Restore(r)
      PROVE  ThreadTypes'
  <2>1. CASE EndTarget(r)
    BY <2>1, <1>0 DEF EndTarget, Go, ThreadTypes, Places, Answers
  <2>2. CASE Exhausted(r)
    BY <2>2, <1>0 DEF Exhausted, Go, ThreadTypes, Places, Answers
  <2>3. CASE Disconnect(r)
    BY <2>3, <1>0 DEF Disconnect, Go, ThreadTypes, Places, Answers
  <2>4. CASE StageFails(r)
    BY <2>4, <1>0 DEF StageFails, Go, ThreadTypes, Places, Answers
  <2>5. CASE StoreLogs(r)
    BY <2>5, <1>0 DEF StoreLogs, Go, ThreadTypes, Places, Answers
  <2>6. CASE Answer(r)
    BY <2>6, <1>0 DEF Answer, Go, ThreadTypes, Places, Answers
  <2>7. CASE Swap(r)
    BY <2>7, <1>0 DEF Swap, Go, ThreadTypes, Places, Answers
  <2>8. CASE PrintOut(r)
    BY <2>8, <1>0 DEF PrintOut, Go, ThreadTypes, Places, Answers
  <2>10. CASE PrintLoading(r)
    BY <2>10, <1>0 DEF PrintLoading, ThreadTypes
  <2>9. CASE Restore(r)
    BY <2>9, <1>0 DEF Restore, Go, ThreadTypes, Places, Answers
  <2> QED BY <1>4, <2>1, <2>2, <2>3, <2>4, <2>5, <2>6, <2>7, <2>8, <2>9, <2>10
<1>5. ASSUME NEW r \in Requests,
             \/ Start(r) \/ OpenTarget(r) \/ Label(r) \/ TargetFails(r)
             \/ CommandFails(r) \/ Unsupported(r) \/ Complete(r)
      PROVE  ThreadTypes'
  <2>1. \E kind \in Kinds : Emit(r, kind)
    BY <1>5 DEF Start, OpenTarget, Label, TargetFails, CommandFails, Unsupported, Complete, Kinds
  <2>2. events' \in [Requests -> Seq(Event)]
    BY <2>1, Emitted
  <2>3. Status(r) \in Answers
    BY DEF Status, Answers
  <2>4. CASE Start(r)
    BY <2>4, <1>0, <2>2 DEF Start, Go, ThreadTypes, Places
  <2>5. CASE OpenTarget(r)
    BY <2>5, <1>0, <2>2 DEF OpenTarget, Go, ThreadTypes, Places
  <2>6. CASE Label(r)
    BY <2>6, <1>0, <2>2 DEF Label, Go, ThreadTypes, Places
  <2>7. CASE TargetFails(r)
    <3>1. pc[r] = "target" /\ todo[r] \in Nat /\ todo[r] > 0
      BY <2>7 DEF TargetFails, Go, ThreadTypes
    <3>2. todo' \in [Requests -> Nat]
      BY <2>7, <3>1 DEF TargetFails, ThreadTypes
    <3> QED BY <2>7, <1>0, <2>2, <3>2 DEF TargetFails, Go, ThreadTypes, Places
  <2>8. CASE CommandFails(r)
    BY <2>8, <1>0, <2>2 DEF CommandFails, Go, ThreadTypes, Places
  <2>9. CASE Unsupported(r)
    BY <2>9, <1>0, <2>2 DEF Unsupported, Go, ThreadTypes, Places
  <2>10. CASE Complete(r)
    BY <2>10, <1>0, <2>2, <2>3 DEF Complete, Go, ThreadTypes, Places
  <2> QED BY <1>5, <2>4, <2>5, <2>6, <2>7, <2>8, <2>9, <2>10
<1>6. ASSUME NEW r \in Requests, Log(r)
      PROVE  ThreadTypes'
  <2>1. <<"log", r>> \in Event
    BY DEF Event, Kinds
  <2>2. \A h \in Requests : Append(events[h], <<"log", r>>) \in Seq(Event)
    BY <2>1, AppendProperties DEF ThreadTypes
  <2>3. events' \in [Requests -> Seq(Event)]
    BY <1>6, <2>2 DEF Log, ThreadTypes
  <2> QED BY <1>0, <1>6, <2>3 DEF Log, ThreadTypes
<1> QED BY <1>1, <1>2, <1>3, <1>4, <1>5, <1>6 DEF Next

(* A command writes neither the history file nor, unless it is verbatim,    *)
(* to the process's stdout.                                                *)
LEMMA NextFileTypes ==
  ASSUME ThreadTypes, FileTypes, [Next]_vars
  PROVE  FileTypes'
<1>0. plan' = plan /\ Requests' = Requests
  BY PlanIsFixed
<1>1. CASE UNCHANGED vars
  BY <1>0, <1>1 DEF vars, FileTypes
<1>2. CASE Die
  BY <1>0, <1>2 DEF Die, FileTypes
<1>3. ASSUME NEW r \in Requests, Reject(r)
      PROVE  FileTypes'
  BY <1>0, <1>3 DEF Reject, FileTypes
<1>4. ASSUME NEW r \in Requests, LoadHistory(r)
      PROVE  FileTypes'
  <2>1. LoadEntries \in Seq(Requests)
    BY DEF LoadEntries, FileTypes
  <2> QED BY <1>0, <1>4, <2>1 DEF LoadHistory, FileTypes
<1>5. ASSUME NEW r \in Requests, WipeHistory(r)
      PROVE  FileTypes'
  BY <1>0, <1>5 DEF WipeHistory, FileTypes, File
<1>6. ASSUME NEW r \in Requests, WriteHistory(r)
      PROVE  FileTypes'
  <2>1. NewEntries(r) \in Seq(Requests) /\ Append(recorded, r) \in Seq(Requests)
    BY AppendProperties DEF NewEntries, FileTypes
  <2>2. /\ recorded' \in Seq(Requests) /\ UNCHANGED <<snap, quiet>>
        /\ history' \in {File("whole", NewEntries(r)), File("torn", <<>>)}
    BY <1>6, <2>1 DEF WriteHistory
  <2>3. history' \in [st : {"absent", "whole", "empty", "torn"}, entries : Seq(Requests)]
    <3>1. <<>> \in Seq(Requests)
      OBVIOUS
    <3>2. \A es \in Seq(Requests) : /\ File("whole", es) \in [st : {"whole"}, entries : Seq(Requests)]
                                   /\ File("torn", es) \in [st : {"torn"}, entries : Seq(Requests)]
      BY DEF File
    <3>3. \/ history' \in [st : {"whole"}, entries : Seq(Requests)]
          \/ history' \in [st : {"torn"}, entries : Seq(Requests)]
      BY <2>1, <2>2, <3>1, <3>2
    <3> QED BY <3>3
  <2> QED BY <1>0, <2>2, <2>3 DEF FileTypes
<1>7. ASSUME NEW r \in Requests, PersistFails(r)
      PROVE  FileTypes'
  BY <1>0, <1>7 DEF PersistFails, FileTypes, File
<1>8. ASSUME UNCHANGED fileVars
      PROVE  FileTypes'
  BY <1>0, <1>8 DEF fileVars, FileTypes
<1>9. ASSUME NEW r \in Requests,
             \/ Start(r) \/ Log(r) \/ OpenTarget(r) \/ Label(r) \/ EndTarget(r) \/ TargetFails(r)
             \/ CommandFails(r) \/ Unsupported(r) \/ Exhausted(r) \/ Complete(r) \/ Disconnect(r)
             \/ StageFails(r) \/ StoreLogs(r) \/ Answer(r)
             \/ Swap(r) \/ PrintOut(r) \/ PrintLoading(r) \/ Restore(r)
      PROVE  UNCHANGED fileVars
  BY <1>9 DEF Start, Log, OpenTarget, Label, EndTarget, TargetFails, CommandFails,
     Unsupported, Exhausted, Complete, Disconnect, StageFails, StoreLogs, Answer,
     Swap, PrintOut, PrintLoading, Restore
<1> QED BY <1>1, <1>2, <1>3, <1>4, <1>5, <1>6, <1>7, <1>8, <1>9 DEF Next

--------------------------------------------------------------------------------
(* SerialHistoryIsComplete.  As long as appends are serial there is at most *)
(* one, which has loaded what is recorded, and only between its emptying    *)
(* and its writing is the file anything but that.                          *)
OneAppends == \A r, s \in Appending : r = s
LoadedAll == \A r \in Appending : snap[r] = recorded
FileIsRecorded == (\A r \in Requests : pc[r] # "write") => LoadEntries = recorded
FileIsEmpty == \A r \in Requests : pc[r] = "write" => history.st = "empty"
HistoryInv == quiet => OneAppends /\ LoadedAll /\ FileIsRecorded /\ FileIsEmpty

LEMMA NextHistory ==
  ASSUME ThreadTypes, FileTypes, HistoryInv, [Next]_vars
  PROVE  HistoryInv'
<1> USE DEF OneAppends, LoadedAll, FileIsRecorded, FileIsEmpty, Appending, LoadEntries
<1>0. plan' = plan /\ Requests' = Requests
  BY PlanIsFixed
<1>1. CASE UNCHANGED vars
  BY <1>0, <1>1 DEF vars, HistoryInv
<1>2. CASE Die
  BY <1>0, <1>2 DEF Die, HistoryInv, ThreadTypes, FileTypes
<1>3. ASSUME NEW r \in Requests, Reject(r)
      PROVE  HistoryInv'
  BY <1>0, <1>3 DEF Reject, Go, HistoryInv, ThreadTypes
<1>4. ASSUME NEW r \in Requests, LoadHistory(r)
      PROVE  HistoryInv'
  <2>1. /\ pc[r] = "new" /\ pc' = [pc EXCEPT ![r] = "wipe"]
        /\ snap' = [snap EXCEPT ![r] = LoadEntries]
        /\ quiet' = (quiet /\ Appending = {}) /\ UNCHANGED <<history, recorded>>
    BY <1>4 DEF LoadHistory, Go
  <2>2. /\ pc'[r] = "wipe" /\ snap'[r] = LoadEntries
        /\ \A q \in Requests \ {r} : pc'[q] = pc[q] /\ snap'[q] = snap[q]
    BY <2>1 DEF ThreadTypes, FileTypes
  <2>3. CASE quiet /\ Appending = {}
    <3>1. Appending' = {r}
      BY <1>0, <2>2, <2>3
    <3>2. LoadEntries = recorded
      BY <2>3 DEF HistoryInv
    <3>3. LoadEntries' = recorded'
      BY <2>1, <3>2
    <3>4. \A q \in Requests : pc'[q] # "write"
      BY <2>2, <2>3
    <3> QED BY <1>0, <2>1, <2>2, <3>1, <3>2, <3>3, <3>4 DEF HistoryInv
  <2>4. CASE ~(quiet /\ Appending = {})
    BY <2>1, <2>4 DEF HistoryInv
  <2> QED BY <2>3, <2>4
<1>5. ASSUME NEW r \in Requests, WipeHistory(r)
      PROVE  HistoryInv'
  <2>1. /\ pc[r] = "wipe" /\ pc'[r] = "write"
        /\ \A q \in Requests \ {r} : pc'[q] = pc[q]
        /\ history'.st = "empty" /\ UNCHANGED <<snap, quiet, recorded>>
    BY <1>5 DEF WipeHistory, Go, ThreadTypes, File
  <2>2. Appending' = Appending
    BY <1>0, <2>1
  <2> QED BY <1>0, <2>1, <2>2 DEF HistoryInv
<1>6. ASSUME NEW r \in Requests, WriteHistory(r)
      PROVE  HistoryInv'
  <2>1. /\ pc[r] = "write" /\ pc'[r] = "start"
        /\ \A q \in Requests \ {r} : pc'[q] = pc[q]
        /\ recorded' = Append(recorded, r) /\ UNCHANGED <<snap, quiet>>
        /\ \/ history' = File("whole", Append(snap[r], r))
           \/ history.st # "empty"
    BY <1>6 DEF WriteHistory, NewEntries, Go, ThreadTypes
  <2>2. CASE quiet
    <3>1. Appending = {r} /\ snap[r] = recorded /\ history.st = "empty"
      BY <2>1, <2>2 DEF HistoryInv
    <3>2. Appending' = {}
      BY <1>0, <2>1, <3>1
    <3>3. history' = File("whole", recorded')
      BY <2>1, <3>1
    <3>4. LoadEntries' = recorded'
      BY <3>3 DEF File
    <3> QED BY <1>0, <3>2, <3>4 DEF HistoryInv
  <2>3. CASE ~quiet
    BY <2>1, <2>3 DEF HistoryInv
  <2> QED BY <2>2, <2>3
<1>7. ASSUME NEW r \in Requests, PersistFails(r)
      PROVE  HistoryInv'
  <2>1. /\ pc[r] \in {"new", "wipe", "write"} /\ pc'[r] = "start"
        /\ \A q \in Requests \ {r} : pc'[q] = pc[q]
        /\ UNCHANGED <<snap, recorded>> /\ quiet' = (quiet /\ pc[r] # "write")
        /\ pc[r] # "write" => history' = history
    BY <1>7 DEF PersistFails, ThreadTypes
  <2>2. CASE pc[r] = "write"
    BY <2>1, <2>2 DEF HistoryInv
  <2>3. CASE pc[r] # "write"
    <3>1. Appending' \subseteq Appending
      BY <1>0, <2>1
    <3>2. CASE ~quiet
      BY <2>1, <3>2 DEF HistoryInv
    <3>3. CASE quiet
      <4>1. LoadEntries' = LoadEntries
        BY <2>1, <2>3
      <4>2. \A q \in Requests : pc'[q] = "write" <=> pc[q] = "write"
        BY <2>1, <2>3
      <4>3. OneAppends /\ LoadedAll /\ FileIsRecorded /\ FileIsEmpty
        BY <3>3 DEF HistoryInv
      <4>4. OneAppends' /\ LoadedAll'
        BY <2>1, <3>1, <4>3
      <4>5. FileIsRecorded' /\ FileIsEmpty'
        BY <1>0, <2>1, <2>3, <4>1, <4>2, <4>3
      <4> QED BY <4>4, <4>5 DEF HistoryInv
    <3> QED BY <3>2, <3>3
  <2> QED BY <2>2, <2>3
<1>8. ASSUME UNCHANGED fileVars,
             \A q \in Requests : pc'[q] # pc[q] =>
               pc[q] \notin {"wipe", "write"} /\ pc'[q] \notin {"wipe", "write"}
      PROVE  HistoryInv'
  BY <1>0, <1>8 DEF fileVars, HistoryInv
<1>9. ASSUME NEW r \in Requests,
             \/ Start(r) \/ Log(r) \/ OpenTarget(r) \/ Label(r) \/ EndTarget(r) \/ TargetFails(r)
             \/ CommandFails(r) \/ Unsupported(r) \/ Exhausted(r) \/ Complete(r) \/ Disconnect(r)
             \/ StageFails(r) \/ StoreLogs(r) \/ Answer(r)
             \/ Swap(r) \/ PrintOut(r) \/ PrintLoading(r) \/ Restore(r)
      PROVE  /\ UNCHANGED fileVars
             /\ \A q \in Requests : pc'[q] # pc[q] =>
                  pc[q] \notin {"wipe", "write"} /\ pc'[q] \notin {"wipe", "write"}
  BY <1>9 DEF Start, Log, OpenTarget, Label, EndTarget, TargetFails, CommandFails,
     Unsupported, Exhausted, Complete, Disconnect, StageFails, StoreLogs, Answer,
     Swap, PrintOut, PrintLoading, Restore, Go, ThreadTypes
<1> QED BY <1>1, <1>2, <1>3, <1>4, <1>5, <1>6, <1>7, <1>8, <1>9 DEF Next

(* While appends are serial the history file loses no command and repeats   *)
(* none, whatever else the server does and however often it dies.           *)
THEOREM HistoryIsComplete == Spec => []SerialHistoryIsComplete
<1>1. Init => Types
  BY InitTypes
<1>2. Init => HistoryInv
  BY DEF Init, HistoryInv, OneAppends, LoadedAll, FileIsRecorded, FileIsEmpty, Appending,
     LoadEntries, File
<1>3. ThreadTypes /\ FileTypes /\ HistoryInv /\ [Next]_vars
        => ThreadTypes' /\ FileTypes' /\ HistoryInv'
  BY NextThreadTypes, NextFileTypes, NextHistory
<1>4. HistoryInv => SerialHistoryIsComplete
  BY DEF HistoryInv, SerialHistoryIsComplete, FileIsRecorded, Appending
<1>5. Types => ThreadTypes /\ FileTypes
  BY DEF Types
<1> QED BY <1>1, <1>2, <1>3, <1>4, <1>5, PTL DEF Spec
--------------------------------------------------------------------------------
(* DoneMeansAllTargets.  Cardinality is only asked whether there are any.   *)
ErrorFree(es) == \A i \in 1 .. Len(es) : es[i][1] # "error"

LEMMA NoneCounted ==
  ASSUME ThreadTypes, NEW r \in Requests
  PROVE  Count(r, "error") = 0 <=> ErrorFree(events[r])
<1> DEFINE D == {i \in DOMAIN events[r] : events[r][i][1] = "error"}
<1>1. Len(events[r]) \in Nat /\ DOMAIN events[r] = 1 .. Len(events[r])
  BY LenProperties DEF ThreadTypes
<1>2. IsFiniteSet(1 .. Len(events[r]))
  BY <1>1, FS_Interval
<1>3. D \subseteq 1 .. Len(events[r])
  BY <1>1
<1>4. IsFiniteSet(D)
  BY <1>2, <1>3, FS_Subset
<1>5. Cardinality(D) = 0 <=> D = {}
  BY <1>4, FS_EmptySet
<1>6. D = {} <=> ErrorFree(events[r])
  BY <1>1 DEF ErrorFree
<1> QED BY <1>5, <1>6 DEF Count

LEMMA MoreEvents ==
  ASSUME NEW es \in Seq(Event), NEW e \in Event
  PROVE  ErrorFree(Append(es, e)) <=> ErrorFree(es) /\ e[1] # "error"
<1>1. /\ Len(es) \in Nat /\ Len(Append(es, e)) = Len(es) + 1
      /\ Append(es, e)[Len(es) + 1] = e
      /\ \A i \in 1 .. Len(es) : Append(es, e)[i] = es[i]
  BY AppendProperties, LenProperties
<1> QED BY <1>1 DEF ErrorFree

(* An event of a thread r is the last of its own and of nobody else's.      *)
LEMMA EmitsOwn ==
  ASSUME ThreadTypes, NEW r \in Requests, NEW kind \in Kinds, Emit(r, kind)
  PROVE  /\ ErrorFree(events'[r]) <=> ErrorFree(events[r]) /\ kind # "error"
         /\ \A q \in Requests \ {r} : events'[q] = events[q]
<1>1. <<kind, r>> \in Event /\ <<kind, r>>[1] = kind /\ events[r] \in Seq(Event)
  BY DEF Event, ThreadTypes
<1>2. events'[r] = Append(events[r], <<kind, r>>)
  BY DEF Emit, ThreadTypes
<1>3. \A q \in Requests \ {r} : events'[q] = events[q]
  BY DEF Emit, ThreadTypes
<1> QED BY <1>1, <1>2, <1>3, MoreEvents

(* A command that has come to its end without an error has no target left,  *)
(* and a connection is held only while a target is worked on.              *)
Accounts(place, es, left, told, open, streams) ==
  /\ open => place = "target"
  /\ place \in {"ending", "collected", "answering"} /\ ErrorFree(es) => left = 0
  /\ place = "answering" => ErrorFree(es)
  /\ place = "printing" => ~streams
  /\ place \in {"run", "target", "ending", "collected", "answering"} => streams
  /\ told = "done" => place = "done" /\ left = 0 /\ (streams => ErrorFree(es))
Accounted(r) == Accounts(pc[r], events[r], todo[r], answer[r], r \in conn, Streams(r))
DoneInv == \A r \in Requests : Accounted(r)

LEMMA OthersAccounted ==
  ASSUME DoneInv, plan' = plan, NEW q \in Requests, pc'[q] = pc[q], events'[q] = events[q],
         todo'[q] = todo[q], answer'[q] = answer[q], q \in conn' => q \in conn
  PROVE  Accounted(q)'
<1>1. Streams(q)' = Streams(q)
  BY DEF Streams, Endpoint
<1>2. Accounted(q)
  BY DEF DoneInv
<1> QED BY <1>1, <1>2 DEF Accounted, Accounts

LEMMA NextDone ==
  ASSUME ThreadTypes, DoneInv, [Next]_vars
  PROVE  DoneInv'
<1>0. plan' = plan /\ Requests' = Requests /\ \A q \in Requests : Streams(q)' = Streams(q)
  BY PlanIsFixed DEF Streams, Endpoint
<1>1. CASE UNCHANGED vars
  BY <1>0, <1>1, OthersAccounted DEF vars, DoneInv
<1>2. CASE Die
  <2> SUFFICES ASSUME NEW q \in Requests PROVE Accounted(q)'
    BY <1>0 DEF DoneInv
  <2>1. Accounted(q)
    BY DEF DoneInv
  <2>2. /\ pc'[q] = IF pc[q] = "new" THEN "new" ELSE "done"
        /\ answer'[q] = IF pc[q] \in {"new", "done"} THEN answer[q] ELSE "cut"
        /\ q \notin conn' /\ UNCHANGED <<events, todo>>
    BY <1>2 DEF Die
  <2> QED BY <1>0, <2>1, <2>2 DEF Accounted, Accounts
<1>3. ASSUME NEW r \in Requests,
             \/ Reject(r) \/ LoadHistory(r) \/ WipeHistory(r) \/ WriteHistory(r)
             \/ PersistFails(r)
      PROVE  DoneInv'
  <2>1. /\ \A q \in Requests \ {r} : pc'[q] = pc[q] /\ answer'[q] = answer[q]
        /\ UNCHANGED <<events, todo, conn>>
        /\ pc[r] \in {"new", "wipe", "write"} /\ pc'[r] \in {"wipe", "write", "start", "done"}
        /\ answer'[r] \in {answer[r], "refused"}
    BY <1>3 DEF Reject, LoadHistory, WipeHistory, WriteHistory, PersistFails, commandVars,
       Go, ThreadTypes
  <2>2. Accounted(r)'
    BY <1>0, <2>1 DEF DoneInv, Accounted, Accounts
  <2> QED BY <1>0, <2>1, <2>2, OthersAccounted DEF DoneInv
<1>4. ASSUME NEW r \in Requests, Log(r)
      PROVE  DoneInv'
  <2> SUFFICES ASSUME NEW q \in Requests PROVE Accounted(q)'
    BY <1>0 DEF DoneInv
  <2>1. UNCHANGED <<pc, todo, answer, conn>>
    BY <1>4 DEF Log
  <2>2. CASE q \in Handlers /\ Keeps(q, r)
    <3>1. pc[q] \in {"run", "target"}
      BY <2>2 DEF Handlers, Running
    <3> QED BY <1>0, <2>1, <3>1 DEF DoneInv, Accounted, Accounts
  <2>3. CASE ~(q \in Handlers /\ Keeps(q, r))
    <3>1. events'[q] = events[q]
      BY <1>4, <2>3 DEF Log
    <3> QED BY <1>0, <2>1, <3>1, OthersAccounted
  <2> QED BY <2>2, <2>3

<1>5. ASSUME NEW r \in Requests, Start(r)
      PROVE  DoneInv'
  <2>1. /\ Streams(r) /\ pc[r] = "start" /\ pc'[r] = "run" /\ UNCHANGED <<todo, conn, answer>>
        /\ \A q \in Requests \ {r} : pc'[q] = pc[q]
    BY <1>5 DEF Start, Go, ThreadTypes
  <2>2. /\ ErrorFree(events'[r]) <=> ErrorFree(events[r]) /\ "started" # "error"
        /\ \A q \in Requests \ {r} : events'[q] = events[q]
    BY <1>5, EmitsOwn DEF Start, Kinds
  <2>3. Accounted(r)'
    BY <1>0, <2>1, <2>2 DEF DoneInv, Accounted, Accounts
  <2> QED BY <1>0, <2>1, <2>2, <2>3, OthersAccounted DEF DoneInv
<1>6. ASSUME NEW r \in Requests, OpenTarget(r)
      PROVE  DoneInv'
  <2>1. /\ pc[r] = "run" /\ pc'[r] = "target" /\ conn' = conn \cup {r}
        /\ UNCHANGED <<todo, answer>>
        /\ \A q \in Requests \ {r} : pc'[q] = pc[q]
    BY <1>6 DEF OpenTarget, Go, ThreadTypes
  <2>2. /\ ErrorFree(events'[r]) <=> ErrorFree(events[r]) /\ "chunk" # "error"
        /\ \A q \in Requests \ {r} : events'[q] = events[q]
    BY <1>6, EmitsOwn DEF OpenTarget, Kinds
  <2>3. Accounted(r)'
    BY <1>0, <2>1, <2>2 DEF DoneInv, Accounted, Accounts
  <2> QED BY <1>0, <2>1, <2>2, <2>3, OthersAccounted DEF DoneInv
<1>7. ASSUME NEW r \in Requests, EndTarget(r)
      PROVE  DoneInv'
  <2>1. /\ pc[r] = "target" /\ pc'[r] = "run" /\ conn' = conn \ {r}
        /\ UNCHANGED <<events, answer>> /\ \A q \in Requests \ {r} : todo'[q] = todo[q]
        /\ \A q \in Requests \ {r} : pc'[q] = pc[q]
    BY <1>7 DEF EndTarget, Go, ThreadTypes
  <2>2. Accounted(r)'
    BY <1>0, <2>1 DEF DoneInv, Accounted, Accounts
  <2> QED BY <1>0, <2>1, <2>2, OthersAccounted DEF DoneInv
<1>8. ASSUME NEW r \in Requests, TargetFails(r)
      PROVE  DoneInv'
  <2>1. /\ pc[r] = "target" /\ pc'[r] = "run" /\ conn' = conn \ {r}
        /\ UNCHANGED answer /\ \A q \in Requests \ {r} : todo'[q] = todo[q]
        /\ \A q \in Requests \ {r} : pc'[q] = pc[q]
    BY <1>8 DEF TargetFails, Go, ThreadTypes
  <2>2. /\ ErrorFree(events'[r]) <=> ErrorFree(events[r]) /\ "error" # "error"
        /\ \A q \in Requests \ {r} : events'[q] = events[q]
    BY <1>8, EmitsOwn DEF TargetFails, Kinds
  <2>3. Accounted(r)'
    BY <1>0, <2>1, <2>2 DEF DoneInv, Accounted, Accounts
  <2> QED BY <1>0, <2>1, <2>2, <2>3, OthersAccounted DEF DoneInv
<1>9. ASSUME NEW r \in Requests, CommandFails(r)
      PROVE  DoneInv'
  <2>1. /\ pc[r] = "target" /\ pc'[r] = "ending" /\ conn' = conn \ {r}
        /\ UNCHANGED <<todo, answer>>
        /\ \A q \in Requests \ {r} : pc'[q] = pc[q]
    BY <1>9 DEF CommandFails, Go, ThreadTypes
  <2>2. /\ ErrorFree(events'[r]) <=> ErrorFree(events[r]) /\ "error" # "error"
        /\ \A q \in Requests \ {r} : events'[q] = events[q]
    BY <1>9, EmitsOwn DEF CommandFails, Kinds
  <2>3. Accounted(r)'
    BY <1>0, <2>1, <2>2 DEF DoneInv, Accounted, Accounts
  <2> QED BY <1>0, <2>1, <2>2, <2>3, OthersAccounted DEF DoneInv
<1>10. ASSUME NEW r \in Requests, Unsupported(r)
      PROVE  DoneInv'
  <2>1. /\ pc[r] = "run" /\ pc'[r] = "ending" /\ UNCHANGED <<todo, conn, answer>>
        /\ \A q \in Requests \ {r} : pc'[q] = pc[q]
    BY <1>10 DEF Unsupported, Go, ThreadTypes
  <2>2. /\ ErrorFree(events'[r]) <=> ErrorFree(events[r]) /\ "error" # "error"
        /\ \A q \in Requests \ {r} : events'[q] = events[q]
    BY <1>10, EmitsOwn DEF Unsupported, Kinds
  <2>3. Accounted(r)'
    BY <1>0, <2>1, <2>2 DEF DoneInv, Accounted, Accounts
  <2> QED BY <1>0, <2>1, <2>2, <2>3, OthersAccounted DEF DoneInv
<1>11. ASSUME NEW r \in Requests, Exhausted(r)
      PROVE  DoneInv'
  <2>1. /\ pc[r] = "run" /\ pc'[r] = "ending" /\ todo[r] = 0
        /\ UNCHANGED <<events, todo, conn, answer>>
        /\ \A q \in Requests \ {r} : pc'[q] = pc[q]
    BY <1>11 DEF Exhausted, Go, ThreadTypes
  <2>2. Accounted(r)'
    BY <1>0, <2>1 DEF DoneInv, Accounted, Accounts
  <2> QED BY <1>0, <2>1, <2>2, OthersAccounted DEF DoneInv
<1>12. ASSUME NEW r \in Requests, Disconnect(r)
      PROVE  DoneInv'
  <2>1. /\ pc'[r] = "done" /\ conn' = conn \ {r} /\ answer'[r] = "cut"
        /\ UNCHANGED <<events, todo>> /\ \A q \in Requests \ {r} : answer'[q] = answer[q]
        /\ \A q \in Requests \ {r} : pc'[q] = pc[q]
    BY <1>12 DEF Disconnect, Go, ThreadTypes
  <2>2. Accounted(r)'
    BY <1>0, <2>1 DEF DoneInv, Accounted, Accounts
  <2> QED BY <1>0, <2>1, <2>2, OthersAccounted DEF DoneInv
<1>13. ASSUME NEW r \in Requests, StageFails(r)
      PROVE  DoneInv'
  <2>1. /\ pc[r] = "collected" /\ pc'[r] = "done" /\ answer'[r] = "refused"
        /\ UNCHANGED <<events, todo, conn>> /\ \A q \in Requests \ {r} : answer'[q] = answer[q]
        /\ \A q \in Requests \ {r} : pc'[q] = pc[q]
    BY <1>13 DEF StageFails, Go, ThreadTypes
  <2>2. Accounted(r)'
    BY <1>0, <2>1 DEF DoneInv, Accounted, Accounts
  <2> QED BY <1>0, <2>1, <2>2, OthersAccounted DEF DoneInv
<1>14. ASSUME NEW r \in Requests, Answer(r)
      PROVE  DoneInv'
  <2>1. /\ pc[r] = "answering" /\ pc'[r] = "done" /\ answer'[r] = "done"
        /\ UNCHANGED <<events, todo, conn>> /\ \A q \in Requests \ {r} : answer'[q] = answer[q]
        /\ \A q \in Requests \ {r} : pc'[q] = pc[q]
    BY <1>14 DEF Answer, Go, ThreadTypes
  <2>2. Accounted(r)'
    BY <1>0, <2>1 DEF DoneInv, Accounted, Accounts
  <2> QED BY <1>0, <2>1, <2>2, OthersAccounted DEF DoneInv
<1>15. ASSUME NEW r \in Requests, Swap(r)
      PROVE  DoneInv'
  <2>1. /\ ~Streams(r) /\ pc[r] = "start" /\ pc'[r] = "printing"
        /\ UNCHANGED <<events, todo, conn, answer>>
        /\ \A q \in Requests \ {r} : pc'[q] = pc[q]
    BY <1>15 DEF Swap, Go, ThreadTypes
  <2>2. Accounted(r)'
    BY <1>0, <2>1 DEF DoneInv, Accounted, Accounts
  <2> QED BY <1>0, <2>1, <2>2, OthersAccounted DEF DoneInv
<1>16. ASSUME NEW r \in Requests, PrintOut(r)
      PROVE  DoneInv'
  <2>1. /\ pc[r] = "printing" /\ UNCHANGED <<pc, events, conn, answer>>
        /\ \A q \in Requests \ {r} : todo'[q] = todo[q]
        /\ \A q \in Requests \ {r} : pc'[q] = pc[q]
    BY <1>16 DEF PrintOut, Go, ThreadTypes
  <2>2. Accounted(r)'
    BY <1>0, <2>1 DEF DoneInv, Accounted, Accounts
  <2> QED BY <1>0, <2>1, <2>2, OthersAccounted DEF DoneInv
<1>17. ASSUME NEW r \in Requests, Restore(r)
      PROVE  DoneInv'
  <2>1. /\ pc[r] = "printing" /\ pc'[r] = "done" /\ (answer'[r] = "done" => todo[r] = 0)
        /\ UNCHANGED <<events, todo, conn>> /\ \A q \in Requests \ {r} : answer'[q] = answer[q]
        /\ \A q \in Requests \ {r} : pc'[q] = pc[q]
    BY <1>17 DEF Restore, Go, ThreadTypes
  <2>2. Accounted(r)'
    BY <1>0, <2>1 DEF DoneInv, Accounted, Accounts
  <2> QED BY <1>0, <2>1, <2>2, OthersAccounted DEF DoneInv
<1>18. ASSUME NEW r \in Requests, Label(r)
      PROVE  DoneInv'
  <2>1. pc[r] = "target" /\ UNCHANGED <<pc, todo, conn, answer>>
    BY <1>18 DEF Label
  <2>2. \A q \in Requests \ {r} : events'[q] = events[q]
    BY <1>18, EmitsOwn DEF Label, Kinds
  <2>3. Accounted(r)'
    BY <1>0, <2>1 DEF DoneInv, Accounted, Accounts
  <2> QED BY <1>0, <2>1, <2>2, <2>3, OthersAccounted DEF DoneInv
<1>19. ASSUME NEW r \in Requests, Complete(r)
      PROVE  DoneInv'
  <2>1. /\ pc[r] = "ending" /\ pc'[r] \in {"collected", "done"} /\ UNCHANGED <<todo, conn>>
        /\ \A q \in Requests \ {r} : pc'[q] = pc[q] /\ answer'[q] = answer[q]
        /\ \/ answer'[r] = answer[r]
           \/ answer'[r] = Status(r) /\ pc'[r] = "done"
    BY <1>19 DEF Complete, Go, ThreadTypes
  <2>2. /\ ErrorFree(events'[r]) <=> ErrorFree(events[r])
        /\ \A q \in Requests \ {r} : events'[q] = events[q]
    BY <1>19, EmitsOwn DEF Complete, Kinds
  <2>3. Status(r) = "done" => ErrorFree(events[r])
    BY NoneCounted DEF Status
  <2>4. Accounted(r)'
    BY <1>0, <2>1, <2>2, <2>3 DEF DoneInv, Accounted, Accounts
  <2> QED BY <1>0, <2>1, <2>2, <2>4, OthersAccounted DEF DoneInv
<1>20. ASSUME NEW r \in Requests, StoreLogs(r)
      PROVE  DoneInv'
  <2>1. /\ pc[r] = "collected" /\ pc'[r] = "answering" /\ UNCHANGED <<events, todo, conn, answer>>
        /\ \A q \in Requests \ {r} : pc'[q] = pc[q]
    BY <1>20 DEF StoreLogs, Go, ThreadTypes
  <2>2. ErrorFree(events[r])
    BY <1>20, NoneCounted DEF StoreLogs
  <2>3. Accounted(r)'
    BY <1>0, <2>1, <2>2 DEF DoneInv, Accounted, Accounts
  <2> QED BY <1>0, <2>1, <2>3, OthersAccounted DEF DoneInv
<1>21. ASSUME NEW r \in Requests, PrintLoading(r)
       PROVE  DoneInv'
  <2>1. UNCHANGED <<pc, events, todo, conn, answer>>
    BY <1>21 DEF PrintLoading
  <2> QED BY <1>0, <2>1 DEF DoneInv, Accounted, Accounts
<1> QED
  BY <1>1, <1>2, <1>3, <1>4, <1>5, <1>6, <1>7, <1>8, <1>9, <1>10,
     <1>11, <1>12, <1>13, <1>14, <1>15, <1>16, <1>17, <1>18, <1>19, <1>20, <1>21 DEF Next

(* A command that is reported done left no target untried and reported no   *)
(* error, and no thread that has answered holds a connection.              *)
THEOREM DoneIsComplete == Spec => []DoneMeansAllTargets
<1>1. Init => Types
  BY InitTypes
<1>2. Init => DoneInv
  BY DEF Init, DoneInv, Accounted, Accounts
<1>3. ThreadTypes /\ DoneInv /\ [Next]_vars => ThreadTypes' /\ DoneInv'
  BY NextThreadTypes, NextDone
<1>4. ThreadTypes /\ DoneInv => DoneMeansAllTargets
  <2> SUFFICES ASSUME ThreadTypes, DoneInv, NEW r \in Requests
               PROVE  /\ answer[r] = "done" => todo[r] = 0 /\ (Streams(r) => Count(r, "error") = 0)
                      /\ pc[r] = "done" => r \notin conn
    BY DEF DoneMeansAllTargets
  <2>1. Accounted(r)
    BY DEF DoneInv
  <2> QED BY <2>1, NoneCounted DEF Accounted, Accounts
<1>5. Types => ThreadTypes
  BY DEF Types
<1> QED BY <1>1, <1>2, <1>3, <1>4, <1>5, PTL DEF Spec

--------------------------------------------------------------------------------
(* SerialOutputIsOwn.  While verbatim commands do not overlap, at most one  *)
(* prints, and it has the terminal to put back.  While no other endpoint    *)
(* resolves a target during one, its buffer holds what it has printed.     *)
Printed(r, k) == [i \in 1 .. k |-> r]
Before == {"new", "wipe", "write", "start"}

OnePrints == \A r, s \in Verbatims : r = s
PrintsOwn ==
  \A r \in Verbatims :
    /\ todo[r] <= plan[r].targets
    /\ out[r] = Printed(r, plan[r].targets - todo[r])
Swapped == \A r \in Verbatims : stdout = r /\ saved[r] = Terminal
NoShow == Verbatims = {} \/ Shows = {}
TerminalIsBack == Verbatims = {} => stdout = Terminal
NothingYet ==
  \A r \in Requests : pc[r] \in Before => out[r] = <<>> /\ todo[r] = plan[r].targets
AllPrinted ==
  \A r \in Requests :
    ~Streams(r) /\ answer[r] = "done" => out[r] = Printed(r, plan[r].targets)
SwapInv == "verbatim" \notin mixed => OnePrints /\ Swapped /\ TerminalIsBack
OwnInv == mixed = {} => NoShow /\ PrintsOwn /\ NothingYet /\ AllPrinted
OutInv == SwapInv /\ OwnInv

LEMMA OneMore ==
  ASSUME NEW r \in Requests, NEW k \in Nat
  PROVE  Append(Printed(r, k), r) = Printed(r, k + 1)
<1>1. Printed(r, k) \in Seq(Requests) /\ Len(Printed(r, k)) = k
  BY DEF Printed
<1>2. /\ Append(Printed(r, k), r) \in Seq(Requests) /\ Len(Append(Printed(r, k), r)) = k + 1
      /\ Append(Printed(r, k), r)[k + 1] = r
      /\ \A i \in 1 .. k : Append(Printed(r, k), r)[i] = Printed(r, k)[i]
  BY <1>1, AppendProperties
<1>3. Printed(r, k + 1) \in Seq(Requests) /\ Len(Printed(r, k + 1)) = k + 1
  BY DEF Printed
<1>4. \A i \in 1 .. k + 1 : Append(Printed(r, k), r)[i] = Printed(r, k + 1)[i]
  BY <1>2 DEF Printed
<1> QED BY <1>2, <1>3, <1>4, SeqEqual

LEMMA Targets ==
  ASSUME ThreadTypes
  PROVE  Terminal \notin Requests /\ \A r \in Requests : plan[r].targets \in Nat
  BY ConstantsOK DEF ThreadTypes, Requests

LEMMA NextOutTypes ==
  ASSUME ThreadTypes, OutTypes, [Next]_vars
  PROVE  OutTypes'
<1>0. plan' = plan /\ Requests' = Requests
  BY PlanIsFixed
<1>1. CASE UNCHANGED outVars
  BY <1>0, <1>1 DEF outVars, OutTypes
<1>2. CASE Die
  BY <1>0, <1>2 DEF Die, OutTypes
<1>3. ASSUME NEW r \in Requests, Swap(r)
      PROVE  OutTypes'
  BY <1>0, <1>3 DEF Swap, OutTypes
<1>4. ASSUME NEW r \in Requests, PrintOut(r)
      PROVE  OutTypes'
  <2>1. \A q \in Requests : Append(out[q], r) \in Seq(Requests)
    BY AppendProperties DEF OutTypes
  <2>2. out' \in [Requests -> Seq(Requests)]
    BY <1>4, <2>1 DEF PrintOut, OutTypes
  <2> QED BY <1>0, <1>4, <2>2 DEF PrintOut, OutTypes
<1>8. ASSUME NEW r \in Requests, OpenTarget(r)
      PROVE  OutTypes'
  BY <1>0, <1>8 DEF OpenTarget, OutTypes
<1>9. ASSUME NEW r \in Requests, PrintLoading(r)
      PROVE  OutTypes'
  <2>1. \A q \in Requests : Append(out[q], r) \in Seq(Requests)
    BY AppendProperties DEF OutTypes
  <2>2. out' \in [Requests -> Seq(Requests)]
    BY <1>9, <2>1 DEF PrintLoading, OutTypes
  <2> QED BY <1>0, <1>9, <2>2 DEF PrintLoading, OutTypes
<1>5. ASSUME NEW r \in Requests, Restore(r)
      PROVE  OutTypes'
  BY <1>0, <1>5 DEF Restore, PutBack, OutTypes
<1>6. CASE UNCHANGED vars
  BY <1>1, <1>6 DEF vars, outVars
<1>7. ASSUME NEW r \in Requests,
             \/ Reject(r) \/ LoadHistory(r) \/ WipeHistory(r) \/ WriteHistory(r)
             \/ PersistFails(r)
             \/ Start(r) \/ Log(r) \/ Label(r) \/ EndTarget(r) \/ TargetFails(r)
             \/ CommandFails(r) \/ Unsupported(r) \/ Exhausted(r) \/ Complete(r) \/ Disconnect(r)
             \/ StageFails(r) \/ StoreLogs(r) \/ Answer(r)
      PROVE  UNCHANGED outVars
  BY <1>7 DEF Reject, LoadHistory, WipeHistory, WriteHistory, PersistFails, commandVars, outVars,
     Start, Log, Label, EndTarget, TargetFails, CommandFails,
     Unsupported, Exhausted, Complete, Disconnect, StageFails, StoreLogs, Answer
<1> QED BY <1>1, <1>2, <1>3, <1>4, <1>5, <1>6, <1>7, <1>8, <1>9 DEF Next

(* What the commands that do not print leave as it is.                     *)
PrintersKept ==
  /\ UNCHANGED outVars
  /\ \A q \in Requests :
       /\ pc'[q] = "printing" <=> pc[q] = "printing"
       /\ pc'[q] = "target" => pc[q] = "target"
       /\ pc'[q] \in Before => pc[q] \in Before
       /\ pc'[q] \in Before \cup {"printing"} => todo'[q] = todo[q]
       /\ answer'[q] = "done" => answer[q] = "done" \/ Streams(q)

LEMMA KeptOut ==
  ASSUME ThreadTypes, OutInv, plan' = plan, Requests' = Requests, PrintersKept
  PROVE  OutInv'
<1>1. \A q \in Requests : Streams(q)' = Streams(q)
  BY DEF Streams, Endpoint
<1>2. Verbatims' = Verbatims /\ Shows' \subseteq Shows
  BY DEF Verbatims, Shows, PrintersKept
<1>3. SwapInv'
  BY <1>2 DEF OutInv, SwapInv, OnePrints, Swapped, TerminalIsBack, PrintersKept, outVars
<1>4. ASSUME mixed = {} PROVE NoShow' /\ PrintsOwn' /\ NothingYet' /\ AllPrinted'
  <2>1. NoShow /\ PrintsOwn /\ NothingYet /\ AllPrinted
    BY <1>4 DEF OutInv, OwnInv
  <2>2. PrintsOwn'
    BY <1>2, <2>1 DEF PrintsOwn, PrintersKept, outVars, Verbatims
  <2>3. NothingYet' /\ AllPrinted'
    BY <1>1, <2>1 DEF NothingYet, AllPrinted, PrintersKept, outVars
  <2> QED BY <1>2, <2>1, <2>2, <2>3 DEF NoShow
<1> QED BY <1>3, <1>4 DEF OutInv, OwnInv, PrintersKept, outVars

LEMMA NextOut ==
  ASSUME ThreadTypes, OutTypes, DoneInv, OutInv, [Next]_vars
  PROVE  OutInv'
<1>0. /\ plan' = plan /\ Requests' = Requests /\ \A q \in Requests : Streams(q)' = Streams(q)
      /\ Terminal \notin Requests /\ \A r \in Requests : plan[r].targets \in Nat
  BY PlanIsFixed, Targets DEF Streams, Endpoint
<1>1. CASE UNCHANGED vars
  BY <1>0, <1>1, KeptOut DEF vars, PrintersKept, outVars
<1>2. CASE Die
  <2>1. /\ \A q \in Requests : /\ pc'[q] \notin {"printing", "target"}
                               /\ pc'[q] \in Before => pc[q] \in Before
                               /\ answer'[q] = "done" => answer[q] = "done"
        /\ stdout' = Terminal /\ UNCHANGED <<todo, out, mixed>>
    BY <1>0, <1>2 DEF Die, Before, Verbatims
  <2>2. Verbatims' = {}
    BY <1>0, <2>1 DEF Verbatims
  <2>3. SwapInv'
    BY <2>1, <2>2 DEF SwapInv, OnePrints, Swapped, TerminalIsBack
  <2>4. OwnInv'
    BY <1>0, <2>1, <2>2 DEF OutInv, OwnInv, NoShow, PrintsOwn, NothingYet, AllPrinted
  <2> QED BY <2>3, <2>4 DEF OutInv
<1>3. ASSUME NEW r \in Requests,
             \/ Reject(r) \/ LoadHistory(r) \/ WipeHistory(r) \/ WriteHistory(r)
             \/ PersistFails(r)
      PROVE  PrintersKept
  BY <1>3 DEF Reject, LoadHistory, WipeHistory, WriteHistory, PersistFails, commandVars,
     Go, ThreadTypes, PrintersKept, outVars, Before
<1>4. ASSUME NEW r \in Requests,
             \/ Start(r) \/ Log(r) \/ Label(r) \/ EndTarget(r) \/ TargetFails(r)
             \/ CommandFails(r) \/ Unsupported(r) \/ Exhausted(r) \/ StoreLogs(r)
      PROVE  PrintersKept
  BY <1>4 DEF Start, Log, Label, EndTarget, TargetFails, CommandFails,
     Unsupported, Exhausted, StoreLogs, Go, ThreadTypes, PrintersKept, Before
<1>5. ASSUME NEW r \in Requests,
             Complete(r) \/ Disconnect(r) \/ StageFails(r) \/ Answer(r)
      PROVE  PrintersKept
  <2>1. Streams(r)
    <3>1. Accounted(r)
      BY DEF DoneInv
    <3> QED
      BY <1>5, <3>1 DEF Complete, Disconnect, StageFails, Answer, Go, Accounted, Accounts,
         Streams, Endpoint
  <2> QED
    BY <1>5, <2>1 DEF Complete, Disconnect, StageFails, Answer, Go, ThreadTypes, PrintersKept,
       Before
<1>6. ASSUME NEW r \in Requests, Swap(r)
      PROVE  OutInv'
  <2>1. /\ pc[r] = "start" /\ pc'[r] = "printing" /\ stdout' = r /\ saved'[r] = stdout
        /\ \A q \in Requests \ {r} : pc'[q] = pc[q]
        /\ UNCHANGED <<todo, out, answer>> /\ mixed \subseteq mixed'
        /\ "verbatim" \notin mixed' => Verbatims = {}
        /\ "show" \notin mixed' => Shows = {}
    BY <1>6 DEF Swap, Go, ThreadTypes, OutTypes
  <2>2. ASSUME "verbatim" \notin mixed' PROVE Verbatims' = {r} /\ stdout = Terminal
    <3>1. Verbatims = {} /\ "verbatim" \notin mixed
      BY <2>1, <2>2
    <3>2. Verbatims' = {r}
      BY <1>0, <2>1, <3>1 DEF Verbatims
    <3> QED BY <3>1, <3>2 DEF OutInv, SwapInv, TerminalIsBack
  <2>3. SwapInv'
    BY <2>1, <2>2 DEF SwapInv, OnePrints, Swapped, TerminalIsBack
  <2>4. ASSUME mixed' = {} PROVE NoShow' /\ PrintsOwn' /\ NothingYet' /\ AllPrinted'
    <3>1. Verbatims' = {r} /\ Shows = {} /\ mixed = {}
      BY <2>1, <2>2, <2>4
    <3>2. out[r] = <<>> /\ todo[r] = plan[r].targets /\ NothingYet /\ AllPrinted
      BY <2>1, <3>1 DEF OutInv, OwnInv, NothingYet, Before
    <3>3. Printed(r, 0) = <<>>
      BY DEF Printed
    <3>4. PrintsOwn'
      BY <1>0, <2>1, <3>1, <3>2, <3>3 DEF PrintsOwn
    <3>5. NothingYet' /\ AllPrinted'
      BY <1>0, <2>1, <3>2 DEF NothingYet, AllPrinted, Before
    <3>6. Shows' = {}
      BY <1>0, <2>1, <3>1 DEF Shows
    <3> QED BY <3>4, <3>5, <3>6 DEF NoShow
  <2> QED BY <2>3, <2>4 DEF OutInv, OwnInv
<1>7. ASSUME NEW r \in Requests, PrintOut(r)
      PROVE  OutInv'
  <2>1. /\ pc[r] = "printing" /\ todo[r] > 0 /\ todo' = [todo EXCEPT ![r] = @ - 1]
        /\ r \in Verbatims /\ UNCHANGED <<pc, stdout, saved, mixed, answer>>
        /\ out' = IF stdout = Terminal THEN out ELSE [out EXCEPT ![stdout] = Append(@, r)]
    BY <1>7 DEF PrintOut, Verbatims
  <2>2. Verbatims' = Verbatims /\ Shows' = Shows
    BY <1>0, <2>1 DEF Verbatims, Shows
  <2>3. SwapInv'
    BY <2>1, <2>2 DEF OutInv, SwapInv, OnePrints, Swapped, TerminalIsBack
  <2>4. ASSUME mixed = {} PROVE NoShow' /\ PrintsOwn' /\ NothingYet' /\ AllPrinted'
    <3>1. /\ Verbatims = {r} /\ stdout = r
          /\ todo[r] <= plan[r].targets /\ out[r] = Printed(r, plan[r].targets - todo[r])
          /\ NoShow /\ NothingYet /\ AllPrinted
      BY <2>1, <2>4 DEF OutInv, SwapInv, OwnInv, OnePrints, Swapped, PrintsOwn
    <3>2. /\ out'[r] = Append(out[r], r) /\ todo'[r] = todo[r] - 1
          /\ \A q \in Requests \ {r} : out'[q] = out[q] /\ todo'[q] = todo[q]
      BY <1>0, <2>1, <3>1 DEF OutTypes, ThreadTypes
    <3>3. out'[r] = Printed(r, plan[r].targets - todo'[r])
      <4>1. /\ plan[r].targets - todo[r] \in Nat
            /\ plan[r].targets - todo[r] + 1 = plan[r].targets - todo'[r]
        BY <1>0, <2>1, <3>1, <3>2 DEF ThreadTypes
      <4> QED BY <3>1, <3>2, <4>1, OneMore
    <3>4. todo'[r] <= plan[r].targets
      BY <1>0, <2>1, <3>1, <3>2 DEF ThreadTypes
    <3>5. PrintsOwn'
      BY <1>0, <2>1, <2>2, <3>1, <3>3, <3>4 DEF PrintsOwn
    <3>6. NothingYet'
      BY <1>0, <2>1, <3>1, <3>2 DEF NothingYet, Before
    <3>7. AllPrinted'
      <4>1. answer[r] # "done"
        BY <2>1 DEF DoneInv, Accounted, Accounts
      <4> QED BY <1>0, <2>1, <3>1, <3>2, <4>1 DEF AllPrinted
    <3> QED BY <2>2, <3>1, <3>5, <3>6, <3>7 DEF NoShow
  <2> QED BY <2>1, <2>3, <2>4 DEF OutInv, OwnInv
<1>8. ASSUME NEW r \in Requests, Restore(r)
      PROVE  OutInv'
  <2>1. /\ pc[r] = "printing" /\ pc'[r] = "done" /\ stdout' = saved[r] /\ r \in Verbatims
        /\ \A q \in Requests \ {r} : pc'[q] = pc[q] /\ answer'[q] = answer[q]
        /\ answer'[r] = "done" => todo[r] = 0
        /\ UNCHANGED <<todo, out, mixed>>
    BY <1>8 DEF Restore, Go, PutBack, ThreadTypes, Verbatims
  <2>2. ASSUME "verbatim" \notin mixed
        PROVE  Verbatims = {r} /\ Verbatims' = {} /\ stdout' = Terminal
    <3>1. Verbatims = {r} /\ saved[r] = Terminal
      BY <2>1, <2>2 DEF OutInv, SwapInv, OnePrints, Swapped
    <3>2. Verbatims' = {}
      BY <1>0, <2>1, <3>1 DEF Verbatims
    <3> QED BY <2>1, <3>1, <3>2
  <2>3. SwapInv'
    BY <2>1, <2>2 DEF SwapInv, OnePrints, Swapped, TerminalIsBack
  <2>4. ASSUME mixed = {} PROVE NoShow' /\ PrintsOwn' /\ NothingYet' /\ AllPrinted'
    <3>1. /\ Verbatims = {r} /\ Verbatims' = {}
          /\ out[r] = Printed(r, plan[r].targets - todo[r]) /\ NothingYet /\ AllPrinted
      BY <2>1, <2>2, <2>4 DEF OutInv, OwnInv, PrintsOwn
    <3>2. NoShow' /\ PrintsOwn'
      BY <3>1 DEF NoShow, PrintsOwn
    <3>3. NothingYet'
      BY <1>0, <2>1, <3>1 DEF NothingYet, Before
    <3>4. answer'[r] = "done" => out[r] = Printed(r, plan[r].targets)
      BY <1>0, <2>1, <3>1
    <3>5. AllPrinted'
      BY <1>0, <2>1, <3>1, <3>4 DEF AllPrinted
    <3> QED BY <3>2, <3>3, <3>5
  <2> QED BY <2>1, <2>3, <2>4 DEF OutInv, OwnInv
<1>9. ASSUME NEW r \in Requests, OpenTarget(r)
      PROVE  OutInv'
  <2>1. /\ pc[r] = "run" /\ pc'[r] = "target" /\ \A q \in Requests \ {r} : pc'[q] = pc[q]
        /\ UNCHANGED <<todo, out, answer, stdout, saved>>
        /\ mixed' = IF Verbatims = {} THEN mixed ELSE mixed \union {"show"}
    BY <1>9 DEF OpenTarget, Go, ThreadTypes
  <2>2. Verbatims' = Verbatims
    BY <1>0, <2>1 DEF Verbatims
  <2>3. SwapInv'
    BY <2>1, <2>2 DEF OutInv, SwapInv, OnePrints, Swapped, TerminalIsBack
  <2>4. ASSUME mixed' = {} PROVE NoShow' /\ PrintsOwn' /\ NothingYet' /\ AllPrinted'
    <3>1. mixed = {} /\ Verbatims = {}
      BY <2>1, <2>4
    <3>2. NothingYet /\ AllPrinted
      BY <3>1 DEF OutInv, OwnInv
    <3> QED
      BY <1>0, <2>1, <2>2, <3>1, <3>2 DEF NoShow, PrintsOwn, NothingYet, AllPrinted, Before
  <2> QED BY <2>3, <2>4 DEF OutInv, OwnInv
<1>10. ASSUME NEW r \in Requests, PrintLoading(r)
       PROVE  OutInv'
  <2>1. /\ r \in Shows /\ stdout # Terminal
        /\ UNCHANGED <<pc, todo, stdout, saved, mixed, answer>>
    BY <1>10 DEF PrintLoading, Shows
  <2>2. Verbatims' = Verbatims
    BY <1>0, <2>1 DEF Verbatims
  <2>3. SwapInv'
    BY <2>1, <2>2 DEF OutInv, SwapInv, OnePrints, Swapped, TerminalIsBack
  <2>4. mixed # {}
    BY <2>1 DEF OutInv, SwapInv, OwnInv, NoShow, TerminalIsBack
  <2> QED BY <2>1, <2>3, <2>4 DEF OutInv, OwnInv
<1> QED
  BY <1>0, <1>1, <1>2, <1>3, <1>4, <1>5, <1>6, <1>7, <1>8, <1>9, <1>10, KeptOut DEF Next

(* While verbatim commands overlap neither each other nor the targets that  *)
(* other endpoints resolve, the client of one is given all that it printed  *)
(* and nothing else; and the process has its stdout back unless two verbatim *)
(* commands overlap.                                                       *)
THEOREM OutputIsOwn == Spec => []SerialOutputIsOwn
<1>1. Init => Types
  BY InitTypes
<1>2. Init => DoneInv
  BY DEF Init, DoneInv, Accounted, Accounts
<1>3. Init => OutInv
  BY DEF Init, OutInv, SwapInv, OwnInv, OnePrints, Swapped, NoShow, PrintsOwn, TerminalIsBack,
     NothingYet, AllPrinted, Verbatims
<1>4. ThreadTypes /\ OutTypes /\ DoneInv /\ OutInv /\ [Next]_vars
        => ThreadTypes' /\ OutTypes' /\ DoneInv' /\ OutInv'
  BY NextThreadTypes, NextOutTypes, NextDone, NextOut
<1>5. OutInv => SerialOutputIsOwn
  BY DEF OutInv, SwapInv, OwnInv, SerialOutputIsOwn, AllPrinted, TerminalIsBack, Printed
<1>6. Types => ThreadTypes /\ OutTypes
  BY DEF Types
<1> QED BY <1>1, <1>2, <1>3, <1>4, <1>5, <1>6, PTL DEF Spec

--------------------------------------------------------------------------------
(* RecentLogsAreServed.  The rows of the table are the last storings of     *)
(* their ids, oldest first (at[i] is the storing of row i); a last storing  *)
(* that has no row any more is older than all of them, and the table full. *)
IsLast(s, k) == \A l \in 1 .. Len(s) : Id(s[l]) = Id(s[k]) => l <= k
HasLast(s) == \A k \in 1 .. Len(s) :
                \E l \in 1 .. Len(s) : Id(s[l]) = Id(s[k]) /\ IsLast(s, l)
RowsAre(tab, s, at) ==
  /\ at \in [1 .. Len(tab) -> 1 .. Len(s)]
  /\ \A i, j \in 1 .. Len(tab) : i < j => at[i] < at[j]
  /\ \A i \in 1 .. Len(tab) :
       IsLast(s, at[i]) /\ tab[i][1] = Id(s[at[i]]) /\ tab[i][2] = events[s[at[i]]]
NoneMissing(tab, s, at, full) ==
  \A k \in 1 .. Len(s) : IsLast(s, k) =>
    \/ \E i \in 1 .. Len(tab) : at[i] = k
    \/ full /\ \A i \in 1 .. Len(tab) : k < at[i]
Tabulates(tab, s, at) ==
  RowsAre(tab, s, at) /\ NoneMissing(tab, s, at, Len(tab) = Capacity) /\ Len(tab) <= Capacity
Rows == {Id(r) : r \in Requests} \X Seq(Event)
(* A request that stored its logs has ended: it emits no more.             *)
StoredEnded ==
  \A k \in 1 .. Len(stored) : pc[stored[k]] \in {"answering", "done"}
OwnEvents == \A r \in Requests : \A j \in 1 .. Len(events[r]) : events[r][j][2] = r
StageInv ==
  /\ logs \in Seq(Rows) /\ stored \in Seq(Requests)
  /\ StoredEnded /\ OwnEvents /\ HasLast(stored)
  /\ \E at : Tabulates(logs, stored, at)

(* The rows of the other ids stay, in their order: old[j] is where row j was. *)
Keeping(tab, kept, id, old) ==
  /\ old \in [1 .. Len(kept) -> 1 .. Len(tab)]
  /\ \A i, j \in 1 .. Len(kept) : i < j => old[i] < old[j]
  /\ \A j \in 1 .. Len(kept) : kept[j] = tab[old[j]] /\ tab[old[j]][1] # id
  /\ \A i \in 1 .. Len(tab) : tab[i][1] # id => \E j \in 1 .. Len(kept) : old[j] = i
LEMMA WithoutKeeps ==
  ASSUME NEW T, NEW tab \in Seq(T), NEW id,
         \A i, j \in 1 .. Len(tab) : tab[i][1] = tab[j][1] => i = j
  PROVE  /\ Without(tab, id) \in Seq(T)
         /\ Len(Without(tab, id)) \in {Len(tab), Len(tab) - 1}
         /\ \E old : Keeping(tab, Without(tab, id), id, old)
<1> DEFINE m == Len(tab)
           kept == Without(tab, id)
<1>1. DOMAIN tab = 1 .. m /\ m \in Nat /\ \A i \in 1 .. m : tab[i] \in T
  OBVIOUS
<1>2. CASE \E i \in 1 .. m : tab[i][1] = id
  <2> DEFINE at == CHOOSE i \in DOMAIN tab : tab[i][1] = id
             old == [j \in 1 .. m - 1 |-> IF j < at THEN j ELSE j + 1]
  <2>1. at \in 1 .. m /\ tab[at][1] = id
    BY <1>1, <1>2
  <2>2. kept = [j \in 1 .. m - 1 |-> tab[IF j < at THEN j ELSE j + 1]]
    BY <1>1, <1>2 DEF Without
  <2> HIDE DEF at, kept, m
  <2>3. \A i \in 1 .. m : i # at => tab[i][1] # id
    BY <2>1 DEF m
  <2>4. \A j \in 1 .. m - 1 : old[j] \in 1 .. m /\ old[j] # at
    BY <1>1, <2>1
  <2>5. \A j \in 1 .. m - 1 : kept[j] = tab[old[j]]
    BY <2>2
  <2>6. \A i, j \in 1 .. m - 1 : i < j => old[i] < old[j]
    BY <1>1, <2>1
  <2>7. ASSUME NEW i \in 1 .. m, i # at
        PROVE  \E j \in 1 .. m - 1 : old[j] = i
    <3>1. CASE i < at
      BY <1>1, <2>1, <3>1
    <3>2. CASE i > at
      <4>1. i - 1 \in 1 .. m - 1 /\ old[i - 1] = i
        BY <1>1, <2>1, <3>2
      <4> QED BY <4>1
    <3> QED BY <1>1, <2>1, <2>7, <3>1, <3>2
  <2>8. m - 1 \in Nat
    BY <1>1, <2>1
  <2>9. kept = [j \in 1 .. m - 1 |-> kept[j]] /\ \A j \in 1 .. m - 1 : kept[j] \in T
    BY <1>1, <2>2, <2>4, <2>5
  <2>10. kept \in Seq(T) /\ Len(kept) = m - 1
    BY <2>8, <2>9
  <2>11. old \in [1 .. m - 1 -> 1 .. m]
    BY <2>4
  <2> HIDE DEF old
  <2>12. \A j \in 1 .. m - 1 : tab[old[j]][1] # id
    BY <2>3, <2>4
  <2>13. \A i \in 1 .. m : tab[i][1] # id => \E j \in 1 .. m - 1 : old[j] = i
    BY <2>1, <2>7
  <2>14. Keeping(tab, kept, id, old)
    BY <2>5, <2>6, <2>10, <2>11, <2>12, <2>13 DEF Keeping, m
  <2> QED BY <2>10, <2>14 DEF kept, m
<1>3. CASE ~ \E i \in 1 .. m : tab[i][1] = id
  <2> DEFINE old == [j \in 1 .. m |-> j]
  <2>1. kept = tab
    BY <1>1, <1>3 DEF Without
  <2>2. Keeping(tab, tab, id, old)
    BY <1>1, <1>3 DEF Keeping
  <2> QED BY <2>1, <2>2
<1> QED BY <1>2, <1>3

(* What is last of the storings when one is added.                         *)
LEMMA LastsGrow ==
  ASSUME NEW s \in Seq(Requests), NEW r \in Requests, HasLast(s)
  PROVE  LET t == Append(s, r) n == Len(s) + 1 IN
         /\ t \in Seq(Requests) /\ Len(t) = n /\ t[n] = r
         /\ \A k \in 1 .. Len(s) : t[k] = s[k]
         /\ \A k \in 1 .. Len(s) : IsLast(t, k) <=> IsLast(s, k) /\ Id(s[k]) # Id(r)
         /\ IsLast(t, n) /\ HasLast(t)
<1> DEFINE t == Append(s, r)
           n == Len(s) + 1
<1>1. /\ t \in Seq(Requests) /\ Len(t) = n /\ t[n] = r /\ Len(s) \in Nat
      /\ \A k \in 1 .. Len(s) : t[k] = s[k]
  BY AppendProperties
<1> HIDE DEF t
<1>2. IsLast(t, n)
  BY <1>1 DEF IsLast
<1>3. ASSUME NEW k \in 1 .. Len(s)
      PROVE  IsLast(t, k) <=> IsLast(s, k) /\ Id(s[k]) # Id(r)
  <2>1. n \in 1 .. Len(t) /\ ~(n <= k) /\ k \in 1 .. Len(t)
    BY <1>1
  <2>2. t[k] = s[k]
    BY <1>1
  <2>3. IsLast(t, k) => IsLast(s, k) /\ Id(s[k]) # Id(r)
    BY <1>1, <2>1, <2>2 DEF IsLast
  <2>4. ASSUME IsLast(s, k), Id(s[k]) # Id(r), NEW l \in 1 .. Len(t), Id(t[l]) = Id(t[k])
        PROVE  l <= k
    <3>1. l # n
      BY <1>1, <2>2, <2>4
    <3>2. l \in 1 .. Len(s)
      BY <1>1, <3>1
    <3> QED BY <1>1, <2>2, <2>4, <3>2 DEF IsLast
  <2> QED BY <2>3, <2>4 DEF IsLast
<1>4. ASSUME NEW k \in 1 .. Len(t)
      PROVE  \E l \in 1 .. Len(t) : Id(t[l]) = Id(t[k]) /\ IsLast(t, l)
  <2>1. CASE Id(t[k]) = Id(r)
    BY <1>1, <1>2, <2>1
  <2>2. CASE Id(t[k]) # Id(r)
    <3>1. k \in 1 .. Len(s)
      BY <1>1, <2>2
    <3>2. PICK l \in 1 .. Len(s) : Id(s[l]) = Id(s[k]) /\ IsLast(s, l)
      BY <3>1 DEF HasLast
    <3>3. l \in 1 .. Len(t) /\ Id(t[l]) = Id(t[k]) /\ Id(s[l]) # Id(r)
      BY <1>1, <2>2, <3>1, <3>2
    <3> QED BY <1>3, <3>2, <3>3
  <2> QED BY <2>1, <2>2
<1> QED BY <1>1, <1>2, <1>3, <1>4 DEF HasLast, t

(* The table with the new row, before the oldest leaves.                   *)
LEMMA Grown ==
  ASSUME NEW s \in Seq(Requests), NEW r \in Requests, HasLast(s), NEW T, NEW tab \in Seq(T),
         NEW at, NEW full \in BOOLEAN, RowsAre(tab, s, at), NoneMissing(tab, s, at, full),
         NEW row \in T, row[1] = Id(r), row[2] = events[r]
  PROVE  LET grown == Append(Without(tab, Id(r)), row) IN
         /\ grown \in Seq(T) /\ Len(grown) \in {Len(tab), Len(tab) + 1}
         /\ \E up : RowsAre(grown, Append(s, r), up) /\ NoneMissing(grown, Append(s, r), up, full)
<1> DEFINE kept == Without(tab, Id(r))
           grown == Append(kept, row)
           t == Append(s, r)
           n == Len(s) + 1
           m == Len(tab)
           q == Len(kept)
<1>1. \A i, j \in 1 .. m : tab[i][1] = tab[j][1] => i = j
  <2> SUFFICES ASSUME NEW i \in 1 .. m, NEW j \in 1 .. m, tab[i][1] = tab[j][1] PROVE i = j
    OBVIOUS
  <2>1. /\ at[i] \in 1 .. Len(s) /\ at[j] \in 1 .. Len(s)
        /\ IsLast(s, at[i]) /\ IsLast(s, at[j]) /\ Id(s[at[i]]) = Id(s[at[j]])
        /\ (i < j => at[i] < at[j]) /\ (j < i => at[j] < at[i])
    BY DEF RowsAre
  <2>2. at[i] <= at[j] /\ at[j] <= at[i]
    BY <2>1 DEF IsLast
  <2> QED BY <2>1, <2>2
<1>2. kept \in Seq(T) /\ q \in {m, m - 1} /\ \E old : Keeping(tab, kept, Id(r), old)
  BY <1>1, WithoutKeeps
<1>3. PICK old : Keeping(tab, kept, Id(r), old)
  BY <1>2
<1>4. /\ t \in Seq(Requests) /\ Len(t) = n /\ t[n] = r
      /\ \A k \in 1 .. Len(s) : t[k] = s[k]
      /\ \A k \in 1 .. Len(s) : IsLast(t, k) <=> IsLast(s, k) /\ Id(s[k]) # Id(r)
      /\ IsLast(t, n)
  BY LastsGrow
<1>5. /\ grown \in Seq(T) /\ Len(grown) = q + 1 /\ grown[q + 1] = row
      /\ q \in Nat /\ m \in Nat /\ Len(s) \in Nat
      /\ \A j \in 1 .. q : grown[j] = kept[j]
  BY <1>2, AppendProperties
<1> DEFINE up == [i \in 1 .. q + 1 |-> IF i <= q THEN at[old[i]] ELSE n]
<1> HIDE DEF kept, grown, t
<1>6. \A j \in 1 .. q : /\ old[j] \in 1 .. m /\ at[old[j]] \in 1 .. Len(s)
                        /\ grown[j] = tab[old[j]] /\ tab[old[j]][1] # Id(r)
  BY <1>3, <1>5 DEF Keeping, RowsAre
<1>7. \A j \in 1 .. q : up[j] = at[old[j]] /\ up[j] \in 1 .. Len(s)
  BY <1>5, <1>6
<1>8. up[q + 1] = n
  BY <1>5
<1>9. \A i \in 1 .. q + 1 : i \in 1 .. q \/ i = q + 1
  BY <1>5
<1>10. n \in 1 .. n /\ \A k \in 1 .. Len(s) : k \in 1 .. n /\ k < n
  BY <1>5
<1>11. up \in [1 .. q + 1 -> 1 .. n]
  BY <1>7, <1>8, <1>9, <1>10
<1> HIDE DEF up
<1>12. ASSUME NEW i \in 1 .. q + 1, NEW j \in 1 .. q + 1, i < j
       PROVE  up[i] < up[j]
  <2>1. i \in 1 .. q
    BY <1>5, <1>12
  <2>2. CASE j \in 1 .. q
    <3>1. old[i] < old[j]
      BY <1>3, <1>12, <2>1, <2>2 DEF Keeping
    <3>2. at[old[i]] < at[old[j]]
      BY <1>6, <2>1, <2>2, <3>1 DEF RowsAre
    <3> QED BY <1>7, <2>1, <2>2, <3>2
  <2>3. CASE j = q + 1
    BY <1>7, <1>8, <1>10, <2>1, <2>3
  <2> QED BY <1>9, <2>2, <2>3
<1>13. ASSUME NEW i \in 1 .. q + 1
       PROVE  /\ IsLast(t, up[i])
              /\ grown[i][1] = Id(t[up[i]]) /\ grown[i][2] = events[t[up[i]]]
  <2>1. CASE i \in 1 .. q
    <3> DEFINE k == at[old[i]]
    <3>1. /\ k \in 1 .. Len(s) /\ up[i] = k /\ grown[i] = tab[old[i]]
          /\ tab[old[i]][1] # Id(r) /\ old[i] \in 1 .. m
      BY <1>6, <1>7, <2>1
    <3>2. IsLast(s, k) /\ tab[old[i]][1] = Id(s[k]) /\ tab[old[i]][2] = events[s[k]]
      BY <3>1 DEF RowsAre
    <3> HIDE DEF k
    <3>3. t[k] = s[k] /\ IsLast(t, k)
      BY <1>4, <3>1, <3>2
    <3> QED BY <3>1, <3>2, <3>3
  <2>2. CASE i = q + 1
    BY <1>4, <1>5, <1>8, <2>2
  <2> QED BY <1>9, <2>1, <2>2
<1>14. RowsAre(grown, t, up)
  BY <1>4, <1>5, <1>11, <1>12, <1>13 DEF RowsAre
<1>15. ASSUME NEW k \in 1 .. n, IsLast(t, k)
       PROVE  \/ \E i \in 1 .. q + 1 : up[i] = k
              \/ full /\ \A i \in 1 .. q + 1 : k < up[i]
  <2>1. CASE k = n
    <3>1. q + 1 \in 1 .. q + 1
      BY <1>5
    <3> QED BY <1>8, <2>1, <3>1
  <2>2. CASE k # n
    <3>1. k \in 1 .. Len(s)
      BY <1>5, <2>2
    <3>2. IsLast(s, k) /\ Id(s[k]) # Id(r)
      BY <1>4, <1>15, <3>1
    <3>3. CASE \E i \in 1 .. m : at[i] = k
      <4>1. PICK i \in 1 .. m : at[i] = k
        BY <3>3
      <4>2. tab[i][1] # Id(r)
        BY <3>2, <4>1 DEF RowsAre
      <4>3. PICK j \in 1 .. q : old[j] = i
        BY <1>3, <4>2 DEF Keeping
      <4>4. j \in 1 .. q + 1 /\ up[j] = k
        BY <1>5, <1>7, <4>1, <4>3
      <4> QED BY <4>4
    <3>4. CASE full /\ \A i \in 1 .. m : k < at[i]
      <4>1. \A i \in 1 .. q : k < up[i]
        BY <1>6, <1>7, <3>4
      <4>2. k < up[q + 1]
        BY <1>8, <1>10, <3>1
      <4> QED BY <1>9, <3>4, <4>1, <4>2
    <3> QED BY <3>1, <3>2, <3>3, <3>4 DEF NoneMissing
  <2> QED BY <2>1, <2>2
<1>16. NoneMissing(grown, t, up, full)
  BY <1>4, <1>5, <1>15 DEF NoneMissing
<1>17. Len(grown) \in {m, m + 1}
  BY <1>2, <1>5
<1> QED BY <1>5, <1>14, <1>16, <1>17 DEF grown, t, kept

(* The oldest leaves: what had no row is older than those that stay.       *)
LEMMA OldestLeaves ==
  ASSUME NEW s \in Seq(Requests), NEW T, NEW tab \in Seq(T), NEW at, NEW full \in BOOLEAN,
         RowsAre(tab, s, at), NoneMissing(tab, s, at, full), tab # <<>>
  PROVE  /\ Tail(tab) \in Seq(T) /\ Len(Tail(tab)) = Len(tab) - 1
         /\ \E up : RowsAre(Tail(tab), s, up) /\ NoneMissing(Tail(tab), s, up, TRUE)
<1> DEFINE m == Len(tab)
           rest == Tail(tab)
           up == [i \in 1 .. m - 1 |-> at[i + 1]]
<1>1. /\ rest \in Seq(T) /\ Len(rest) = m - 1 /\ m \in Nat /\ m > 0 /\ Len(s) \in Nat
      /\ \A i \in 1 .. m - 1 : rest[i] = tab[i + 1]
  BY HeadTailProperties, EmptySeq
<1> HIDE DEF rest
<1>2. \A i \in 1 .. m - 1 : i + 1 \in 1 .. m /\ up[i] = at[i + 1]
  BY <1>1
<1>3. up \in [1 .. m - 1 -> 1 .. Len(s)]
  BY <1>1 DEF RowsAre
<1> HIDE DEF up
<1>4. \A i, j \in 1 .. m - 1 : i < j => up[i] < up[j]
  <2> SUFFICES ASSUME NEW i \in 1 .. m - 1, NEW j \in 1 .. m - 1, i < j PROVE up[i] < up[j]
    OBVIOUS
  <2>1. i + 1 \in 1 .. m /\ j + 1 \in 1 .. m /\ i + 1 < j + 1
    BY <1>1
  <2>2. at[i + 1] < at[j + 1]
    BY <2>1 DEF RowsAre
  <2> QED BY <1>2, <2>2
<1>5. ASSUME NEW i \in 1 .. m - 1
      PROVE  IsLast(s, up[i]) /\ rest[i][1] = Id(s[up[i]]) /\ rest[i][2] = events[s[up[i]]]
  <2>1. i + 1 \in 1 .. m /\ up[i] = at[i + 1] /\ rest[i] = tab[i + 1]
    BY <1>1, <1>2
  <2> QED BY <2>1 DEF RowsAre
<1>6. RowsAre(rest, s, up)
  BY <1>1, <1>3, <1>4, <1>5 DEF RowsAre
<1>7. ASSUME NEW k \in 1 .. Len(s), IsLast(s, k)
      PROVE  \/ \E i \in 1 .. m - 1 : up[i] = k
             \/ \A i \in 1 .. m - 1 : k < up[i]
  <2>1. CASE \E i \in 1 .. m : at[i] = k
    <3>1. PICK i \in 1 .. m : at[i] = k
      BY <2>1
    <3>2. CASE i = 1
      <4>1. \A j \in 1 .. m - 1 : 1 \in 1 .. m /\ j + 1 \in 1 .. m /\ 1 < j + 1
        BY <1>1
      <4>2. \A j \in 1 .. m - 1 : at[1] < at[j + 1]
        BY <4>1 DEF RowsAre
      <4> QED BY <1>2, <3>1, <3>2, <4>2
    <3>3. CASE i # 1
      <4>1. i - 1 \in 1 .. m - 1 /\ (i - 1) + 1 = i
        BY <1>1, <3>3
      <4>2. up[i - 1] = k
        BY <1>2, <3>1, <4>1
      <4> QED BY <4>1, <4>2
    <3> QED BY <3>2, <3>3
  <2>2. CASE \A i \in 1 .. m : k < at[i]
    BY <1>2, <2>2
  <2> QED BY <1>7, <2>1, <2>2 DEF NoneMissing
<1>8. NoneMissing(rest, s, up, TRUE)
  BY <1>1, <1>7 DEF NoneMissing
<1> QED BY <1>1, <1>6, <1>8 DEF rest

LEMMA StoreTabulates ==
  ASSUME NEW s \in Seq(Requests), NEW r \in Requests, HasLast(s), NEW T, NEW tab \in Seq(T),
         NEW at, Tabulates(tab, s, at), <<Id(r), events[r]>> \in T
  PROVE  /\ Store(tab, Id(r), events[r]) \in Seq(T)
         /\ \E up : Tabulates(Store(tab, Id(r), events[r]), Append(s, r), up)
<1> DEFINE row == <<Id(r), events[r]>>
           grown == Append(Without(tab, Id(r)), row)
           t == Append(s, r)
           full == Len(tab) = Capacity
<1>0. /\ row \in T /\ row[1] = Id(r) /\ row[2] = events[r] /\ full \in BOOLEAN
      /\ Capacity \in Nat /\ t \in Seq(Requests)
  BY ConstantsOK
<1>1. RowsAre(tab, s, at) /\ NoneMissing(tab, s, at, full) /\ Len(tab) <= Capacity
  BY DEF Tabulates
<1> HIDE DEF row, full
<1>2. /\ grown \in Seq(T) /\ Len(grown) \in {Len(tab), Len(tab) + 1}
      /\ \E up : RowsAre(grown, t, up) /\ NoneMissing(grown, t, up, full)
  BY <1>0, <1>1, Grown
<1>3. Store(tab, Id(r), events[r]) = IF Len(grown) > Capacity THEN Tail(grown) ELSE grown
  BY DEF Store, row
<1>4. PICK up : RowsAre(grown, t, up) /\ NoneMissing(grown, t, up, full)
  BY <1>2
<1> HIDE DEF grown, t
<1>5. Len(tab) \in Nat /\ Len(grown) \in Nat
  BY <1>2
<1>6. CASE Len(grown) > Capacity
  <2>1. Len(grown) = Capacity + 1 /\ grown # <<>>
    BY <1>0, <1>1, <1>2, <1>5, <1>6
  <2>2. /\ Tail(grown) \in Seq(T) /\ Len(Tail(grown)) = Len(grown) - 1
        /\ \E new : RowsAre(Tail(grown), t, new) /\ NoneMissing(Tail(grown), t, new, TRUE)
    BY <1>0, <1>2, <1>4, <2>1, OldestLeaves
  <2>3. Len(Tail(grown)) = Capacity
    BY <1>0, <2>1, <2>2
  <2>4. PICK new : RowsAre(Tail(grown), t, new) /\ NoneMissing(Tail(grown), t, new, TRUE)
    BY <2>2
  <2>5. Tabulates(Tail(grown), t, new)
    BY <1>0, <2>3, <2>4 DEF Tabulates, NoneMissing
  <2> QED BY <1>3, <1>6, <2>2, <2>5 DEF t
<1>7. CASE ~(Len(grown) > Capacity)
  <2>1. Len(grown) <= Capacity /\ (full => Len(grown) = Capacity)
    BY <1>0, <1>2, <1>5, <1>7 DEF full
  <2>2. Tabulates(grown, t, up)
    BY <1>4, <2>1 DEF Tabulates, NoneMissing
  <2> QED BY <1>2, <1>3, <1>7, <2>2 DEF t
<1> QED BY <1>6, <1>7

(* An event is added to the stream of the thread it is of.                 *)
LEMMA NextOwnEvents ==
  ASSUME ThreadTypes, OwnEvents, [Next]_vars
  PROVE  OwnEvents'
<1>0. Requests' = Requests
  BY PlanIsFixed
<1> SUFFICES ASSUME NEW q \in Requests, NEW j \in 1 .. Len(events'[q])
             PROVE  events'[q][j][2] = q
  BY <1>0 DEF OwnEvents
<1>1. events[q] \in Seq(Event) /\ \A i \in 1 .. Len(events[q]) : events[q][i][2] = q
  BY DEF ThreadTypes, OwnEvents
<1>2. CASE events' = events
  BY <1>1, <1>2
<1>3. ASSUME NEW kind \in Kinds, events'[q] = Append(events[q], <<kind, q>>)
      PROVE  events'[q][j][2] = q
  <2>1. <<kind, q>> \in Event
    BY DEF Event
  <2>2. /\ Len(events'[q]) = Len(events[q]) + 1 /\ Len(events[q]) \in Nat
        /\ events'[q][Len(events[q]) + 1] = <<kind, q>>
        /\ \A i \in 1 .. Len(events[q]) : events'[q][i] = events[q][i]
    BY <1>1, <1>3, <2>1, AppendProperties
  <2>3. CASE j \in 1 .. Len(events[q])
    BY <1>1, <2>2, <2>3
  <2>4. CASE j = Len(events[q]) + 1
    BY <2>2, <2>4
  <2> QED BY <2>2, <2>3, <2>4
<1>4. ASSUME NEW r \in Requests, NEW kind \in Kinds, Emit(r, kind)
      PROVE  events'[q][j][2] = q
  <2>1. CASE q = r
    BY <1>3, <1>4, <2>1 DEF Emit, ThreadTypes
  <2>2. CASE q # r
    BY <1>1, <1>4, <2>2 DEF Emit, ThreadTypes
  <2> QED BY <2>1, <2>2
<1>5. ASSUME NEW r \in Requests, Log(r)
      PROVE  events'[q][j][2] = q
  <2>1. events'[q] = IF q \in Handlers /\ Keeps(q, r) THEN Append(events[q], <<"log", r>>)
                                                      ELSE events[q]
    BY <1>5 DEF Log
  <2>2. CASE q \in Handlers /\ Keeps(q, r)
    BY <1>3, <2>1, <2>2 DEF Keeps, Kinds
  <2>3. CASE ~(q \in Handlers /\ Keeps(q, r))
    BY <1>1, <2>1, <2>3
  <2> QED BY <2>2, <2>3
<1>6. ASSUME NEW r \in Requests,
             \/ Start(r) \/ OpenTarget(r) \/ Label(r) \/ TargetFails(r)
             \/ CommandFails(r) \/ Unsupported(r) \/ Complete(r)
      PROVE  events'[q][j][2] = q
  <2>1. \E kind \in Kinds : Emit(r, kind)
    BY <1>6 DEF Start, OpenTarget, Label, TargetFails, CommandFails, Unsupported, Complete, Kinds
  <2> QED BY <1>4, <2>1
<1>7. ASSUME NEW r \in Requests,
             \/ Reject(r) \/ LoadHistory(r) \/ WipeHistory(r) \/ WriteHistory(r)
             \/ PersistFails(r) \/ EndTarget(r) \/ Exhausted(r) \/ Disconnect(r)
             \/ StageFails(r) \/ StoreLogs(r) \/ Answer(r)
             \/ Swap(r) \/ PrintOut(r) \/ PrintLoading(r) \/ Restore(r)
      PROVE  events' = events
  BY <1>7 DEF Reject, LoadHistory, WipeHistory, WriteHistory, PersistFails, commandVars,
     EndTarget, Exhausted, Disconnect, StageFails, StoreLogs, Answer, Swap, PrintOut, PrintLoading, Restore
<1>8. Die \/ UNCHANGED vars => events' = events
  BY DEF Die, vars
<1> QED BY <1>2, <1>5, <1>6, <1>7, <1>8 DEF Next

(* A request that has ended stays so, and nothing is added to its events.  *)
LEMMA EndedStay ==
  ASSUME ThreadTypes, [Next]_vars, ~Die, NEW q \in Requests, pc[q] \in {"answering", "done"}
  PROVE  pc'[q] \in {"answering", "done"} /\ events'[q] = events[q]
<1>1. CASE UNCHANGED vars
  BY <1>1 DEF vars
<1>2. ASSUME NEW r \in Requests,
             \/ Reject(r) \/ LoadHistory(r) \/ WipeHistory(r) \/ WriteHistory(r)
             \/ PersistFails(r) \/ EndTarget(r) \/ Exhausted(r) \/ Disconnect(r)
             \/ StageFails(r) \/ StoreLogs(r) \/ Answer(r)
             \/ Swap(r) \/ PrintOut(r) \/ PrintLoading(r) \/ Restore(r)
      PROVE  pc'[q] \in {"answering", "done"} /\ events'[q] = events[q]
  <2>1. /\ \A p \in Requests \ {r} : pc'[p] = pc[p]
        /\ pc[r] \in {"answering", "done"} => pc'[r] \in {"answering", "done"}
    BY <1>2 DEF Reject, LoadHistory, WipeHistory, WriteHistory, PersistFails, EndTarget,
       Exhausted, Disconnect, StageFails, StoreLogs, Answer, Swap, PrintOut, PrintLoading, Restore,
       Go, ThreadTypes
  <2>2. events' = events
    BY <1>2 DEF Reject, LoadHistory, WipeHistory, WriteHistory, PersistFails, commandVars,
       EndTarget, Exhausted, Disconnect, StageFails, StoreLogs, Answer, Swap, PrintOut, PrintLoading, Restore
  <2> QED BY <2>1, <2>2
<1>3. ASSUME NEW r \in Requests,
             \/ Start(r) \/ OpenTarget(r) \/ Label(r) \/ TargetFails(r)
             \/ CommandFails(r) \/ Unsupported(r) \/ Complete(r)
      PROVE  pc'[q] \in {"answering", "done"} /\ events'[q] = events[q]
  <2>1. /\ pc[r] \notin {"answering", "done"} /\ \E kind \in Kinds : Emit(r, kind)
        /\ \A p \in Requests \ {r} : pc'[p] = pc[p]
    BY <1>3 DEF Start, OpenTarget, Label, TargetFails, CommandFails, Unsupported, Complete,
       Go, Kinds, ThreadTypes
  <2> QED BY <2>1 DEF Emit, ThreadTypes
<1>4. ASSUME NEW r \in Requests, Log(r)
      PROVE  pc'[q] \in {"answering", "done"} /\ events'[q] = events[q]
  <2>1. q \notin Handlers
    BY DEF Handlers, Running
  <2> QED BY <1>4, <2>1 DEF Log
<1> QED BY <1>1, <1>2, <1>3, <1>4 DEF Next

LEMMA NextStage ==
  ASSUME ThreadTypes, StageInv, [Next]_vars
  PROVE  StageInv'
<1>0. plan' = plan /\ Requests' = Requests /\ Event' = Event /\ \A r : Id(r)' = Id(r)
  BY PlanIsFixed DEF Id
<1>1. OwnEvents'
  BY NextOwnEvents DEF StageInv
<1>2. Rows' = Rows
  BY <1>0 DEF Rows
<1>3. CASE Die
  <2>1. logs' = <<>> /\ stored' = <<>>
    BY <1>3 DEF Die
  <2> DEFINE at == [i \in 1 .. 0 |-> 0]
  <2>2. Tabulates(logs, stored, at)'
    BY <2>1, ConstantsOK DEF Tabulates, RowsAre, NoneMissing
  <2>3. StoredEnded' /\ HasLast(stored)'
    BY <2>1 DEF StoredEnded, HasLast
  <2>4. logs' \in Seq(Rows') /\ stored' \in Seq(Requests')
    BY <2>1
  <2> QED BY <1>1, <2>2, <2>3, <2>4 DEF StageInv
<1>4. CASE ~Die
  <2>1. \A k \in 1 .. Len(stored) :
          /\ stored[k] \in Requests /\ events'[stored[k]] = events[stored[k]]
          /\ pc'[stored[k]] \in {"answering", "done"}
    BY <1>4, EndedStay DEF StageInv, StoredEnded
  <2>2. PICK at : Tabulates(logs, stored, at)
    BY DEF StageInv
  <2>3. CASE UNCHANGED stageVars
    <3>1. StoredEnded'
      BY <2>1, <2>3 DEF StoredEnded, stageVars
    <3>2. HasLast(stored)'
      BY <1>0, <2>3 DEF HasLast, IsLast, StageInv, stageVars
    <3>3. RowsAre(logs, stored, at)'
      BY <1>0, <2>1, <2>2, <2>3 DEF Tabulates, RowsAre, IsLast, stageVars
    <3>4. NoneMissing(logs, stored, at, Len(logs) = Capacity)'
      BY <1>0, <2>2, <2>3 DEF Tabulates, NoneMissing, IsLast, stageVars
    <3>5. Tabulates(logs, stored, at)'
      BY <2>2, <2>3, <3>3, <3>4 DEF Tabulates, stageVars
    <3> QED BY <1>0, <1>1, <1>2, <2>3, <3>1, <3>2, <3>5 DEF StageInv, stageVars
  <2>4. ASSUME NEW r \in Requests, StoreLogs(r)
        PROVE  StageInv'
    <3>1. /\ logs' = Store(logs, Id(r), events[r]) /\ stored' = Append(stored, r)
          /\ pc'[r] = "answering" /\ events' = events
      BY <2>4 DEF StoreLogs, Go, ThreadTypes
    <3>2. /\ logs \in Seq(Rows) /\ stored \in Seq(Requests) /\ HasLast(stored)
          /\ <<Id(r), events[r]>> \in Rows
      BY DEF StageInv, Rows, ThreadTypes
    <3>3. /\ logs' \in Seq(Rows)
          /\ \E up : Tabulates(logs', stored', up)
      BY <2>2, <3>1, <3>2, StoreTabulates
    <3>4. PICK up : Tabulates(logs', stored', up)
      BY <3>3
    <3>5. Tabulates(logs, stored, up)'
      BY <1>0, <3>1, <3>4 DEF Tabulates, RowsAre, NoneMissing, IsLast
    <3>6. /\ stored' \in Seq(Requests) /\ HasLast(stored')
          /\ Len(stored') = Len(stored) + 1 /\ stored'[Len(stored) + 1] = r
          /\ \A k \in 1 .. Len(stored) : stored'[k] = stored[k]
      BY <3>1, <3>2, LastsGrow
    <3>7. HasLast(stored)'
      BY <1>0, <3>6 DEF HasLast, IsLast
    <3>8. StoredEnded'
      <4> SUFFICES ASSUME NEW k \in 1 .. Len(stored')
                   PROVE  pc'[stored'[k]] \in {"answering", "done"}
        BY DEF StoredEnded
      <4>1. CASE k \in 1 .. Len(stored)
        BY <2>1, <3>6, <4>1
      <4>2. CASE k = Len(stored) + 1
        BY <3>1, <3>6, <4>2
      <4> QED BY <3>2, <3>6, <4>1, <4>2
    <3> QED BY <1>0, <1>1, <1>2, <3>3, <3>5, <3>6, <3>7, <3>8 DEF StageInv
  <2>5. ASSUME NEW r \in Requests,
               \/ Reject(r) \/ LoadHistory(r) \/ WipeHistory(r) \/ WriteHistory(r)
               \/ PersistFails(r) \/ Start(r) \/ Log(r) \/ OpenTarget(r) \/ Label(r)
               \/ EndTarget(r) \/ TargetFails(r) \/ CommandFails(r) \/ Unsupported(r)
               \/ Exhausted(r) \/ Complete(r) \/ Disconnect(r) \/ StageFails(r) \/ Answer(r)
               \/ Swap(r) \/ PrintOut(r) \/ PrintLoading(r) \/ Restore(r)
        PROVE  UNCHANGED stageVars
    BY <2>5 DEF Reject, LoadHistory, WipeHistory, WriteHistory, PersistFails, commandVars,
       Start, Log, OpenTarget, Label, EndTarget, TargetFails, CommandFails, Unsupported,
       Exhausted, Complete, Disconnect, StageFails, Answer, Swap, PrintOut, PrintLoading, Restore, stageVars
  <2>6. UNCHANGED vars => UNCHANGED stageVars
    BY DEF vars, stageVars
  <2> QED BY <1>4, <2>3, <2>4, <2>5, <2>6 DEF Next
<1> QED BY <1>3, <1>4

(* A last storing without a row: the rows are of Capacity other ids, all   *)
(* stored later.                                                           *)
LEMMA GoneMeansManyLater ==
  ASSUME StageInv, NEW m \in 1 .. Len(stored), IsLast(stored, m),
         NEW at, RowsAre(logs, stored, at),
         Len(logs) = Capacity, \A i \in 1 .. Len(logs) : m < at[i]
  PROVE  ~(Cardinality(Later(stored[m])) <= Capacity)
<1> DEFINE late == {k \in DOMAIN stored : \E i \in 1 .. k : stored[i] = stored[m]}
           ids == Later(stored[m])
           name == [k \in late |-> Id(stored[k])]
           id == Id(stored[m])
           row == [i \in 1 .. Capacity |-> Id(stored[at[i]])]
<1>0. stored \in Seq(Requests) /\ Len(stored) \in Nat /\ DOMAIN stored = 1 .. Len(stored)
  BY DEF StageInv
<1>1. late \in SUBSET (1 .. Len(stored)) /\ ids = {name[k] : k \in late}
  BY <1>0 DEF Later
<1>2. Capacity \in Nat
  BY ConstantsOK
<1>3. IsFiniteSet(late)
  <2>1. IsFiniteSet(1 .. Len(stored))
    BY <1>0, FS_Interval
  <2> QED BY <1>1, <2>1, FS_Subset
<1>4. name \in Surjection(late, ids)
  BY <1>1 DEF Surjection
<1>5. IsFiniteSet(ids)
  BY <1>3, <1>4, FS_Surjection
<1>6. m \in late
  <2>1. m \in 1 .. m
    BY <1>0
  <2> QED BY <1>0, <2>1
<1>7. \A i \in 1 .. Capacity : at[i] \in late
  <2> SUFFICES ASSUME NEW i \in 1 .. Capacity PROVE at[i] \in late
    OBVIOUS
  <2>1. at[i] \in 1 .. Len(stored) /\ m < at[i]
    BY DEF RowsAre
  <2>2. m \in 1 .. at[i]
    BY <1>0, <2>1
  <2> QED BY <1>0, <2>1, <2>2
<1>8. id \in ids /\ \A i \in 1 .. Capacity : row[i] \in ids
  BY <1>1, <1>6, <1>7
<1>9. ASSUME NEW i \in 1 .. Capacity PROVE row[i] # id
  <2>1. m < at[i] /\ at[i] \in 1 .. Len(stored)
    BY DEF RowsAre
  <2>2. ~(at[i] <= m)
    BY <1>0, <2>1
  <2> QED BY <2>1, <2>2 DEF IsLast
<1>10. \A i, j \in 1 .. Capacity : row[i] = row[j] => i = j
  <2> SUFFICES ASSUME NEW i \in 1 .. Capacity, NEW j \in 1 .. Capacity, row[i] = row[j]
               PROVE  i = j
    OBVIOUS
  <2>1. /\ at[i] \in 1 .. Len(stored) /\ at[j] \in 1 .. Len(stored)
        /\ IsLast(stored, at[i]) /\ IsLast(stored, at[j])
        /\ (i < j => at[i] < at[j]) /\ (j < i => at[j] < at[i])
    BY DEF RowsAre
  <2>2. at[i] <= at[j] /\ at[j] <= at[i]
    BY <2>1 DEF IsLast
  <2> QED BY <1>2, <2>1, <2>2
<1> HIDE DEF ids, id, row
<1>11. row \in Injection(1 .. Capacity, ids \ {id})
  <2>1. row \in [1 .. Capacity -> ids \ {id}]
    BY <1>8, <1>9 DEF row
  <2> QED BY <1>10, <2>1 DEF Injection, IsInjective
<1>12. IsFiniteSet(ids \ {id}) /\ Cardinality(ids \ {id}) = Cardinality(ids) - 1
  BY <1>5, <1>8, FS_RemoveElement
<1>13. Cardinality(1 .. Capacity) <= Cardinality(ids \ {id})
  BY <1>11, <1>12, FS_Injection
<1>14. Cardinality(1 .. Capacity) = Capacity
  BY <1>2, FS_Interval
<1>15. Cardinality(ids) \in Nat
  BY <1>5, FS_CardinalityType
<1>16. ~(Cardinality(ids) <= Capacity)
  BY <1>2, <1>12, <1>13, <1>14, <1>15
<1> QED BY <1>16 DEF ids

LEMMA OneStage == ThreadTypes /\ StageInv => RecentLogsAreServed
<1> SUFFICES ASSUME ThreadTypes, StageInv, NEW i \in DOMAIN stored
             PROVE  LET id == Id(stored[i])
                        r == LastUnder(id) IN
                    /\ Cardinality(Later(r)) <= Capacity => LogsOf(id) = {events[r]}
                    /\ LogsOf(id) \subseteq {events[r]}
                    /\ \A j \in DOMAIN events[r] : events[r][j][2] = r
  BY DEF RecentLogsAreServed
<1> DEFINE id == Id(stored[i])
           IsIt(k) == Id(stored[k]) = id /\ \A j \in DOMAIN stored : Id(stored[j]) = id => j <= k
           m == CHOOSE k \in DOMAIN stored : IsIt(k)
           r == LastUnder(id)
<1>0. /\ stored \in Seq(Requests) /\ logs \in Seq(Rows)
      /\ DOMAIN stored = 1 .. Len(stored) /\ DOMAIN logs = 1 .. Len(logs)
  BY DEF StageInv
<1>1. r = stored[m]
  BY DEF LastUnder
<1>2. m \in 1 .. Len(stored) /\ Id(stored[m]) = id /\ IsLast(stored, m)
  <2>1. PICK l \in 1 .. Len(stored) : Id(stored[l]) = id /\ IsLast(stored, l)
    BY <1>0 DEF StageInv, HasLast
  <2>2. l \in DOMAIN stored /\ IsIt(l)
    BY <1>0, <2>1 DEF IsLast
  <2>3. m \in DOMAIN stored /\ IsIt(m)
    BY <2>2
  <2> QED BY <1>0, <2>3 DEF IsLast
<1> HIDE DEF m, r, id
<1>3. r \in Requests
  BY <1>0, <1>1, <1>2
<1>4. PICK at : Tabulates(logs, stored, at)
  BY DEF StageInv
<1>5. ASSUME NEW k \in 1 .. Len(logs), logs[k][1] = id
      PROVE  logs[k][2] = events[r]
  <2>1. /\ at[k] \in 1 .. Len(stored) /\ IsLast(stored, at[k])
        /\ Id(stored[at[k]]) = id /\ logs[k][2] = events[stored[at[k]]]
    BY <1>4, <1>5 DEF Tabulates, RowsAre
  <2>2. at[k] <= m /\ m <= at[k]
    BY <1>2, <2>1 DEF IsLast
  <2>3. at[k] = m
    BY <1>2, <2>1, <2>2
  <2> QED BY <1>1, <2>1, <2>3
<1>6. LogsOf(id) \subseteq {events[r]}
  BY <1>0, <1>5 DEF LogsOf
<1>7. ASSUME Cardinality(Later(r)) <= Capacity
      PROVE  events[r] \in LogsOf(id)
  <2>1. CASE \E k \in 1 .. Len(logs) : at[k] = m
    <3>1. PICK k \in 1 .. Len(logs) : at[k] = m
      BY <2>1
    <3>2. logs[k][1] = id
      BY <1>2, <1>4, <3>1 DEF Tabulates, RowsAre
    <3>3. logs[k][2] = events[r]
      BY <1>5, <3>2
    <3> QED BY <1>0, <3>2, <3>3 DEF LogsOf
  <2>2. CASE Len(logs) = Capacity /\ \A k \in 1 .. Len(logs) : m < at[k]
    <3>1. ~(Cardinality(Later(stored[m])) <= Capacity)
      BY <1>2, <1>4, <2>2, GoneMeansManyLater DEF Tabulates
    <3> QED BY <1>1, <1>7, <3>1
  <2> QED BY <1>2, <1>4, <2>1, <2>2 DEF Tabulates, NoneMissing
<1>8. \A j \in DOMAIN events[r] : events[r][j][2] = r
  <2>1. events[r] \in Seq(Event) /\ \A j \in 1 .. Len(events[r]) : events[r][j][2] = r
    BY <1>3 DEF StageInv, OwnEvents, ThreadTypes
  <2> QED BY <2>1
<1> QED BY <1>6, <1>7, <1>8 DEF id, r

(* The logs served for an id are those of the last request that stored      *)
(* under it, all of that request's own thread, and they are there until     *)
(* Capacity other ids have been stored later in this process.               *)
THEOREM LogsAreServed == Spec => []RecentLogsAreServed
<1>1. Init => Types
  BY InitTypes
<1>2. Init => StageInv
  <2> SUFFICES ASSUME Init PROVE StageInv
    OBVIOUS
  <2>1. logs = <<>> /\ stored = <<>> /\ events = [r \in Requests |-> <<>>]
    BY DEF Init
  <2> DEFINE at == [i \in 1 .. 0 |-> 0]
  <2>2. Tabulates(logs, stored, at)
    BY <2>1, ConstantsOK DEF Tabulates, RowsAre, NoneMissing
  <2>3. StoredEnded /\ HasLast(stored) /\ OwnEvents
    BY <2>1 DEF StoredEnded, HasLast, OwnEvents
  <2>4. logs \in Seq(Rows) /\ stored \in Seq(Requests)
    BY <2>1
  <2> QED BY <2>2, <2>3, <2>4 DEF StageInv
<1>3. ThreadTypes /\ StageInv /\ [Next]_vars => ThreadTypes' /\ StageInv'
  BY NextThreadTypes, NextStage
<1>4. Types => ThreadTypes
  BY DEF Types
<1> QED BY <1>1, <1>2, <1>3, <1>4, OneStage, PTL DEF Spec

--------------------------------------------------------------------------------
(* The language server.                                                    *)

Docs == {None} \cup [ver : Nat, text : Nat]
OneEdit == [from : Nat \cup {None}, to : Nat]
Edits == {es \in Seq(OneEdit) : Len(es) \in {1, 2}}
Message == [kind : {"initialized", "watched"}] \cup [kind : {"ask", "close"}, uri : Uris]
           \cup [kind : {"open"}, uri : Uris, ver : Nat, text : Nat]
           \cup [kind : {"change"}, uri : Uris, ver : Nat, edits : Edits]

EditorTypes ==
  /\ disk \in [Uris -> Nat] /\ texts \in Nat /\ buffer \in [Uris -> Docs]
  /\ inbox \in Seq(Message)
ParserTypes ==
  /\ document \in [Uris -> Docs] /\ cache = [u \in Uris |-> cache[u]]
  /\ tree = [u \in Uris |-> tree[u]] /\ shown = [u \in Uris |-> shown[u]]

LEMMA IntervalIsSeq ==
  ASSUME NEW S, NEW n \in Nat, NEW f \in [1 .. n -> S]
  PROVE  f \in Seq(S) /\ Len(f) = n
<1>1. f \in Seq(S)
  BY SeqDef
<1>2. Len(f) \in Nat /\ 1 .. Len(f) = 1 .. n
  BY <1>1, LenProperties
<1>3. Len(f) = n
  BY <1>2
<1> QED BY <1>1, <1>3

LEMMA MessageFields ==
  ASSUME NEW m \in Message
  PROVE  /\ m.kind \in {"ask", "close", "open", "change"} => m.uri \in Uris
         /\ m.kind = "open" => m.ver \in Nat /\ m.text \in Nat
         /\ m.kind = "change" => m.ver \in Nat /\ m.edits \in Edits
  BY DEF Message

LEMMA HandleTypes ==
  ASSUME EditorTypes, NEW kind, L!Handle(kind)
  PROVE  /\ Head(inbox) \in Message /\ Head(inbox).kind = kind /\ inbox # <<>>
         /\ inbox' = Tail(inbox) /\ UNCHANGED <<disk, buffer, texts, changed>>
         /\ EditorTypes'
<1>1. inbox # <<>> /\ Head(inbox).kind = kind /\ inbox' = Tail(inbox)
      /\ UNCHANGED <<disk, buffer, texts, changed>>
  BY DEF L!Handle, L!editor
<1>2. Head(inbox) \in Message /\ Tail(inbox) \in Seq(Message)
  BY <1>1, HeadTailProperties DEF EditorTypes
<1> QED BY <1>1, <1>2 DEF EditorTypes

(* What the editor sends.                                                  *)
LEMMA OpenSends ==
  ASSUME EditorTypes, NEW u \in Uris, L!Open(u)
  PROVE  \E v \in Nat :
           LET m == [kind |-> "open", uri |-> u, ver |-> v, text |-> disk[u]] IN
           /\ m \in Message /\ inbox' = Append(inbox, m) /\ buffer[u] = None
           /\ buffer' = [buffer EXCEPT ![u] = L!Copy(v, disk[u])]
           /\ L!Copy(v, disk[u]) \in Docs /\ UNCHANGED <<disk, texts>>
<1>1. PICK v \in FirstVersions :
        /\ buffer[u] = None /\ buffer' = [buffer EXCEPT ![u] = L!Copy(v, disk[u])]
        /\ L!Send([kind |-> "open", uri |-> u, ver |-> v, text |-> disk[u]])
        /\ UNCHANGED <<disk, texts>>
  BY DEF L!Open
<1>2. v \in Nat /\ disk[u] \in Nat
  BY <1>1, EditorConstantsOK DEF EditorTypes
<1>3. [kind |-> "open", uri |-> u, ver |-> v, text |-> disk[u]] \in Message
  BY <1>2 DEF Message
<1>4. L!Copy(v, disk[u]) \in Docs
  BY <1>2 DEF L!Copy, Docs
<1> QED BY <1>1, <1>2, <1>3, <1>4 DEF L!Send

LEMMA ChangeSends ==
  ASSUME EditorTypes, NEW u \in Uris, L!Change(u)
  PROVE  \E es \in Edits :
           LET m == [kind |-> "change", uri |-> u, ver |-> buffer[u].ver + 1, edits |-> es] IN
           /\ m \in Message /\ inbox' = Append(inbox, m) /\ buffer[u] # None
           /\ es[1].from \in {None, buffer[u].text}
           /\ Len(es) = 2 => es[2].from \in {None, es[1].to}
           /\ buffer' = [buffer EXCEPT ![u] = L!Copy(buffer[u].ver + 1, es[Len(es)].to)]
           /\ L!Copy(buffer[u].ver + 1, es[Len(es)].to) \in Docs
           /\ disk' = disk /\ texts' \in Nat
<1>1. PICK n \in 1 .. 2, whole \in BOOLEAN :
        /\ buffer[u] # None /\ texts' = texts + n
        /\ buffer' = [buffer EXCEPT ![u] = L!Copy(@.ver + 1, texts + n)]
        /\ L!Send([kind |-> "change", uri |-> u, ver |-> buffer[u].ver + 1,
             edits |-> IF whole THEN <<L!Edit(None, texts + n)>>
                       ELSE [i \in 1 .. n |->
                         L!Edit(IF i = 1 THEN buffer[u].text ELSE texts + i - 1, texts + i)]])
        /\ disk' = disk
  BY DEF L!Change
<1> DEFINE es == IF whole THEN <<L!Edit(None, texts + n)>>
                 ELSE [i \in 1 .. n |->
                   L!Edit(IF i = 1 THEN buffer[u].text ELSE texts + i - 1, texts + i)]
<1>2. buffer[u].ver \in Nat /\ buffer[u].text \in Nat /\ texts \in Nat /\ n \in Nat
  BY <1>1 DEF EditorTypes, Docs
<1>3. /\ es \in Seq(OneEdit) /\ Len(es) \in {1, 2} /\ es[Len(es)].to = texts + n
      /\ es[1].from \in {None, buffer[u].text}
      /\ Len(es) = 2 => es[2].from \in {None, es[1].to}
  <2>1. CASE whole
    <3>1. L!Edit(None, texts + n) \in OneEdit
      BY <1>2 DEF L!Edit, OneEdit
    <3>2. es = <<L!Edit(None, texts + n)>>
      BY <2>1
    <3>3. es \in Seq(OneEdit) /\ Len(es) = 1 /\ es[1] = L!Edit(None, texts + n)
      BY <3>1, <3>2
    <3> QED BY <3>3 DEF L!Edit
  <2>2. CASE ~whole /\ n = 1
    <3>1. L!Edit(buffer[u].text, texts + 1) \in OneEdit
      BY <1>2 DEF L!Edit, OneEdit
    <3>2. es = [i \in 1 .. 1 |-> L!Edit(buffer[u].text, texts + 1)]
      BY <2>2
    <3> HIDE DEF es
    <3>3. es \in [1 .. 1 -> OneEdit] /\ es[1] = L!Edit(buffer[u].text, texts + 1)
      BY <3>1, <3>2
    <3>4. es \in Seq(OneEdit) /\ Len(es) = 1
      BY <3>3, IntervalIsSeq
    <3> QED BY <2>2, <3>3, <3>4 DEF L!Edit
  <2>3. CASE ~whole /\ n = 2
    <3>1. /\ L!Edit(buffer[u].text, texts + 1) \in OneEdit
          /\ L!Edit(texts + 1, texts + 2) \in OneEdit
      BY <1>2 DEF L!Edit, OneEdit
    <3>2. es = [i \in 1 .. 2 |-> IF i = 1 THEN L!Edit(buffer[u].text, texts + 1)
                                         ELSE L!Edit(texts + 1, texts + 2)]
      BY <1>2, <2>3
    <3> HIDE DEF es
    <3>3. /\ es \in [1 .. 2 -> OneEdit] /\ es[1] = L!Edit(buffer[u].text, texts + 1)
          /\ es[2] = L!Edit(texts + 1, texts + 2)
      BY <3>1, <3>2
    <3>4. es \in Seq(OneEdit) /\ Len(es) = 2
      BY <3>3, IntervalIsSeq
    <3> QED BY <2>3, <3>3, <3>4 DEF L!Edit
  <2> QED BY <2>1, <2>2, <2>3
<1>4. es \in Edits
  BY <1>3 DEF Edits
<1> HIDE DEF es
<1>5. buffer[u].ver + 1 \in Nat /\ texts + n \in Nat
  BY <1>2
<1>6. [kind |-> "change", uri |-> u, ver |-> buffer[u].ver + 1, edits |-> es] \in Message
  BY <1>4, <1>5 DEF Message
<1>7. L!Copy(buffer[u].ver + 1, es[Len(es)].to) \in Docs
  BY <1>3, <1>5 DEF L!Copy, Docs
<1>8. inbox' = Append(inbox, [kind |-> "change", uri |-> u, ver |-> buffer[u].ver + 1, edits |-> es])
  BY <1>1 DEF L!Send, es
<1>9. buffer' = [buffer EXCEPT ![u] = L!Copy(buffer[u].ver + 1, es[Len(es)].to)]
  BY <1>1, <1>3
<1> QED BY <1>1, <1>3, <1>4, <1>5, <1>6, <1>7, <1>8, <1>9

LEMMA EditorInit == L!Init => EditorTypes /\ ParserTypes
<1> SUFFICES ASSUME L!Init PROVE EditorTypes /\ ParserTypes
  OBVIOUS
<1>1. [kind |-> "initialized"] \in Message
  BY DEF Message
<1>2. inbox \in Seq(Message)
  BY <1>1 DEF L!Init
<1>3. EditorTypes
  BY <1>2 DEF L!Init, EditorTypes, Docs
<1>4. ParserTypes
  BY DEF L!Init, ParserTypes, Docs
<1> QED BY <1>3, <1>4

LEMMA NextEditorTypes ==
  ASSUME EditorTypes, [L!Next]_L!vars
  PROVE  EditorTypes'
<1>1. ASSUME NEW u \in Uris, L!Open(u)
      PROVE  EditorTypes'
  <2>1. PICK v \in Nat :
          LET m == [kind |-> "open", uri |-> u, ver |-> v, text |-> disk[u]] IN
          /\ m \in Message /\ inbox' = Append(inbox, m)
          /\ buffer' = [buffer EXCEPT ![u] = L!Copy(v, disk[u])]
          /\ L!Copy(v, disk[u]) \in Docs /\ UNCHANGED <<disk, texts>>
    BY <1>1, OpenSends
  <2> QED BY <2>1, AppendProperties DEF EditorTypes
<1>2. ASSUME NEW u \in Uris, L!Change(u)
      PROVE  EditorTypes'
  <2>1. PICK es \in Edits :
          LET m == [kind |-> "change", uri |-> u, ver |-> buffer[u].ver + 1, edits |-> es] IN
          /\ m \in Message /\ inbox' = Append(inbox, m)
          /\ buffer' = [buffer EXCEPT ![u] = L!Copy(buffer[u].ver + 1, es[Len(es)].to)]
          /\ L!Copy(buffer[u].ver + 1, es[Len(es)].to) \in Docs
          /\ disk' = disk /\ texts' \in Nat
    BY <1>2, ChangeSends
  <2> QED BY <2>1, AppendProperties DEF EditorTypes
<1>3. ASSUME NEW u \in Uris, L!Close(u) \/ L!Ask(u)
      PROVE  EditorTypes'
  <2>1. /\ [kind |-> "close", uri |-> u] \in Message /\ [kind |-> "ask", uri |-> u] \in Message
        /\ None \in Docs
    BY DEF Message, Docs
  <2>2. \E m \in Message : inbox' = Append(inbox, m)
    BY <1>3, <2>1 DEF L!Close, L!Ask, L!Send
  <2>3. inbox' \in Seq(Message)
    BY <2>2, AppendProperties DEF EditorTypes
  <2>4. UNCHANGED <<disk, texts>> /\ buffer' \in {buffer, [buffer EXCEPT ![u] = None]}
    BY <1>3 DEF L!Close, L!Ask, L!editor
  <2> QED BY <2>1, <2>3, <2>4 DEF EditorTypes
<1>4. ASSUME NEW u \in Uris, L!Write(u)
      PROVE  EditorTypes'
  <2>1. PICK t \in {texts + 1} \union (IF buffer[u] = None THEN {} ELSE {buffer[u].text}) :
          /\ disk' = [disk EXCEPT ![u] = t] /\ texts' = IF t > texts THEN t ELSE texts
          /\ UNCHANGED <<buffer, inbox>>
    BY <1>4 DEF L!Write
  <2>2. t \in Nat
    BY <2>1 DEF EditorTypes, Docs
  <2> QED BY <2>1, <2>2 DEF EditorTypes
<1>5. CASE L!Notify
  <2>1. [kind |-> "watched"] \in Message
    BY DEF Message
  <2> QED BY <1>5, <2>1, AppendProperties DEF L!Notify, EditorTypes
<1>6. CASE L!Watch
  BY <1>6 DEF L!Watch, L!editor, EditorTypes
<1>7. CASE \/ L!OnInitialized \/ L!OnWatched \/ L!OnOpen \/ L!OnChange \/ L!OnClose \/ L!OnAsk
  <2>1. \E kind \in {"initialized", "watched", "open", "change", "close", "ask"} : L!Handle(kind)
    BY <1>7 DEF L!OnInitialized, L!OnWatched, L!OnOpen, L!OnChange, L!OnClose, L!OnAsk
  <2> QED BY <2>1, HandleTypes
<1>8. CASE UNCHANGED L!vars
  BY <1>8 DEF L!vars, EditorTypes
<1> QED
  BY <1>1, <1>2, <1>3, <1>4, <1>5, <1>6, <1>7, <1>8 DEF L!Next

--------------------------------------------------------------------------------
(* EvaluatorCatchesUp.  The evaluator is of the files as they are once they *)
(* are watched, unless a change of them is still to be told.               *)
Current ==
  IF L!Broken(disk) THEN evaluator = None /\ failed = disk
  ELSE evaluator = disk /\ failed = None
Quiet(q) == \A i \in 1 .. Len(q) : q[i].kind # "watched"
CatchUpInv == watcher # "none" /\ ~missed /\ ~changed /\ Quiet(inbox) => Current

LEMMA QuietGrows ==
  ASSUME NEW q \in Seq(Message), NEW m \in Message
  PROVE  Quiet(Append(q, m)) <=> Quiet(q) /\ m.kind # "watched"
<1>1. /\ Len(q) \in Nat /\ Len(Append(q, m)) = Len(q) + 1 /\ Append(q, m)[Len(q) + 1] = m
      /\ \A i \in 1 .. Len(q) : Append(q, m)[i] = q[i]
  BY AppendProperties, LenProperties
<1> QED BY <1>1 DEF Quiet

LEMMA QuietShrinks ==
  ASSUME NEW q \in Seq(Message), q # <<>>, Quiet(Tail(q)), Head(q).kind # "watched"
  PROVE  Quiet(q)
<1>1. /\ Len(q) \in Nat /\ Len(Tail(q)) = Len(q) - 1 /\ Head(q) = q[1]
      /\ \A i \in 1 .. Len(Tail(q)) : Tail(q)[i] = q[i + 1]
  BY HeadTailProperties, LenProperties
<1>2. ASSUME NEW i \in 1 .. Len(q) PROVE q[i].kind # "watched"
  <2>1. CASE i = 1
    BY <1>1, <2>1
  <2>2. CASE i # 1
    <3>1. i - 1 \in 1 .. Len(Tail(q)) /\ (i - 1) + 1 = i
      BY <1>1, <2>2
    <3>2. Tail(q)[i - 1] = q[i]
      BY <1>1, <3>1
    <3> QED BY <3>1, <3>2 DEF Quiet
  <2> QED BY <2>1, <2>2
<1> QED BY <1>2 DEF Quiet

(* A message of the editor that is no report of changed files.             *)
LEMMA SentQuietly ==
  ASSUME EditorTypes, CatchUpInv, NEW m \in Message, m.kind # "watched",
         inbox' = Append(inbox, m), disk' = disk,
         UNCHANGED <<evaluator, failed, watcher, missed, changed>>
  PROVE  CatchUpInv'
<1>1. Quiet(inbox') <=> Quiet(inbox)
  BY QuietGrows DEF EditorTypes
<1>2. Current' = Current
  BY DEF Current, L!Broken
<1> QED BY <1>1, <1>2 DEF CatchUpInv

LEMMA HandledQuietly ==
  ASSUME EditorTypes, CatchUpInv, NEW kind, L!Handle(kind), kind # "watched",
         UNCHANGED <<evaluator, failed, watcher, missed>>
  PROVE  CatchUpInv'
<1>1. /\ inbox # <<>> /\ Head(inbox).kind = kind /\ inbox' = Tail(inbox)
      /\ UNCHANGED <<disk, changed>>
  BY HandleTypes
<1>2. Quiet(inbox') => Quiet(inbox)
  BY <1>1, QuietShrinks DEF EditorTypes
<1>3. Current' = Current
  BY <1>1 DEF Current, L!Broken
<1> QED BY <1>1, <1>2, <1>3 DEF CatchUpInv

LEMMA NextCatchesUp ==
  ASSUME EditorTypes, CatchUpInv, [L!Next]_L!vars
  PROVE  CatchUpInv'
<1>1. ASSUME NEW u \in Uris, L!Open(u)
      PROVE  CatchUpInv'
  <2>1. \E m \in Message : m.kind # "watched" /\ inbox' = Append(inbox, m)
    BY <1>1, OpenSends
  <2>2. disk' = disk /\ UNCHANGED <<evaluator, failed, watcher, missed, changed>>
    BY <1>1 DEF L!Open, L!Untouched, L!loaded
  <2> QED BY <2>1, <2>2, SentQuietly
<1>2. ASSUME NEW u \in Uris, L!Change(u)
      PROVE  CatchUpInv'
  <2>1. \E m \in Message : m.kind # "watched" /\ inbox' = Append(inbox, m)
    BY <1>2, ChangeSends
  <2>2. disk' = disk /\ UNCHANGED <<evaluator, failed, watcher, missed, changed>>
    BY <1>2 DEF L!Change, L!Untouched, L!loaded
  <2> QED BY <2>1, <2>2, SentQuietly
<1>3. ASSUME NEW u \in Uris, L!Close(u) \/ L!Ask(u)
      PROVE  CatchUpInv'
  <2>1. [kind |-> "close", uri |-> u] \in Message /\ [kind |-> "ask", uri |-> u] \in Message
    BY DEF Message
  <2>2. \E m \in Message : m.kind # "watched" /\ inbox' = Append(inbox, m)
    BY <1>3, <2>1 DEF L!Close, L!Ask, L!Send
  <2>3. disk' = disk /\ UNCHANGED <<evaluator, failed, watcher, missed, changed>>
    BY <1>3 DEF L!Close, L!Ask, L!Untouched, L!loaded, L!editor
  <2> QED BY <2>2, <2>3, SentQuietly
<1>4. ASSUME NEW u \in Uris, L!Write(u)
      PROVE  CatchUpInv'
  <2>1. watcher' = watcher /\ (changed' \/ missed')
    BY <1>4 DEF L!Write
  <2> QED BY <2>1 DEF CatchUpInv
<1>5. CASE L!Notify
  <2>1. [kind |-> "watched"] \in Message /\ inbox' = Append(inbox, [kind |-> "watched"])
    BY <1>5 DEF L!Notify, Message
  <2>2. ~Quiet(inbox')
    BY <2>1, QuietGrows DEF EditorTypes
  <2> QED BY <2>2 DEF CatchUpInv
<1>6. CASE L!Watch
  BY <1>6 DEF L!Watch, L!editor, CatchUpInv, Current, L!Broken
<1>7. CASE L!OnInitialized \/ L!OnWatched
  <2>1. disk' = disk /\ L!Load
    BY <1>7, HandleTypes DEF L!OnInitialized, L!OnWatched
  <2>2. Current'
    BY <2>1 DEF L!Load, Current, L!Broken
  <2> QED BY <2>2 DEF CatchUpInv
<1>8. CASE L!OnOpen \/ L!OnChange \/ L!OnClose \/ L!OnAsk
  <2>1. /\ \E kind \in {"open", "change", "close", "ask"} : L!Handle(kind)
        /\ UNCHANGED <<evaluator, failed, watcher, missed>>
    BY <1>8 DEF L!OnOpen, L!OnChange, L!OnClose, L!OnAsk, L!loaded
  <2> QED BY <2>1, HandledQuietly
<1>9. CASE UNCHANGED L!vars
  BY <1>9 DEF L!vars, CatchUpInv, Current, L!Broken
<1> QED
  BY <1>1, <1>2, <1>3, <1>4, <1>5, <1>6, <1>7, <1>8, <1>9 DEF L!Next

(* No evaluator of older files outlives their change once it was reported.  *)
THEOREM EvaluatorIsOfFiles == L!Spec => []EvaluatorCatchesUp
<1>1. L!Init => EditorTypes /\ CatchUpInv
  BY EditorInit DEF L!Init, CatchUpInv
<1>2. EditorTypes /\ CatchUpInv /\ [L!Next]_L!vars => EditorTypes' /\ CatchUpInv'
  BY NextEditorTypes, NextCatchesUp
<1>3. EditorTypes /\ CatchUpInv => EvaluatorCatchesUp
  <2>1. EditorTypes => DOMAIN inbox = 1 .. Len(inbox)
    BY LenProperties DEF EditorTypes
  <2> QED BY <2>1 DEF CatchUpInv, EvaluatorCatchesUp, L!EvaluatorCatchesUp, Quiet, Current
<1> QED BY <1>1, <1>2, <1>3, PTL DEF L!Spec

--------------------------------------------------------------------------------
(* TreeIsOfBuffer.  The messages on their way lead each document from what  *)
(* the server has to what the editor has: h lists its copies in between.   *)
IsFor(m, u) == m.kind \in {"open", "change", "close"} /\ m.uri = u
After(m) ==
  CASE m.kind = "open" -> L!Copy(m.ver, m.text)
    [] m.kind = "change" -> L!Copy(m.ver, m.edits[Len(m.edits)].to)
    [] OTHER -> None
Fits(d, m) ==
  /\ m.kind = "open" <=> d = None
  /\ m.kind = "change" =>
       /\ m.ver = d.ver + 1 /\ m.edits[1].from \in {None, d.text}
       /\ Len(m.edits) = 2 => m.edits[2].from \in {None, m.edits[1].to}
Steady(h, u, q) ==
  \A i, j \in 0 .. Len(q) :
    i <= j /\ (\A k \in i + 1 .. j : ~IsFor(q[k], u)) => h[i] = h[j]
Leads(h, u, q, d, b) ==
  /\ h \in [0 .. Len(q) -> Docs] /\ h[0] = d /\ h[Len(q)] = b
  /\ \A i \in 1 .. Len(q) : IsFor(q[i], u) => Fits(h[i - 1], q[i]) /\ h[i] = After(q[i])
  /\ Steady(h, u, q)
Reaches(u) == \E h : Leads(h, u, inbox, document[u], buffer[u])

LEMMA LeadsFurther ==
  ASSUME NEW u, NEW q \in Seq(Message), NEW m \in Message, NEW h, NEW d, NEW b,
         NEW c \in Docs, Leads(h, u, q, d, b),
         IF IsFor(m, u) THEN Fits(b, m) /\ c = After(m) ELSE c = b
  PROVE  \E g : Leads(g, u, Append(q, m), d, c)
<1> DEFINE n == Len(q)
           r == Append(q, m)
           g == [i \in 0 .. n + 1 |-> IF i <= n THEN h[i] ELSE c]
<1>1. n \in Nat /\ Len(r) = n + 1 /\ r[n + 1] = m /\ \A i \in 1 .. n : r[i] = q[i]
  BY AppendProperties, LenProperties
<1>2. /\ h \in [0 .. n -> Docs] /\ h[0] = d /\ h[n] = b
      /\ \A i \in 1 .. n : IsFor(q[i], u) => Fits(h[i - 1], q[i]) /\ h[i] = After(q[i])
      /\ Steady(h, u, q)
  BY DEF Leads
<1>3. g \in [0 .. n + 1 -> Docs] /\ (\A i \in 0 .. n : g[i] = h[i]) /\ g[n + 1] = c
  BY <1>1, <1>2
<1> HIDE DEF n, r, g
<1>4. ASSUME NEW i \in 1 .. n + 1, IsFor(r[i], u)
      PROVE  Fits(g[i - 1], r[i]) /\ g[i] = After(r[i])
  <2>1. CASE i = n + 1
    <3>1. i - 1 = n /\ n \in 0 .. n
      BY <1>1, <2>1
    <3> QED BY <1>1, <1>2, <1>3, <1>4, <2>1, <3>1
  <2>2. CASE i # n + 1
    <3>1. i \in 1 .. n /\ i \in 0 .. n /\ i - 1 \in 0 .. n
      BY <1>1, <2>2
    <3> QED BY <1>1, <1>2, <1>3, <1>4, <3>1
  <2> QED BY <2>1, <2>2
<1>5. ASSUME NEW i \in 0 .. n + 1, NEW j \in 0 .. n + 1, i <= j,
             \A k \in i + 1 .. j : ~IsFor(r[k], u)
      PROVE  g[i] = g[j]
  <2>1. CASE i = j
    BY <2>1
  <2>2. CASE j # n + 1
    <3>1. i \in 0 .. n /\ j \in 0 .. n /\ \A k \in i + 1 .. j : k \in 1 .. n
      BY <1>1, <1>5, <2>2
    <3>2. h[i] = h[j]
      BY <1>1, <1>2, <1>5, <3>1 DEF Steady, n
    <3> QED BY <1>3, <3>1, <3>2
  <2>3. CASE i # j /\ j = n + 1
    <3>1. i \in 0 .. n /\ n \in 0 .. n /\ i <= n /\ n + 1 \in i + 1 .. j
      BY <1>1, <1>5, <2>3
    <3>2. \A k \in i + 1 .. n : k \in 1 .. n /\ k \in i + 1 .. j
      BY <1>1, <2>3, <3>1
    <3>3. c = b
      BY <1>1, <1>5, <3>1
    <3>4. \A k \in i + 1 .. n : ~IsFor(q[k], u)
      BY <1>1, <1>5, <3>2
    <3>5. h[i] = h[n]
      BY <1>2, <3>1, <3>4 DEF Steady, n
    <3> QED BY <1>2, <1>3, <2>3, <3>1, <3>3, <3>5
  <2> QED BY <2>1, <2>2, <2>3
<1>6. 0 \in 0 .. n
  BY <1>1
<1>7. Steady(g, u, r)
  BY <1>1, <1>5 DEF Steady
<1>8. Leads(g, u, r, d, c)
  BY <1>1, <1>2, <1>3, <1>4, <1>6, <1>7 DEF Leads
<1> QED BY <1>8 DEF r

LEMMA LeadsOn ==
  ASSUME NEW u, NEW q \in Seq(Message), q # <<>>, NEW h, NEW d, NEW b, Leads(h, u, q, d, b)
  PROVE  /\ IF IsFor(Head(q), u) THEN Fits(d, Head(q)) /\ h[1] = After(Head(q)) ELSE h[1] = d
         /\ \E g : Leads(g, u, Tail(q), h[1], b)
<1> DEFINE n == Len(q) - 1
           r == Tail(q)
           g == [i \in 0 .. n |-> h[i + 1]]
<1>1. /\ n \in Nat /\ Len(q) = n + 1 /\ Len(r) = n /\ Head(q) = q[1]
      /\ \A i \in 1 .. n : r[i] = q[i + 1]
  BY HeadTailProperties, LenProperties, EmptySeq
<1> HIDE DEF n, r
<1>2. /\ h \in [0 .. n + 1 -> Docs] /\ h[0] = d /\ h[n + 1] = b
      /\ \A i \in 1 .. n + 1 : IsFor(q[i], u) => Fits(h[i - 1], q[i]) /\ h[i] = After(q[i])
      /\ Steady(h, u, q)
  BY <1>1 DEF Leads
<1>3. g \in [0 .. n -> Docs] /\ \A i \in 0 .. n : g[i] = h[i + 1]
  BY <1>1, <1>2
<1> HIDE DEF g
<1>4. ASSUME NEW i \in 1 .. n, IsFor(r[i], u)
      PROVE  Fits(g[i - 1], r[i]) /\ g[i] = After(r[i])
  <2>1. /\ i + 1 \in 1 .. n + 1 /\ i - 1 \in 0 .. n /\ i \in 0 .. n
        /\ (i - 1) + 1 = i /\ (i + 1) - 1 = i
    BY <1>1
  <2>2. r[i] = q[i + 1] /\ g[i] = h[i + 1] /\ g[i - 1] = h[(i + 1) - 1]
    BY <1>1, <1>3, <2>1
  <2> QED BY <1>2, <1>4, <2>1, <2>2
<1>5. ASSUME NEW i \in 0 .. n, NEW j \in 0 .. n, i <= j,
             \A k \in i + 1 .. j : ~IsFor(r[k], u)
      PROVE  g[i] = g[j]
  <2>1. i + 1 \in 0 .. n + 1 /\ j + 1 \in 0 .. n + 1 /\ i + 1 <= j + 1
    BY <1>1, <1>5
  <2>2. ASSUME NEW k \in (i + 1) + 1 .. j + 1 PROVE ~IsFor(q[k], u)
    <3>1. k - 1 \in i + 1 .. j /\ k - 1 \in 1 .. n /\ (k - 1) + 1 = k
      BY <1>1
    <3>2. r[k - 1] = q[k]
      BY <1>1, <3>1
    <3> QED BY <1>5, <3>1, <3>2
  <2>3. h[i + 1] = h[j + 1]
    BY <1>1, <1>2, <2>1, <2>2 DEF Steady
  <2> QED BY <1>3, <2>3
<1>6. Steady(g, u, r)
  BY <1>1, <1>5 DEF Steady
<1>7. 0 \in 0 .. n /\ n \in 0 .. n /\ 0 + 1 = 1 /\ 1 \in 1 .. n + 1 /\ 1 - 1 = 0
  BY <1>1
<1>8. g[0] = h[1] /\ g[n] = b
  BY <1>2, <1>3, <1>7
<1>9. Leads(g, u, r, h[1], b)
  BY <1>1, <1>3, <1>4, <1>6, <1>8 DEF Leads
<1>10. CASE IsFor(Head(q), u)
  BY <1>1, <1>2, <1>7, <1>9, <1>10 DEF r
<1>11. CASE ~IsFor(Head(q), u)
  <2>1. \A k \in 0 + 1 .. 1 : k = 1
    BY <1>7
  <2>2. 0 \in 0 .. Len(q) /\ 1 \in 0 .. Len(q) /\ 0 <= 1
    BY <1>1
  <2>3. h[0] = h[1]
    BY <1>1, <1>2, <1>11, <2>1, <2>2 DEF Steady
  <2> QED BY <1>2, <1>9, <1>11, <2>3 DEF r
<1> QED BY <1>10, <1>11

LEMMA LastEdit ==
  ASSUME NEW es \in Edits
  PROVE  es[Len(es)] \in OneEdit
<1>1. es \in Seq(OneEdit) /\ Len(es) \in 1 .. Len(es)
  BY DEF Edits
<1> QED BY <1>1, ElementOfSeq

(* One edit or two, applied in their order to the text they were made on.  *)
LEMMA AppliedInOrder ==
  ASSUME NEW es \in Edits, NEW t,
         es[1].from \in {None, t},
         Len(es) = 2 => es[2].from \in {None, es[1].to}
  PROVE  L!Apply(es, t) = es[Len(es)].to
<1> DEFINE one == L!Applied(es[1], t)
           two == L!Applied(es[2], one)
           Def(f) == [i \in 0 .. Len(es) |->
                        IF i = 0 THEN t ELSE L!Applied(es[i], f[i - 1])]
           g == [i \in 0 .. Len(es) |-> IF i = 0 THEN t ELSE IF i = 1 THEN one ELSE two]
           after == CHOOSE f : f = Def(f)
<1>1. Len(es) \in {1, 2}
  BY DEF Edits
<1>2. g = Def(g)
  <2> HIDE DEF one, two
  <2>1. \A i \in 0 .. Len(es) : g[i] = IF i = 0 THEN t ELSE L!Applied(es[i], g[i - 1])
    BY <1>1 DEF one, two
  <2> QED BY <2>1
<1>3. after = Def(after)
  BY <1>2
<1>4. L!Apply(es, t) = after[Len(es)]
  BY DEF L!Apply
<1> HIDE DEF after
<1>5. after[0] = t
  BY <1>1, <1>3
<1>6. after[1] = es[1].to
  <2>1. after[1] = L!Applied(es[1], after[0])
    BY <1>1, <1>3
  <2> QED BY <1>5, <2>1 DEF L!Applied
<1>7. Len(es) = 2 => after[2] = es[2].to
  <2>1. Len(es) = 2 => after[2] = L!Applied(es[2], after[1])
    BY <1>3
  <2> QED BY <1>6, <2>1 DEF L!Applied
<1> QED BY <1>1, <1>4, <1>6, <1>7

(* A document that is closed was not parsed, or as version 0; one that is   *)
(* open is what was parsed, and the editor shows the diagnostics of its tree. *)
ClosedTree(d, c) == d = None => c = None \/ c.ver = 0
OpenTree(d, c, s, t, reused) ==
  d # None => c = d /\ s.text = t /\ (~reused => t = d.text)
BufferInv ==
  \A u \in Uris :
    /\ Reaches(u) /\ ClosedTree(document[u], cache[u])
    /\ u \notin away => OpenTree(document[u], cache[u], shown[u], tree[u], u \in over)

LEMMA SentReaches ==
  ASSUME EditorTypes, EditorTypes', BufferInv, NEW m \in Message, inbox' = Append(inbox, m),
         \A u \in Uris : IF IsFor(m, u) THEN Fits(buffer[u], m) /\ buffer'[u] = After(m)
                                        ELSE buffer'[u] = buffer[u],
         L!Untouched
  PROVE  BufferInv'
<1>1. UNCHANGED <<document, cache, tree, shown, away, over>>
  BY DEF L!Untouched, L!parsed
<1>2. ASSUME NEW u \in Uris PROVE Reaches(u)'
  <2>1. PICK h : Leads(h, u, inbox, document[u], buffer[u])
    BY DEF BufferInv, Reaches
  <2>2. buffer'[u] \in Docs /\ inbox \in Seq(Message)
    BY DEF EditorTypes
  <2>3. \E g : Leads(g, u, Append(inbox, m), document[u], buffer'[u])
    BY <2>1, <2>2, LeadsFurther
  <2> QED BY <1>1, <2>3 DEF Reaches
<1> QED BY <1>1, <1>2 DEF BufferInv

LEMMA HandledReaches ==
  ASSUME EditorTypes, BufferInv, NEW kind, L!Handle(kind), NEW u \in Uris
  PROVE  LET m == Head(inbox) IN
         /\ IsFor(m, u) => Fits(document[u], m)
         /\ document'[u] = (IF IsFor(m, u) THEN After(m) ELSE document[u]) => Reaches(u)'
<1>1. inbox # <<>> /\ inbox' = Tail(inbox) /\ buffer' = buffer /\ inbox \in Seq(Message)
  BY HandleTypes DEF EditorTypes
<1>2. PICK h : Leads(h, u, inbox, document[u], buffer[u])
  BY DEF BufferInv, Reaches
<1>3. /\ IF IsFor(Head(inbox), u)
         THEN Fits(document[u], Head(inbox)) /\ h[1] = After(Head(inbox)) ELSE h[1] = document[u]
      /\ \E g : Leads(g, u, Tail(inbox), h[1], buffer[u])
  BY <1>1, <1>2, LeadsOn
<1> QED BY <1>1, <1>3 DEF Reaches

LEMMA NextParserTypes ==
  ASSUME EditorTypes, ParserTypes, [L!Next]_L!vars
  PROVE  ParserTypes'
<1>1. CASE L!OnOpen
  <2>1. Head(inbox) \in Message /\ Head(inbox).kind = "open"
    BY <1>1, HandleTypes DEF L!OnOpen
  <2>2. L!Copy(Head(inbox).ver, Head(inbox).text) \in Docs
    BY <2>1, MessageFields DEF L!Copy, Docs
  <2> QED BY <1>1, <2>2 DEF L!OnOpen, L!Update, L!Publish, ParserTypes
<1>2. CASE L!OnChange
  <2>1. Head(inbox) \in Message /\ Head(inbox).kind = "change"
    BY <1>2, HandleTypes DEF L!OnChange
  <2>2. Head(inbox).ver \in Nat /\ Head(inbox).edits \in Edits
    BY <2>1, MessageFields
  <2>3. LET es == Head(inbox).edits IN es[Len(es)] \in OneEdit
    BY <2>2, LastEdit
  <2>4. L!Copy(Head(inbox).ver, Head(inbox).edits[Len(Head(inbox).edits)].to) \in Docs
    BY <2>2, <2>3 DEF L!Copy, Docs, OneEdit
  <2>5. document' \in [Uris -> Docs]
    BY <1>2, <2>4 DEF L!OnChange, ParserTypes
  <2>6. /\ cache' = [u \in Uris |-> cache'[u]] /\ shown' = [u \in Uris |-> shown'[u]]
        /\ tree' = [u \in Uris |-> tree'[u]]
    BY <1>2 DEF L!OnChange, L!Update, L!Publish, ParserTypes
  <2> QED BY <2>5, <2>6 DEF ParserTypes
<1>3. CASE L!OnClose
  <2>1. None \in Docs
    BY DEF Docs
  <2> QED BY <1>3, <2>1 DEF L!OnClose, ParserTypes
<1>4. CASE L!OnAsk
  BY <1>4 DEF L!OnAsk, L!Update, ParserTypes
<1>5. CASE UNCHANGED L!parsed
  BY <1>5 DEF L!parsed, ParserTypes
<1>6. ASSUME NEW u \in Uris, L!Open(u) \/ L!Change(u) \/ L!Close(u) \/ L!Ask(u) \/ L!Write(u)
      PROVE  UNCHANGED L!parsed
  BY <1>6 DEF L!Open, L!Change, L!Close, L!Ask, L!Write, L!Untouched
<1>7. CASE \/ L!Notify \/ L!Watch \/ L!OnInitialized \/ L!OnWatched \/ UNCHANGED L!vars
  BY <1>5, <1>7 DEF L!Notify, L!Watch, L!OnInitialized, L!OnWatched, L!vars, L!parsed
<1> QED BY <1>1, <1>2, <1>3, <1>4, <1>5, <1>6, <1>7 DEF L!Next

LEMMA NextBuffer ==
  ASSUME EditorTypes, EditorTypes', ParserTypes, BufferInv, [L!Next]_L!vars
  PROVE  BufferInv'
<1>1. ASSUME NEW u \in Uris, L!Open(u)
      PROVE  BufferInv'
  <2>1. PICK v \in Nat :
          LET m == [kind |-> "open", uri |-> u, ver |-> v, text |-> disk[u]] IN
          /\ m \in Message /\ inbox' = Append(inbox, m) /\ buffer[u] = None
          /\ buffer' = [buffer EXCEPT ![u] = L!Copy(v, disk[u])]
    BY <1>1, OpenSends
  <2> DEFINE m == [kind |-> "open", uri |-> u, ver |-> v, text |-> disk[u]]
  <2>2. After(m) = L!Copy(v, disk[u]) /\ Fits(None, m) /\ \A q : IsFor(m, q) <=> q = u
    BY DEF After, Fits, IsFor
  <2>3. \A q \in Uris : buffer'[q] = IF q = u THEN After(m) ELSE buffer[q]
    BY <2>1, <2>2 DEF EditorTypes
  <2>4. L!Untouched
    BY <1>1 DEF L!Open
  <2> QED BY <2>1, <2>2, <2>3, <2>4, SentReaches
<1>2. ASSUME NEW u \in Uris, L!Change(u)
      PROVE  BufferInv'
  <2>1. PICK es \in Edits :
          LET m == [kind |-> "change", uri |-> u, ver |-> buffer[u].ver + 1, edits |-> es] IN
          /\ m \in Message /\ inbox' = Append(inbox, m) /\ buffer[u] # None
          /\ es[1].from \in {None, buffer[u].text}
          /\ Len(es) = 2 => es[2].from \in {None, es[1].to}
          /\ buffer' = [buffer EXCEPT ![u] = L!Copy(buffer[u].ver + 1, es[Len(es)].to)]
    BY <1>2, ChangeSends
  <2> DEFINE m == [kind |-> "change", uri |-> u, ver |-> buffer[u].ver + 1, edits |-> es]
  <2>2. /\ After(m) = L!Copy(buffer[u].ver + 1, es[Len(es)].to)
        /\ Fits(buffer[u], m) /\ \A q : IsFor(m, q) <=> q = u
    BY <2>1 DEF After, Fits, IsFor
  <2>3. \A q \in Uris : buffer'[q] = IF q = u THEN After(m) ELSE buffer[q]
    BY <2>1, <2>2 DEF EditorTypes
  <2>4. L!Untouched
    BY <1>2 DEF L!Change
  <2> QED BY <2>1, <2>2, <2>3, <2>4, SentReaches
<1>3. ASSUME NEW u \in Uris, L!Close(u)
      PROVE  BufferInv'
  <2> DEFINE m == [kind |-> "close", uri |-> u]
  <2>1. m \in Message /\ inbox' = Append(inbox, m) /\ buffer[u] # None /\ L!Untouched
        /\ buffer' = [buffer EXCEPT ![u] = None]
    BY <1>3 DEF L!Close, L!Send, Message
  <2>2. After(m) = None /\ Fits(buffer[u], m) /\ \A q : IsFor(m, q) <=> q = u
    BY <2>1 DEF After, Fits, IsFor
  <2>3. \A q \in Uris : buffer'[q] = IF q = u THEN After(m) ELSE buffer[q]
    BY <2>1, <2>2 DEF EditorTypes
  <2> QED BY <2>1, <2>2, <2>3, SentReaches
<1>4. ASSUME NEW u \in Uris, L!Ask(u)
      PROVE  BufferInv'
  <2> DEFINE m == [kind |-> "ask", uri |-> u]
  <2>1. m \in Message /\ inbox' = Append(inbox, m) /\ L!Untouched /\ buffer' = buffer
    BY <1>4 DEF L!Ask, L!Send, L!editor, Message
  <2>2. \A q : ~IsFor(m, q)
    BY DEF IsFor
  <2> QED BY <2>1, <2>2, SentReaches
<1>5. CASE L!Notify
  <2> DEFINE m == [kind |-> "watched"]
  <2>1. m \in Message /\ inbox' = Append(inbox, m) /\ L!Untouched /\ buffer' = buffer
    BY <1>5 DEF L!Notify, L!Untouched, Message
  <2>2. \A q : ~IsFor(m, q)
    BY DEF IsFor
  <2> QED BY <2>1, <2>2, SentReaches
<1>6. ASSUME UNCHANGED <<buffer, inbox, document, cache, tree, shown, away, over>>
      PROVE  BufferInv'
  BY <1>6 DEF BufferInv, Reaches
<1>7. ASSUME NEW u \in Uris, L!Write(u)
      PROVE  BufferInv'
  BY <1>6, <1>7 DEF L!Write, L!parsed
<1>8. CASE L!Watch
  BY <1>6, <1>8 DEF L!Watch, L!editor, L!parsed
<1>9. CASE L!OnInitialized \/ L!OnWatched
  <2>1. /\ \E kind \in {"initialized", "watched"} : L!Handle(kind)
        /\ UNCHANGED <<document, cache, tree, shown, away, over>>
    BY <1>9 DEF L!OnInitialized, L!OnWatched, L!parsed
  <2>2. \A u \in Uris : ~IsFor(Head(inbox), u)
    BY <2>1, HandleTypes DEF IsFor
  <2>3. \A u \in Uris : Reaches(u)'
    BY <2>1, <2>2, HandledReaches
  <2> QED BY <2>1, <2>3 DEF BufferInv
<1>10. CASE L!OnOpen
  <2> DEFINE m == Head(inbox)
             c == L!Updated(m.uri, m.ver, m.text)
  <2>1. /\ m \in Message /\ m.kind = "open" /\ m.uri \in Uris /\ L!Handle("open")
    BY <1>10, HandleTypes, MessageFields DEF L!OnOpen
  <2>2. /\ document' = [document EXCEPT ![m.uri] = L!Copy(m.ver, m.text)]
        /\ cache' = [cache EXCEPT ![m.uri] = c]
        /\ shown' = [shown EXCEPT ![m.uri] = [text |-> tree'[m.uri], error |-> failed]]
        /\ away' = IF cache[m.uri] = None \/ m.ver # 0 THEN away \ {m.uri}
                   ELSE away \union {m.uri}
    BY <1>10 DEF L!OnOpen, L!Update, L!Publish
  <2> HIDE DEF c
  <2>3. \A u \in Uris : IsFor(m, u) <=> u = m.uri
    BY <2>1 DEF IsFor
  <2>4. After(m) = L!Copy(m.ver, m.text)
    BY <2>1 DEF After
  <2>5. \A u \in Uris : document'[u] = IF u = m.uri THEN After(m) ELSE document[u]
    BY <2>2, <2>4 DEF ParserTypes
  <2>6. \A u \in Uris : Reaches(u)'
    BY <2>1, <2>3, <2>5, HandledReaches
  <2>7. document[m.uri] = None
    BY <2>1, <2>3, HandledReaches DEF Fits
  <2>8. After(m) # None
    BY <2>1, <2>4, MessageFields, EditorConstantsOK DEF L!Copy
  <2>9. m.uri \notin away' => c = L!Copy(m.ver, m.text)
    BY <2>1, <2>2, <2>7 DEF c, L!Updated, L!Parsed, BufferInv, ClosedTree
  <2>11. L!Update(m.uri, m.ver, m.text)
    BY <1>10 DEF L!OnOpen
  <2>12. m.uri \notin away' /\ m.uri \notin over' => tree'[m.uri] = m.text
    <3>1. cache[m.uri] = None \/ cache[m.uri].ver = 0
      BY <2>1, <2>7 DEF BufferInv, ClosedTree
    <3>2. m.uri \notin away' => cache[m.uri] = None \/ m.ver # 0
      BY <2>2
    <3>3. m.uri \notin away' => ~L!Parsed(m.uri, m.ver)
      BY <3>1, <3>2 DEF L!Parsed
    <3> QED BY <2>1, <2>11, <3>3 DEF L!Update, L!Trees, ParserTypes
  <2>10. ASSUME NEW u \in Uris
         PROVE  /\ ClosedTree(document[u], cache[u])'
                /\ u \notin away' => OpenTree(document[u], cache[u], shown[u], tree[u], u \in over)'
    <3>1. CASE u = m.uri
      <4>1. /\ document'[u] = L!Copy(m.ver, m.text) /\ cache'[u] = c
            /\ shown'[u].text = tree'[u]
        BY <2>2, <3>1 DEF ParserTypes
      <4>2. L!Copy(m.ver, m.text).text = m.text
        BY DEF L!Copy
      <4> QED BY <2>4, <2>8, <2>9, <2>12, <3>1, <4>1, <4>2 DEF ClosedTree, OpenTree
    <3>2. CASE u # m.uri
      <4>1. /\ document'[u] = document[u] /\ cache'[u] = cache[u] /\ shown'[u] = shown[u]
            /\ tree'[u] = tree[u] /\ (u \in over' <=> u \in over)
            /\ (u \in away' <=> u \in away)
        BY <2>2, <2>11, <3>2 DEF ParserTypes, L!Update
      <4> QED BY <4>1 DEF BufferInv, ClosedTree, OpenTree
    <3> QED BY <3>1, <3>2
  <2> QED BY <2>6, <2>10 DEF BufferInv
<1>11. CASE L!OnChange
  <2> DEFINE m == Head(inbox)
             base == IF cache[m.uri] = None THEN Garbage ELSE cache[m.uri].text
             new == L!Apply(m.edits, base)
             c == L!Updated(m.uri, m.ver, new)
             last == m.edits[Len(m.edits)].to
  <2>1. m \in Message /\ m.kind = "change" /\ m.uri \in Uris /\ L!Handle("change")
    BY <1>11, HandleTypes, MessageFields DEF L!OnChange
  <2>2. /\ document' = [document EXCEPT ![m.uri] = L!Copy(m.ver, last)]
        /\ \/ /\ cache' = [cache EXCEPT ![m.uri] = c] /\ L!Update(m.uri, m.ver, new)
              /\ shown' = [shown EXCEPT ![m.uri] = [text |-> tree'[m.uri], error |-> failed]]
           \/ new = Garbage /\ UNCHANGED <<cache, tree, over, shown>>
        /\ away' = away
    BY <1>11 DEF L!OnChange, L!Update, L!Publish
  <2> HIDE DEF new, c, last
  <2>3. \A u \in Uris : IsFor(m, u) <=> u = m.uri
    BY <2>1 DEF IsFor
  <2>4. After(m) = L!Copy(m.ver, last)
    BY <2>1 DEF After, last
  <2>5. \A u \in Uris : document'[u] = IF u = m.uri THEN After(m) ELSE document[u]
    BY <2>2, <2>4 DEF ParserTypes
  <2>6. \A u \in Uris : Reaches(u)'
    BY <2>1, <2>3, <2>5, HandledReaches
  <2>7. Fits(document[m.uri], m)
    BY <2>1, <2>3, HandledReaches
  <2>8. m.ver \in Nat /\ m.edits \in Edits /\ last \in Nat
    BY <2>1, MessageFields, LastEdit DEF last, OneEdit
  <2>9. After(m) # None
    BY <2>4, <2>8, EditorConstantsOK DEF L!Copy
  <2>10. ASSUME m.uri \notin away
         PROVE  c = L!Copy(m.ver, last) /\ new # Garbage /\ m.uri \in over'
    <3>1. /\ document[m.uri] # None /\ m.ver = document[m.uri].ver + 1
          /\ m.edits[1].from \in {None, document[m.uri].text}
          /\ Len(m.edits) = 2 => m.edits[2].from \in {None, m.edits[1].to}
      BY <2>1, <2>7 DEF Fits
    <3>2. document[m.uri].ver \in Nat
      BY <2>1, <3>1 DEF ParserTypes, Docs
    <3>3. cache[m.uri] = document[m.uri]
      BY <2>1, <2>10, <3>1 DEF BufferInv, OpenTree
    <3>4. base = document[m.uri].text
      BY <3>1, <3>3
    <3>5. new = last
      BY <2>8, <3>1, <3>4, AppliedInOrder DEF new, last
    <3>6. new # Garbage
      BY <2>8, <3>5, EditorConstantsOK
    <3>7. document[m.uri].ver # m.ver
      BY <3>1, <3>2
    <3>8. cache[m.uri] # None /\ ~L!Parsed(m.uri, m.ver)
      BY <3>1, <3>3, <3>7 DEF L!Parsed
    <3>9. m.uri \in over'
      BY <2>2, <3>6, <3>8 DEF L!Update
    <3> QED BY <3>5, <3>6, <3>8, <3>9 DEF c, L!Updated
  <2>11. ASSUME NEW u \in Uris
         PROVE  /\ ClosedTree(document[u], cache[u])'
                /\ u \notin away' => OpenTree(document[u], cache[u], shown[u], tree[u], u \in over)'
    <3>1. CASE u = m.uri
      <4>1. document'[u] = After(m) /\ document'[u] # None
        BY <2>5, <2>9, <3>1
      <4>2. u \notin away => /\ cache'[u] = After(m) /\ u \in over'
                            /\ shown'[u].text = tree'[u]
        BY <2>1, <2>2, <2>4, <2>10, <3>1 DEF ParserTypes
      <4> QED BY <2>2, <4>1, <4>2 DEF ClosedTree, OpenTree
    <3>2. CASE u # m.uri
      <4>1. /\ document'[u] = document[u] /\ cache'[u] = cache[u] /\ shown'[u] = shown[u]
            /\ tree'[u] = tree[u] /\ (u \in over' <=> u \in over)
        BY <2>2, <3>2 DEF ParserTypes, L!Update
      <4> QED BY <2>2, <4>1 DEF BufferInv, ClosedTree, OpenTree
    <3> QED BY <3>1, <3>2
  <2> QED BY <2>6, <2>11 DEF BufferInv
<1>12. CASE L!OnClose
  <2> DEFINE m == Head(inbox)
  <2>1. m \in Message /\ m.kind = "close" /\ m.uri \in Uris /\ L!Handle("close")
    BY <1>12, HandleTypes, MessageFields DEF L!OnClose
  <2>2. /\ document' = [document EXCEPT ![m.uri] = None]
        /\ cache' = [cache EXCEPT ![m.uri] = None] /\ UNCHANGED <<shown, away>>
        /\ tree' = [tree EXCEPT ![m.uri] = None] /\ over' = over \ {m.uri}
    BY <1>12 DEF L!OnClose
  <2>3. After(m) = None /\ \A u \in Uris : IsFor(m, u) <=> u = m.uri
    BY <2>1 DEF After, IsFor
  <2>4. \A u \in Uris : document'[u] = IF u = m.uri THEN After(m) ELSE document[u]
    BY <2>2, <2>3 DEF ParserTypes
  <2>5. \A u \in Uris : Reaches(u)'
    BY <2>1, <2>3, <2>4, HandledReaches
  <2>6. ASSUME NEW u \in Uris
        PROVE  /\ ClosedTree(document[u], cache[u])'
               /\ u \notin away' => OpenTree(document[u], cache[u], shown[u], tree[u], u \in over)'
    BY <2>2 DEF ParserTypes, BufferInv, ClosedTree, OpenTree
  <2> QED BY <2>5, <2>6 DEF BufferInv
<1>13. CASE L!OnAsk
  <2> DEFINE a == Head(inbox).uri
             d == IF document[a] = None THEN L!Copy(0, disk[a]) ELSE document[a]
  <2>1. /\ Head(inbox) \in Message /\ Head(inbox).kind = "ask" /\ a \in Uris
        /\ L!Handle("ask")
    BY <1>13, HandleTypes, MessageFields DEF L!OnAsk
  <2>2. /\ cache' = [cache EXCEPT ![a] = L!Updated(a, d.ver, d.text)]
        /\ UNCHANGED <<document, shown, away>> /\ L!Update(a, d.ver, d.text)
    BY <1>13 DEF L!OnAsk, L!Update
  <2>3. \A u \in Uris : ~IsFor(Head(inbox), u)
    BY <2>1 DEF IsFor
  <2>4. \A u \in Uris : Reaches(u)'
    BY <2>1, <2>2, <2>3, HandledReaches
  <2>5. ASSUME NEW u \in Uris
        PROVE  /\ ClosedTree(document[u], cache[u])'
               /\ u \notin away' => OpenTree(document[u], cache[u], shown[u], tree[u], u \in over)'
    <3>1. CASE u # a
      <4>1. /\ cache'[u] = cache[u] /\ tree'[u] = tree[u] /\ (u \in over' <=> u \in over)
        BY <2>2, <3>1 DEF ParserTypes, L!Update
      <4> QED BY <2>2, <4>1 DEF BufferInv, ClosedTree, OpenTree
    <3>2. CASE u = a /\ document[u] = None
      <4>1. cache'[u] = L!Updated(u, d.ver, d.text) /\ d.ver = 0
        BY <2>2, <3>2 DEF ParserTypes, L!Copy
      <4> QED BY <2>2, <3>2, <4>1 DEF ClosedTree, OpenTree, L!Updated, L!Parsed, L!Copy
    <3>3. CASE u = a /\ document[u] # None
      <4>1. cache'[u] = L!Updated(u, document[u].ver, document[u].text)
        BY <2>2, <3>3 DEF ParserTypes
      <4>2. u \notin away => L!Parsed(u, d.ver)
        BY <3>3, EditorConstantsOK DEF BufferInv, OpenTree, L!Parsed
      <4>3. u \notin away => cache'[u] = cache[u] /\ tree'[u] = tree[u] /\ over' = over
        BY <2>2, <3>3, <4>1, <4>2 DEF L!Update, L!Updated, L!Trees, ParserTypes
      <4> QED BY <2>2, <3>3, <4>3 DEF BufferInv, ClosedTree, OpenTree
    <3> QED BY <3>1, <3>2, <3>3
  <2> QED BY <2>4, <2>5 DEF BufferInv
<1>14. CASE UNCHANGED L!vars
  BY <1>6, <1>14 DEF L!vars
<1> QED
  BY <1>1, <1>2, <1>3, <1>4, <1>5, <1>7, <1>8, <1>9, <1>10, <1>11, <1>12, <1>13, <1>14 DEF L!Next

(* The text the server has of an open document is the editor's, once its    *)
(* messages are handled; the tree that requests are answered from and whose *)
(* errors are shown is of that text when it was parsed from nothing.        *)
THEOREM TreesAreOfBuffers == L!Spec => []TreeIsOfBuffer
<1>1. L!Init => EditorTypes /\ ParserTypes
  BY EditorInit
<1>2. L!Init => BufferInv
  <2> SUFFICES ASSUME L!Init, NEW u \in Uris
               PROVE  /\ Reaches(u) /\ ClosedTree(document[u], cache[u])
                      /\ OpenTree(document[u], cache[u], shown[u], tree[u], u \in over)
    BY DEF BufferInv
  <2>1. document[u] = None /\ buffer[u] = None /\ cache[u] = None /\ None \in Docs
    BY DEF L!Init, Docs
  <2>2. inbox = <<[kind |-> "initialized"]>> /\ Len(inbox) = 1
        /\ inbox[1] = [kind |-> "initialized"]
    BY DEF L!Init
  <2> DEFINE h == [i \in 0 .. 1 |-> None]
  <2>3. ~IsFor(inbox[1], u)
    BY <2>2 DEF IsFor
  <2>4. h \in [0 .. Len(inbox) -> Docs] /\ h[0] = None /\ h[Len(inbox)] = None
    BY <2>1, <2>2
  <2>5. Steady(h, u, inbox)
    BY <2>2 DEF Steady
  <2>6. Leads(h, u, inbox, document[u], buffer[u])
    <3>1. \A i \in 1 .. Len(inbox) : i = 1
      BY <2>2
    <3> QED BY <2>1, <2>3, <2>4, <2>5, <3>1 DEF Leads
  <2> QED BY <2>1, <2>6 DEF Reaches, ClosedTree, OpenTree
<1>3. EditorTypes /\ ParserTypes /\ BufferInv /\ [L!Next]_L!vars
        => EditorTypes' /\ ParserTypes' /\ BufferInv'
  BY NextEditorTypes, NextParserTypes, NextBuffer
<1>4. EditorTypes /\ BufferInv => TreeIsOfBuffer
  <2> SUFFICES ASSUME EditorTypes, BufferInv, NEW u \in Uris \ away
               PROVE  /\ document[u] # None =>
                           /\ cache[u] = document[u] /\ shown[u].text = tree[u]
                           /\ u \notin over => tree[u] = document[u].text
                      /\ (\A i \in DOMAIN inbox :
                            inbox[i].kind \in {"ask", "watched", "initialized"}) =>
                           document[u] = buffer[u]
    BY DEF TreeIsOfBuffer, L!TreeIsOfBuffer
  <2>1. document[u] # None =>
          /\ cache[u] = document[u] /\ shown[u].text = tree[u]
          /\ u \notin over => tree[u] = document[u].text
    BY DEF BufferInv, OpenTree
  <2>2. ASSUME \A i \in DOMAIN inbox : inbox[i].kind \in {"ask", "watched", "initialized"}
        PROVE  document[u] = buffer[u]
    <3>1. Len(inbox) \in Nat /\ DOMAIN inbox = 1 .. Len(inbox)
      BY LenProperties DEF EditorTypes
    <3>2. PICK h : Leads(h, u, inbox, document[u], buffer[u])
      BY DEF BufferInv, Reaches
    <3>3. \A k \in 0 + 1 .. Len(inbox) : ~IsFor(inbox[k], u)
      BY <2>2, <3>1 DEF IsFor
    <3>4. 0 \in 0 .. Len(inbox) /\ Len(inbox) \in 0 .. Len(inbox) /\ 0 <= Len(inbox)
      BY <3>1
    <3>5. h[0] = h[Len(inbox)]
      BY <3>2, <3>3, <3>4 DEF Leads, Steady
    <3> QED BY <3>2, <3>5 DEF Leads
  <2> QED BY <2>1, <2>2
<1> QED BY <1>1, <1>2, <1>3, <1>4, PTL DEF L!Spec
================================================================================

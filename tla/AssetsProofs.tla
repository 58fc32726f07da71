------------------------------ MODULE AssetsProofs ------------------------------
(***************************************************************************)
(* Theorems about the two caches of MCAssets, for any number of processes, *)
(* files, versions and mishaps.  First CopiedAsset, the copies beside      *)
(* their upstream's cache; AssetDb is below.                               *)
(***************************************************************************)
EXTENDS MCAssets, TLAPS

(* No call began while another had not left; and, where calls do overlap,  *)
(* none began to copy while another one did.                               *)
Serial == "overlap" \notin meddled
NoClash == "clash" \notin meddled

InCall(p) == pc[p] # "idle"
OneInCall ==
  Serial => NoClash /\ \A p, q \in Procs : InCall(p) /\ InCall(q) => p = q

(* The upstream has answered before anything is compared or copied, and a  *)
(* writer has a file open.                                                 *)
LocalsHeld ==
  \A p \in Procs :
    /\ pc[p] \in {"compare", "write", "replace"} => up # None
    /\ pc[p] \in {"write", "replace"} => fd[p] # None

IInv == TypeOK /\ OneInCall /\ LocalsHeld

LEMMA InitIInv == Init => IInv
<1> SUFFICES ASSUME Init PROVE IInv OBVIOUS
<1>1. <<0, FALSE>> \in Versions \X BOOLEAN
  <2>1. 0 \in Versions
    BY ConstantsOK
  <2> QED BY <2>1
<1>2. TypeOK
  <2>1. /\ misled \in BOOLEAN /\ unsure \in [Inodes -> BOOLEAN]
        /\ mixed \in [Procs -> BOOLEAN] /\ blind \in [Procs -> BOOLEAN]
    BY Zenon DEF Init
  <2> QED BY <1>1, <2>1, ConstantsOK DEF Init, TypeOK, Resting, Never
<1> QED BY <1>2 DEF Init, IInv, OneInCall, LocalsHeld, InCall, NoClash

LEMMA ReturnKeeps ==
  ASSUME TypeOK, NEW p \in Procs, NEW place \in Resting,
         NEW result \in Versions \cup {None}, Return(p, place, result)
  PROVE  /\ pc' \in [Procs -> Resting \cup {"check", "compare", "write", "replace"}]
         /\ fd' \in [Procs -> Inodes \cup {None}] /\ src' \in [Procs -> Versions]
         /\ hash' \in [Procs -> Versions \cup {None}] /\ mixed' \in [Procs -> BOOLEAN]
         /\ answer' \in [Procs -> Versions \cup {None}] /\ blind' \in [Procs -> BOOLEAN]
  BY ConstantsOK DEF TypeOK, Return, Go, Resting

(* What the upstream has after it has answered.                            *)
LEMMA UpstreamType ==
  ASSUME TypeOK, NEW p \in Procs, UpstreamAnswers(p)
  PROVE  /\ up' \in Versions /\ up' \in {up, remote} /\ checked' \in {checked, now}
         /\ misled' \in BOOLEAN /\ blind' \in [Procs -> BOOLEAN]
         /\ \A q \in Procs \ {p} : blind'[q] = blind[q]
<1> USE DEF TypeOK, UpstreamAnswers, upstream
<1>1. CASE UpstreamIsYoung(p)
  <2>1. blind' \in [Procs -> BOOLEAN] /\ \A q \in Procs \ {p} : blind'[q] = blind[q]
    BY <1>1, Zenon DEF UpstreamIsYoung
  <2> QED BY <1>1, <2>1 DEF UpstreamIsYoung
<1>2. CASE UpstreamAsks(p)
  BY <1>2 DEF UpstreamAsks
<1>3. CASE UpstreamKeeps(p)
  BY <1>3 DEF UpstreamKeeps
<1>4. CASE UpstreamSeesNoChange /\ blind' = [blind EXCEPT ![p] = TRUE]
  BY <1>4 DEF UpstreamSeesNoChange
<1> QED BY <1>1, <1>2, <1>3, <1>4

(* What survives when unlinked files go.                                   *)
LEMMA ForgetKeeps ==
  ASSUME TypeOK, Forget
  PROVE  /\ data' \in [Inodes -> Versions \X BOOLEAN] /\ mtime' \in [Inodes -> Nat]
         /\ unsure' \in [Inodes -> BOOLEAN]
         /\ \A i \in Inodes : mtime'[i] \in {mtime[i], 0}
         /\ \A i \in Inodes : i \in {dest', tmp'} =>
              data'[i] = data[i] /\ mtime'[i] = mtime[i] /\ unsure'[i] = unsure[i]
<1>1. <<0, FALSE>> \in Versions \X BOOLEAN
  BY ConstantsOK
<1>2. unsure' \in [Inodes -> BOOLEAN]
        /\ \A i \in Inodes : i \in Live' => unsure'[i] = unsure[i]
  BY Zenon DEF Forget, TypeOK
<1>3. /\ data' \in [Inodes -> Versions \X BOOLEAN] /\ mtime' \in [Inodes -> Nat]
      /\ \A i \in Inodes : mtime'[i] \in {mtime[i], 0}
      /\ \A i \in Inodes : i \in Live' => data'[i] = data[i] /\ mtime'[i] = mtime[i]
  BY <1>1 DEF Forget, TypeOK
<1>4. {dest', tmp'} \subseteq Live'
  BY DEF Live
<1> QED BY <1>2, <1>3, <1>4

LEMMA NextTypes == TypeOK /\ LocalsHeld /\ [Next]_vars => TypeOK'
<1> SUFFICES ASSUME TypeOK, LocalsHeld, [Next]_vars PROVE TypeOK' OBVIOUS
<1>1. CASE UNCHANGED vars
  BY <1>1 DEF vars, server, upstream, disk, call, TypeOK
<1>2. CASE Publish
  BY <1>2, ConstantsOK DEF Publish, upstream, disk, call, TypeOK
<1>3. CASE Tick
  BY <1>3 DEF Tick, upstream, disk, call, TypeOK
<1>4. CASE OtherUser
  BY <1>4 DEF OtherUser, UpstreamSeesNoChange, server, disk, call, TypeOK
<1>5. ASSUME NEW p \in Procs, Call(p) \/ Leave(p)
      PROVE  TypeOK'
  <2>1. CASE Call(p)
    BY <2>1 DEF Call, Go, server, upstream, disk, call, TypeOK, Resting
  <2>2. CASE Leave(p)
    BY <2>2 DEF Leave, Go, server, upstream, disk, call, TypeOK, Resting
  <2> QED BY <1>5, <2>1, <2>2
<1>6. ASSUME NEW p \in Procs, Hit(p) \/ UpstreamFails(p)
      PROVE  TypeOK'
  <2>1. \E place \in Resting : Return(p, place, None)
    BY <1>6 DEF Hit, UpstreamFails, Resting
  <2>2. UNCHANGED <<server, upstream, disk, start, kills, meddled>>
    BY <1>6 DEF Hit, UpstreamFails
  <2> QED BY <2>1, <2>2, ReturnKeeps DEF TypeOK, server, upstream, disk
<1>7. ASSUME NEW p \in Procs, Miss(p)
      PROVE  TypeOK'
  BY <1>7, UpstreamType DEF Miss, Go, server, disk, TypeOK
<1>8. ASSUME NEW p \in Procs, Touch(p)
      PROVE  TypeOK'
  <2>1. Return(p, "done", hash[p]) /\ hash[p] \in Versions \cup {None} /\ "done" \in Resting
    BY <1>8 DEF Touch, TypeOK, Resting
  <2>2. /\ mtime' = [mtime EXCEPT ![dest] = now]
        /\ UNCHANGED <<server, upstream, dest, tmp, data, start, kills, meddled>>
    BY <1>8 DEF Touch
  <2>3. unsure' \in [Inodes -> BOOLEAN]
    BY <1>8, Zenon DEF Touch, TypeOK
  <2> QED BY <2>1, <2>2, <2>3, ReturnKeeps DEF TypeOK, server, upstream
<1>9. ASSUME NEW p \in Procs, NEW i \in Inodes, Open(p, i)
      PROVE  TypeOK'
  <2>1. up \in Versions /\ <<up, FALSE>> \in Versions \X BOOLEAN
    BY <1>9 DEF Open, LocalsHeld, TypeOK
  <2>2. mixed' \in [Procs -> BOOLEAN]
    BY <1>9 DEF Open, TypeOK
  <2>3. pc' \in [Procs -> Resting \cup {"check", "compare", "write", "replace"}]
    BY <1>9 DEF Open, Go, TypeOK
  <2>4. unsure' \in [Inodes -> BOOLEAN]
    BY <1>9, Zenon DEF Open, TypeOK
  <2>5. meddled' \subseteq {"overlap", "clash", "refresh"}
    BY <1>9 DEF Open, TypeOK
  <2> QED BY <1>9, <2>1, <2>2, <2>3, <2>4, <2>5 DEF Open, server, upstream, TypeOK
<1>10. ASSUME NEW p \in Procs, NEW whole \in BOOLEAN, WriteEnds(p, whole)
       PROVE  TypeOK'
  <2>1. <<src[p], whole>> \in Versions \X BOOLEAN
    BY <1>10 DEF TypeOK
  <2>2. pc' \in [Procs -> Resting \cup {"check", "compare", "write", "replace"}]
    BY <1>10 DEF WriteEnds, Go, TypeOK
  <2> QED BY <1>10, <2>1, <2>2 DEF WriteEnds, server, upstream, call, TypeOK
<1>11. ASSUME NEW p \in Procs, CopyFails(p)
       PROVE  TypeOK'
  <2>1. Return(p, "failed", None) /\ "failed" \in Resting
    BY <1>11 DEF CopyFails, Resting
  <2>2. Forget /\ tmp' = None /\ UNCHANGED <<dest, server, upstream, start, kills, meddled>>
    BY <1>11 DEF CopyFails
  <2> QED BY <2>1, <2>2, ReturnKeeps, ForgetKeeps DEF TypeOK, server, upstream
<1>12. ASSUME NEW p \in Procs, Replace(p)
       PROVE  TypeOK'
  <2>1. Return(p, "done", hash[p]) /\ hash[p] \in Versions \cup {None} /\ "done" \in Resting
    BY <1>12 DEF Replace, TypeOK, Resting
  <2>2. /\ Forget /\ tmp' = None /\ dest' = tmp
        /\ UNCHANGED <<server, upstream, start, kills, meddled>>
    BY <1>12 DEF Replace
  <2> QED BY <2>1, <2>2, ReturnKeeps, ForgetKeeps DEF TypeOK, server, upstream
<1>13. ASSUME NEW p \in Procs, Die(p)
       PROVE  TypeOK'
  <2>1. Return(p, "failed", None) /\ "failed" \in Resting
    BY <1>13 DEF Die, Resting
  <2>2. kills' \in 0 .. MaxKills
    BY <1>13, ConstantsOK DEF Die, TypeOK
  <2>3. Forget /\ UNCHANGED <<dest, tmp, server, upstream, start, meddled>>
    BY <1>13 DEF Die
  <2> QED BY <2>1, <2>2, <2>3, ReturnKeeps, ForgetKeeps DEF TypeOK, server, upstream
<1> QED BY <1>1, <1>2, <1>3, <1>4, <1>5, <1>6, <1>7, <1>8, <1>9, <1>10, <1>11, <1>12, <1>13
        DEF Next, Step

(* What a step of one process leaves of the others.                        *)
LEMMA OthersWait ==
  ASSUME TypeOK, NEW p \in Procs, NEW q \in Procs, q # p,
         Call(p) \/ Step(p) \/ Leave(p) \/ Die(p)
  PROVE  /\ pc'[q] = pc[q] /\ fd'[q] = fd[q] /\ src'[q] = src[q] /\ hash'[q] = hash[q]
         /\ start'[q] = start[q] /\ answer'[q] = answer[q] /\ blind'[q] = blind[q]
<1> USE DEF TypeOK, call, Return, Go
<1>1. CASE Call(p) \/ Leave(p)
  BY <1>1 DEF Call, Leave
<1>2. CASE Hit(p) \/ UpstreamFails(p) \/ Miss(p)
  BY <1>2, UpstreamType DEF Hit, UpstreamFails, Miss
<1>3. CASE Touch(p) \/ CopyFails(p) \/ Replace(p) \/ Die(p)
  BY <1>3 DEF Touch, CopyFails, Replace, Die
<1>4. CASE \E i \in Inodes : Open(p, i)
  BY <1>4 DEF Open
<1>5. CASE \E whole \in BOOLEAN : WriteEnds(p, whole)
  BY <1>5 DEF WriteEnds
<1> QED BY <1>1, <1>2, <1>3, <1>4, <1>5 DEF Step

(* The environment touches no process.                                     *)
LEMMA ProcessesWait ==
  ASSUME Publish \/ Tick \/ OtherUser \/ UNCHANGED vars
  PROVE  UNCHANGED <<pc, fd, src, hash, mixed, blind, start, answer, disk>>
  BY DEF Publish, Tick, OtherUser, vars, call

LEMMA MeddledGrows == [Next]_vars => meddled \subseteq meddled'
  BY DEF Next, Step, Publish, Tick, OtherUser, Call, Leave, Hit, UpstreamFails, Miss, Touch,
     CopyFails, Replace, Die, Open, WriteEnds, vars

LEMMA NextOneInCall == TypeOK /\ OneInCall /\ [Next]_vars => OneInCall'
<1> SUFFICES ASSUME TypeOK, OneInCall, [Next]_vars, Serial'
             PROVE  NoClash' /\ \A p, q \in Procs : InCall(p)' /\ InCall(q)' => p = q
  BY DEF OneInCall
<1>1. Serial
  BY MeddledGrows DEF Serial
<1>5. NoClash'
  <2>1. CASE \E p \in Procs, i \in Inodes : Open(p, i)
    <3>1. PICK p \in Procs, i \in Inodes : Open(p, i)
      BY <2>1
    <3>2. \A q \in Procs \ {p} : pc[q] = "idle"
      BY <1>1, <3>1 DEF OneInCall, InCall, Open
    <3> QED BY <1>1, <3>1, <3>2 DEF Open, OneInCall, NoClash
  <2>2. CASE ~\E p \in Procs, i \in Inodes : Open(p, i)
    <3>1. meddled' \subseteq meddled \cup {"overlap", "refresh"}
      BY <2>2 DEF Next, Step, Publish, Tick, OtherUser, Call, Leave, Hit, UpstreamFails, Miss,
         Touch, CopyFails, Replace, Die, WriteEnds, vars
    <3> QED BY <1>1, <3>1 DEF OneInCall, NoClash
  <2> QED BY <2>1, <2>2
<1>2. CASE Publish \/ Tick \/ OtherUser \/ UNCHANGED vars
  BY <1>1, <1>2, <1>5, ProcessesWait DEF OneInCall, InCall
<1>3. ASSUME NEW p \in Procs, Call(p)
      PROVE  \A r, q \in Procs : InCall(r)' /\ InCall(q)' => r = q
  <2>1. Alone
    BY <1>3 DEF Call, Serial
  <2>2. \A q \in Procs : q # p => pc'[q] = "idle"
    BY <1>3, <2>1, OthersWait DEF Alone
  <2> QED BY <2>2 DEF InCall
<1>4. ASSUME NEW p \in Procs, Step(p) \/ Leave(p) \/ Die(p)
      PROVE  \A r, q \in Procs : InCall(r)' /\ InCall(q)' => r = q
  <2>1. InCall(p)
    BY <1>4 DEF InCall, Step, Leave, Die, Hit, Miss, UpstreamFails, Touch, Open, WriteEnds,
       CopyFails, Replace, Resting
  <2>2. \A q \in Procs : q # p => ~InCall(q)'
    BY <1>1, <1>4, <2>1, OthersWait DEF OneInCall, InCall
  <2> QED BY <2>2
<1> QED BY <1>2, <1>3, <1>4, <1>5 DEF Next

LEMMA NextLocals == TypeOK /\ LocalsHeld /\ [Next]_vars => LocalsHeld'
<1> SUFFICES ASSUME TypeOK, LocalsHeld, [Next]_vars PROVE LocalsHeld' OBVIOUS
<1>1. up # None => up' # None
  <2>1. up' = up \/ OtherUser \/ \E p \in Procs : Miss(p)
    BY DEF Next, Step, Publish, Tick, OtherUser, Call, Leave, Hit, UpstreamFails, Touch,
       CopyFails, Replace, Die, Open, WriteEnds, vars, upstream
  <2>2. remote # None /\ \A p \in Procs : UpstreamAnswers(p) => up' # None
    BY UpstreamType, ConstantsOK DEF TypeOK
  <2> QED BY <2>1, <2>2 DEF OtherUser, UpstreamSeesNoChange, Miss
<1>2. CASE Publish \/ Tick \/ OtherUser \/ UNCHANGED vars
  BY <1>1, <1>2, ProcessesWait DEF LocalsHeld
<1>3. ASSUME NEW p \in Procs, Call(p) \/ Step(p) \/ Leave(p) \/ Die(p)
      PROVE  LocalsHeld'
  <2>1. \A q \in Procs \ {p} : pc'[q] = pc[q] /\ fd'[q] = fd[q]
    BY <1>3, OthersWait
  <2>2. CASE Call(p) \/ Leave(p) \/ Hit(p) \/ UpstreamFails(p) \/ Touch(p)
    <3>1. pc'[p] \notin {"compare", "write", "replace"}
      BY <2>2 DEF Call, Leave, Hit, UpstreamFails, Touch, Return, Go, TypeOK
    <3> QED BY <1>1, <2>1, <3>1 DEF LocalsHeld
  <2>3. CASE CopyFails(p) \/ Replace(p) \/ Die(p)
    <3>1. pc'[p] \notin {"compare", "write", "replace"}
      BY <2>3 DEF CopyFails, Replace, Die, Return, Go, TypeOK
    <3> QED BY <1>1, <2>1, <3>1 DEF LocalsHeld
  <2>4. CASE Miss(p)
    <3>1. pc'[p] = "compare" /\ up' # None
      BY <2>4, UpstreamType, ConstantsOK DEF Miss, Go, TypeOK
    <3> QED BY <2>1, <3>1 DEF LocalsHeld
  <2>5. CASE \E i \in Inodes : Open(p, i)
    <3>1. up # None /\ fd'[p] # None
      BY <2>5, ConstantsOK DEF Open, LocalsHeld, TypeOK
    <3> QED BY <1>1, <2>1, <3>1 DEF LocalsHeld
  <2>6. CASE \E whole \in BOOLEAN : WriteEnds(p, whole)
    <3>1. up # None /\ fd'[p] # None
      BY <2>6 DEF WriteEnds, LocalsHeld, call
    <3> QED BY <1>1, <2>1, <3>1 DEF LocalsHeld
  <2> QED BY <1>3, <2>2, <2>3, <2>4, <2>5, <2>6 DEF Step
<1> QED BY <1>2, <1>3 DEF Next

LEMMA NextIInv == IInv /\ [Next]_vars => IInv'
  BY NextTypes, NextOneInCall, NextLocals DEF IInv

(* Types, and the values that a call holds where it uses them.             *)
THEOREM CopyInvariance == Spec => []IInv
  BY InitIInv, NextIInv, PTL DEF Spec
--------------------------------------------------------------------------------
(* HashNamesCopy.  Until two copies clash there is one writer, nobody has  *)
(* opened its file since, and that file is <dest>.tmp, or unlinked when    *)
(* another call failed, and not yet the destination; once written it is a  *)
(* faithful copy.                                                          *)
Writing(p) == pc[p] \in {"write", "replace"}
OneWriter ==
  /\ \A p \in Procs : ~mixed[p]
  /\ \A p, q \in Procs : Writing(p) /\ Writing(q) => p = q
  /\ tmp # None => tmp # dest
  /\ \A p \in Procs :
       /\ pc[p] = "write" => fd[p] # dest /\ (tmp # None => fd[p] = tmp)
       /\ pc[p] = "replace" /\ tmp # None => data[tmp] = <<src[p], TRUE>>
DestIsWhole == dest # None => data[dest][2]
CopyInv ==
  /\ NoClash => OneWriter /\ DestIsWhole
  /\ \A p \in Procs : pc[p] = "done" => dest # None

(* If nobody has refreshed the upstream during a call either, the hash it   *)
(* was given is of what the upstream has, of what it copies, and at the end *)
(* of what the destination is.                                             *)
HashInv ==
  meddled = {} =>
    \A p \in Procs :
      /\ pc[p] = "compare" /\ hash[p] # None => hash[p] = up
      /\ pc[p] \in {"write", "replace"} /\ hash[p] # None => hash[p] = src[p]
      /\ pc[p] = "done" /\ answer[p] # None => data[dest] = <<answer[p], TRUE>>

(* All but the one in a call are idle, before and after its step.          *)
LEMMA OthersIdle ==
  ASSUME IInv, Serial', NEW p \in Procs, [Next]_vars,
         Call(p) \/ Step(p) \/ Leave(p) \/ Die(p)
  PROVE  /\ Serial
         /\ \A q \in Procs \ {p} : pc[q] = "idle" /\ pc'[q] = "idle"
<1>1. Serial /\ OneInCall /\ TypeOK
  BY MeddledGrows DEF Serial, IInv
<1>2. CASE Call(p)
  <2>1. Alone
    BY <1>2 DEF Call, Serial
  <2> QED BY <1>1, <1>2, <2>1, OthersWait DEF Alone
<1>3. CASE Step(p) \/ Leave(p) \/ Die(p)
  <2>1. InCall(p)
    BY <1>3 DEF InCall, Step, Leave, Die, Hit, Miss, UpstreamFails, Touch, Open, WriteEnds,
       CopyFails, Replace, Resting
  <2> QED BY <1>1, <1>3, <2>1, OthersWait DEF OneInCall, InCall
<1> QED BY <1>2, <1>3, <1>1

(* Only an open can clash.                                                 *)
LEMMA NoClashBefore == [Next]_vars /\ NoClash' => NoClash
  BY MeddledGrows DEF NoClash

(* A file once there stays, so whoever is done has one.                    *)
LEMMA NextDone ==
  ASSUME IInv, CopyInv, [Next]_vars
  PROVE  \A p \in Procs : pc'[p] = "done" => dest' # None
<1>0. TypeOK
  BY DEF IInv
<1>1. CASE Publish \/ Tick \/ OtherUser \/ UNCHANGED vars
  BY <1>1, ProcessesWait DEF CopyInv, disk
<1>2. ASSUME NEW p \in Procs, Call(p) \/ Step(p) \/ Leave(p) \/ Die(p)
      PROVE  \A q \in Procs : pc'[q] = "done" => dest' # None
  <2>1. \A q \in Procs \ {p} : pc'[q] = pc[q]
    BY <1>0, <1>2, OthersWait
  <2> USE <1>0 DEF TypeOK, Return, Go
  <2>2. CASE Call(p) \/ Leave(p) \/ UpstreamFails(p) \/ Miss(p)
    BY <2>1, <2>2 DEF Call, Leave, UpstreamFails, Miss, CopyInv, disk
  <2>3. CASE CopyFails(p) \/ Die(p)
    BY <2>1, <2>3 DEF CopyFails, Die, CopyInv
  <2>4. CASE Hit(p) \/ Touch(p)
    BY <2>1, <2>4 DEF Hit, Young, Touch, Current, CopyInv, disk
  <2>5. CASE Replace(p)
    BY <2>1, <2>5 DEF Replace
  <2>6. CASE \E i \in Inodes : Open(p, i)
    BY <2>1, <2>6 DEF Open, CopyInv
  <2>7. CASE \E whole \in BOOLEAN : WriteEnds(p, whole)
    BY <2>1, <2>7 DEF WriteEnds, CopyInv
  <2> QED BY <1>2, <2>2, <2>3, <2>4, <2>5, <2>6, <2>7 DEF Step
<1> QED BY <1>1, <1>2 DEF Next

(* The places where a call neither opens, writes nor renames.              *)
LEMMA DiskWaits ==
  ASSUME IInv, OneWriter, DestIsWhole, NEW p \in Procs, [Next]_vars,
         Call(p) \/ Hit(p) \/ Miss(p) \/ UpstreamFails(p) \/ Leave(p) \/ Touch(p)
  PROVE  OneWriter' /\ DestIsWhole'
<1>0. TypeOK /\ (Call(p) \/ Step(p) \/ Leave(p) \/ Die(p))
  BY DEF IInv, Step
<1>1. \A q \in Procs \ {p} : pc'[q] = pc[q] /\ fd'[q] = fd[q] /\ src'[q] = src[q]
  BY <1>0, OthersWait
<1>2. /\ UNCHANGED <<dest, tmp, data>>
      /\ \A q \in Procs : ~mixed'[q]
      /\ pc'[p] \notin {"write", "replace"}
  BY <1>0 DEF Call, Hit, Miss, UpstreamFails, Leave, Touch, Return, Go, call, disk, TypeOK,
     OneWriter
<1>3. \A q, r \in Procs : Writing(q)' /\ Writing(r)' => q = r
  BY <1>1, <1>2 DEF OneWriter, Writing
<1>4. /\ (tmp # None => tmp # dest)'
      /\ \A q \in Procs :
           /\ pc'[q] = "write" => fd'[q] # dest' /\ (tmp' # None => fd'[q] = tmp')
           /\ pc'[q] = "replace" /\ tmp' # None => data'[tmp'] = <<src'[q], TRUE>>
  BY <1>1, <1>2 DEF OneWriter
<1>5. DestIsWhole'
  BY <1>2 DEF DestIsWhole
<1> QED BY <1>2, <1>3, <1>4, <1>5 DEF OneWriter

LEMMA NextCopy == IInv /\ CopyInv /\ [Next]_vars => CopyInv'
<1> SUFFICES ASSUME IInv, CopyInv, [Next]_vars, NoClash'
             PROVE  OneWriter' /\ DestIsWhole'
  BY NextDone DEF CopyInv
<1>0. NoClash /\ OneWriter /\ DestIsWhole /\ TypeOK
  BY NoClashBefore DEF CopyInv, IInv
<1>1. CASE Publish \/ Tick \/ OtherUser \/ UNCHANGED vars
  BY <1>0, <1>1, ProcessesWait DEF OneWriter, DestIsWhole, disk, Writing
<1>2. ASSUME NEW p \in Procs,
             Call(p) \/ Hit(p) \/ Miss(p) \/ UpstreamFails(p) \/ Leave(p) \/ Touch(p)
      PROVE  OneWriter' /\ DestIsWhole'
  BY <1>0, <1>2, DiskWaits
<1>3. ASSUME NEW p \in Procs, Step(p) \/ Die(p)
      PROVE  \A q \in Procs \ {p} : pc'[q] = pc[q] /\ fd'[q] = fd[q] /\ src'[q] = src[q]
  BY <1>0, <1>3, OthersWait
<1>5. ASSUME NEW p \in Procs, NEW i \in Inodes, Open(p, i)
      PROVE  OneWriter' /\ DestIsWhole'
  <2>1. /\ pc[p] = "compare" /\ pc'[p] = "write" /\ tmp' = i /\ fd'[p] = i /\ i # None
        /\ dest' = dest /\ \A j \in Inodes \ {i} : data'[j] = data[j]
    BY <1>0, <1>5, ConstantsOK DEF Open, Go, TypeOK
  <2>2. \A q \in Procs \ {p} : ~Writing(q)
    BY <1>5 DEF Open, NoClash, Writing
  <2>3. Writers(i) = {}
    BY <2>1, <2>2 DEF Writers, Writing
  <2>4. \A q \in Procs : ~mixed'[q]
    BY <1>0, <1>5, <2>3 DEF Open, OneWriter
  <2>5. i # dest
    BY <1>0, <1>5 DEF Open, Live, OneWriter
  <2>6. \A q \in Procs \ {p} : pc'[q] = pc[q]
    BY <1>3, <1>5 DEF Step
  <2>7. \A q, r \in Procs : Writing(q)' /\ Writing(r)' => q = r
    BY <2>2, <2>6 DEF Writing
  <2>8. /\ (tmp # None => tmp # dest)'
        /\ \A q \in Procs :
             /\ pc'[q] = "write" => fd'[q] # dest' /\ (tmp' # None => fd'[q] = tmp')
             /\ pc'[q] = "replace" /\ tmp' # None => data'[tmp'] = <<src'[q], TRUE>>
    BY <2>1, <2>2, <2>5, <2>6 DEF Writing
  <2>9. DestIsWhole'
    BY <1>0, <2>1, <2>5 DEF DestIsWhole, TypeOK
  <2> QED BY <2>4, <2>7, <2>8, <2>9 DEF OneWriter
<1>6. ASSUME NEW p \in Procs, NEW whole \in BOOLEAN, WriteEnds(p, whole)
      PROVE  OneWriter' /\ DestIsWhole'
  <2>1. /\ pc[p] = "write" /\ pc'[p] = "replace" /\ whole /\ fd[p] \in Inodes
        /\ fd[p] # dest /\ (tmp # None => fd[p] = tmp)
        /\ UNCHANGED <<dest, tmp, call>>
        /\ data' = [data EXCEPT ![fd[p]] = <<src[p], whole>>]
    BY <1>0, <1>6 DEF WriteEnds, Go, TypeOK, OneWriter, IInv, LocalsHeld
  <2>2. data'[fd[p]] = <<src[p], TRUE>> /\ \A j \in Inodes \ {fd[p]} : data'[j] = data[j]
    BY <1>0, <2>1 DEF TypeOK
  <2>3. \A q \in Procs \ {p} : pc'[q] = pc[q] /\ ~Writing(q)
    BY <1>0, <1>3, <1>6, <2>1 DEF Step, OneWriter, Writing
  <2>4. \A q \in Procs : ~mixed'[q]
    BY <1>0, <2>1 DEF OneWriter, call
  <2>5. \A q, r \in Procs : Writing(q)' /\ Writing(r)' => q = r
    BY <2>3 DEF Writing
  <2>6. /\ (tmp # None => tmp # dest)'
        /\ \A q \in Procs :
             /\ pc'[q] = "write" => fd'[q] # dest' /\ (tmp' # None => fd'[q] = tmp')
             /\ pc'[q] = "replace" /\ tmp' # None => data'[tmp'] = <<src'[q], TRUE>>
    BY <1>0, <2>1, <2>2, <2>3 DEF OneWriter, Writing, call
  <2>7. DestIsWhole'
    BY <1>0, <2>1, <2>2 DEF DestIsWhole, TypeOK
  <2> QED BY <2>4, <2>5, <2>6, <2>7 DEF OneWriter
<1>7. ASSUME NEW p \in Procs, CopyFails(p) \/ Die(p)
      PROVE  OneWriter' /\ DestIsWhole'
  <2>1. /\ dest' = dest /\ tmp' \in {tmp, None} /\ pc'[p] = "failed" /\ Forget
        /\ \A q \in Procs : ~mixed'[q]
    BY <1>0, <1>7 DEF CopyFails, Die, Return, Go, TypeOK, OneWriter
  <2>2. \A q \in Procs \ {p} : pc'[q] = pc[q] /\ fd'[q] = fd[q] /\ src'[q] = src[q]
    BY <1>3, <1>7 DEF Step
  <2>3. /\ dest # None => data'[dest] = data[dest]
        /\ tmp' # None => tmp' = tmp /\ data'[tmp] = data[tmp]
    BY <1>0, <2>1, ForgetKeeps DEF TypeOK
  <2>4. \A q, r \in Procs : Writing(q)' /\ Writing(r)' => q = r
    BY <1>0, <2>1, <2>2 DEF OneWriter, Writing
  <2>5. /\ (tmp # None => tmp # dest)'
        /\ \A q \in Procs :
             /\ pc'[q] = "write" => fd'[q] # dest' /\ (tmp' # None => fd'[q] = tmp')
             /\ pc'[q] = "replace" /\ tmp' # None => data'[tmp'] = <<src'[q], TRUE>>
    BY <1>0, <2>1, <2>2, <2>3 DEF OneWriter
  <2>6. DestIsWhole'
    BY <1>0, <2>1, <2>3 DEF DestIsWhole
  <2> QED BY <2>1, <2>4, <2>5, <2>6 DEF OneWriter
<1>8. ASSUME NEW p \in Procs, Replace(p)
      PROVE  OneWriter' /\ DestIsWhole'
  <2>1. /\ pc[p] = "replace" /\ dest' = tmp /\ tmp # None /\ tmp' = None /\ Forget
        /\ pc'[p] = "done" /\ \A q \in Procs : ~mixed'[q]
    BY <1>0, <1>8 DEF Replace, Return, Go, TypeOK, OneWriter
  <2>2. \A q \in Procs \ {p} : pc'[q] = pc[q] /\ ~Writing(q)
    BY <1>0, <1>3, <1>8, <2>1 DEF Step, OneWriter, Writing
  <2>3. data[tmp] = <<src[p], TRUE>> /\ data'[tmp] = data[tmp]
    BY <1>0, <2>1, ForgetKeeps DEF OneWriter, TypeOK
  <2>4. data'[dest'][2]
    BY <2>1, <2>3
  <2>5. \A q \in Procs : ~Writing(q)'
    BY <2>1, <2>2 DEF Writing
  <2>6. DestIsWhole'
    BY <2>4 DEF DestIsWhole
  <2> QED BY <2>1, <2>5, <2>6 DEF OneWriter, Writing
<1> QED BY <1>1, <1>2, <1>5, <1>6, <1>7, <1>8 DEF Next, Step

LEMMA NextHash == IInv /\ CopyInv /\ HashInv /\ [Next]_vars => HashInv'
<1> SUFFICES ASSUME IInv, CopyInv, HashInv, [Next]_vars, meddled' = {}
             PROVE  HashInv'
  BY DEF HashInv
<1>0. /\ meddled = {} /\ Serial /\ Serial' /\ OneWriter /\ TypeOK
      /\ \A p \in Procs : pc[p] = "done" => dest # None
  BY MeddledGrows DEF Serial, NoClash, CopyInv, IInv
<1>1. CASE Publish \/ Tick \/ UNCHANGED vars
  <2>1. UNCHANGED <<pc, hash, src, answer, disk, up>>
    BY <1>1, ProcessesWait DEF Publish, Tick, upstream, vars
  <2> QED BY <1>0, <2>1 DEF HashInv, disk
<1>2. CASE OtherUser
  <2>1. UNCHANGED <<pc, hash, src, answer, disk>> /\ AtRest
    BY <1>2, <1>0, ProcessesWait DEF OtherUser
  <2> QED BY <1>0, <2>1 DEF HashInv, disk, AtRest, Resting
<1>3. ASSUME NEW p \in Procs, Call(p) \/ Step(p) \/ Leave(p) \/ Die(p)
      PROVE  HashInv'
  <2>0. \A q \in Procs \ {p} : pc'[q] = "idle"
    BY <1>3, <1>0, OthersIdle
  <2> SUFFICES /\ pc'[p] = "compare" /\ hash'[p] # None => hash'[p] = up'
               /\ pc'[p] \in {"write", "replace"} /\ hash'[p] # None => hash'[p] = src'[p]
               /\ pc'[p] = "done" /\ answer'[p] # None => data'[dest'] = <<answer'[p], TRUE>>
    BY <2>0 DEF HashInv
  <2> USE <1>0 DEF TypeOK, Return, Go
  <2>1. CASE Call(p) \/ Leave(p) \/ UpstreamFails(p) \/ CopyFails(p) \/ Die(p)
    <3>1. pc'[p] \in {"check", "idle", "failed"}
      BY <2>1 DEF Call, Leave, UpstreamFails, CopyFails, Die
    <3> QED BY <3>1
  <2>7. CASE Hit(p)
    BY <2>7 DEF Hit
  <2>2. CASE Miss(p)
    BY <2>2 DEF Miss
  <2>3. CASE Touch(p)
    BY <2>3 DEF Touch, Current
  <2>4. CASE \E i \in Inodes : Open(p, i)
    BY <2>4 DEF Open, HashInv, upstream
  <2>5. CASE \E whole \in BOOLEAN : WriteEnds(p, whole)
    BY <2>5 DEF WriteEnds, HashInv, call
  <2>6. CASE Replace(p)
    <3>1. /\ pc[p] = "replace" /\ tmp \in Inodes /\ dest' = tmp /\ answer'[p] = hash[p] /\ Forget
      BY <2>6 DEF Replace
    <3>2. data[tmp] = <<src[p], TRUE>> /\ (hash[p] # None => hash[p] = src[p])
      BY <3>1, ConstantsOK DEF OneWriter, HashInv
    <3>3. data'[tmp] = data[tmp] /\ pc'[p] = "done"
      BY <2>6, <3>1, ForgetKeeps DEF Replace
    <3> QED BY <3>1, <3>2, <3>3
  <2> QED BY <1>3, <2>1, <2>2, <2>3, <2>4, <2>5, <2>6, <2>7 DEF Step
<1> QED BY <1>1, <1>2, <1>3 DEF Next

(* However many processes call, overlap, fail and are killed, the          *)
(* destination is a faithful copy until two copies clash; and while calls  *)
(* are serial, the hash that a refresh returns is that of the file.        *)
THEOREM CopiesAreNamed == Spec => []HashNamesCopy
<1>1. Init => CopyInv /\ HashInv
  BY DEF Init, CopyInv, HashInv, OneWriter, DestIsWhole, Writing
<1>2. CopyInv /\ HashInv => HashNamesCopy
  BY DEF CopyInv, HashInv, DestIsWhole, HashNamesCopy, NoClash
<1> QED BY <1>1, <1>2, CopyInvariance, NextCopy, NextHash, PTL DEF Spec
--------------------------------------------------------------------------------
(* CopyAgeBounded.  What was superseded at time s, or never, was current at *)
(* time t.                                                                 *)
CurrentAt(s, t) == s = Never \/ s >= t

(* How much older than the answer of a cache its asset can be.             *)
FirstAge == IF Policy = "always" THEN 0 ELSE MaxAge

ClockBounds ==
  /\ checked <= now /\ \A i \in Inodes : mtime[i] <= now
  /\ \A p \in Procs : start[p] <= now /\ (pc[p] \notin Resting => now - start[p] <= MaxLatency)

LatestIsCurrent == \A v \in Versions : v >= remote => superseded[v] = Never

(* The upstream's content was current when it was last checked, unless the *)
(* check did not see a change.                                             *)
UpstreamDated == up # None /\ ~misled => CurrentAt(superseded[up], checked)

(* What a call that is not blind is about to copy, or to find unchanged,   *)
(* was current at most one ttl before the call; what it has written, at    *)
(* most one ttl and the length of a call before the file's mtime.          *)
BodyDated ==
  \A p \in Procs :
    /\ pc[p] = "compare" /\ ~blind[p] => CurrentAt(superseded[up], start[p] - FirstAge)
    /\ pc[p] = "compare" /\ ~blind[p] /\ hash[p] # None =>
         CurrentAt(superseded[hash[p]], start[p] - FirstAge)
    /\ pc[p] \in {"write", "replace"} /\ tmp # None /\ ~unsure[tmp] =>
         CurrentAt(superseded[src[p]], start[p] - FirstAge)
    /\ pc[p] = "replace" /\ tmp # None => start[p] + MaxLatency >= mtime[tmp]

DestDated ==
  dest # None /\ ~unsure[dest] =>
    CurrentAt(superseded[data[dest][1]], mtime[dest] - MaxLatency - FirstAge)

DoneDated ==
  \A p \in Procs :
    pc[p] = "done" /\ ~unsure[dest] =>
      CurrentAt(superseded[data[dest][1]], start[p] - MaxLatency - (FirstAge + FirstAge))

AgeInv ==
  /\ ClockBounds /\ LatestIsCurrent /\ UpstreamDated
  /\ Policy # "other" /\ Serial => BodyDated /\ DestDated /\ DoneDated

LEMMA Constants ==
  /\ MaxAge \in Nat /\ MaxLatency \in Nat /\ FirstAge \in Nat /\ Versions \subseteq Nat
  /\ None \notin Inodes /\ None \notin Versions
  BY ConstantsOK DEF FirstAge

LEMMA InitAge == Init => AgeInv
<1> SUFFICES ASSUME Init PROVE AgeInv OBVIOUS
<1>1. ClockBounds /\ LatestIsCurrent /\ UpstreamDated
  BY Constants DEF Init, ClockBounds, LatestIsCurrent, UpstreamDated, Resting
<1>2. BodyDated /\ DestDated /\ DoneDated
  BY DEF Init, BodyDated, DestDated, DoneDated
<1> QED BY <1>1, <1>2 DEF AgeInv

(* Publishing supersedes the latest version, and now.                      *)
LEMMA SupersededSteps ==
  ASSUME TypeOK, LatestIsCurrent, [Next]_vars
  PROVE  /\ LatestIsCurrent'
         /\ \A v \in Versions : \/ superseded'[v] = superseded[v]
                                \/ superseded[v] = Never /\ superseded'[v] = now
<1>1. \/ remote' = remote /\ superseded' = superseded
      \/ Publish
  BY DEF Next, Step, Publish, Tick, OtherUser, Call, Leave, Hit, UpstreamFails, Miss, Touch,
     CopyFails, Replace, Die, Open, WriteEnds, vars, server
<1>2. CASE Publish
  <2>1. /\ remote' = remote + 1 /\ remote \in Nat /\ remote \in Versions
        /\ superseded' = [superseded EXCEPT ![remote] = now]
        /\ superseded[remote] = Never
    BY <1>2, Constants DEF Publish, TypeOK, LatestIsCurrent
  <2>2. /\ superseded'[remote] = now
        /\ \A v \in Versions \ {remote} : superseded'[v] = superseded[v]
    BY <2>1 DEF TypeOK
  <2>3. \A v \in Versions : v >= remote + 1 => v # remote /\ v >= remote
    BY <2>1, Constants
  <2> QED BY <2>1, <2>2, <2>3 DEF LatestIsCurrent
<1> QED BY <1>1, <1>2 DEF LatestIsCurrent

(* So what was current at a time that has been stays so.                   *)
LEMMA CurrentStays ==
  ASSUME TypeOK, LatestIsCurrent, [Next]_vars, NEW v \in Versions, NEW t \in Int, t <= now,
         CurrentAt(superseded[v], t)
  PROVE  CurrentAt(superseded'[v], t)
<1>1. superseded[v] \in Nat \cup {Never} /\ now \in Nat
  BY DEF TypeOK
<1> QED BY <1>1, SupersededSteps DEF CurrentAt, Never

(* And was current at any earlier time.                                    *)
LEMMA Earlier ==
  ASSUME NEW s \in Nat \cup {Never}, NEW t \in Int, NEW w \in Int, w <= t, CurrentAt(s, t)
  PROVE  CurrentAt(s, w)
  BY DEF CurrentAt, Never

LEMMA NextClock == IInv /\ ClockBounds /\ [Next]_vars => ClockBounds'
<1> SUFFICES ASSUME IInv, ClockBounds, [Next]_vars PROVE ClockBounds' OBVIOUS
<1>0. /\ TypeOK /\ now \in Nat /\ checked \in Nat /\ start \in [Procs -> Nat]
      /\ mtime \in [Inodes -> Nat]
  BY DEF IInv, TypeOK
<1>1. CASE Tick
  <2>1. now' = now + 1 /\ UNCHANGED <<checked, mtime, start, pc>>
    BY <1>1, ProcessesWait DEF Tick, upstream, disk
  <2>2. \A p \in Procs : pc[p] \notin Resting => now - start[p] < MaxLatency
    BY <1>1 DEF Tick
  <2> QED BY <1>0, <2>1, <2>2, Constants DEF ClockBounds
<1>2. CASE Publish \/ OtherUser \/ UNCHANGED vars
  <2>1. now' = now /\ checked' \in {checked, now} /\ UNCHANGED <<mtime, start, pc>>
    BY <1>2, ProcessesWait DEF Publish, OtherUser, UpstreamSeesNoChange, vars, server, upstream,
       disk
  <2> QED BY <1>0, <2>1 DEF ClockBounds
<1>3. ASSUME NEW p \in Procs, Call(p) \/ Step(p) \/ Leave(p) \/ Die(p)
      PROVE  ClockBounds'
  <2>1. now' = now /\ checked' \in {checked, now}
    BY <1>0, <1>3, UpstreamType DEF Step, Call, Leave, Hit, UpstreamFails, Miss, Touch,
       CopyFails, Replace, Die, Open, WriteEnds, server, upstream
  <2>2. \A i \in Inodes : mtime'[i] \in {mtime[i], now, 0}
    <3>1. CASE Forget
      BY <1>0, <3>1, ForgetKeeps
    <3>2. CASE ~Forget
      BY <1>0, <1>3, <3>2 DEF Step, Call, Leave, Hit, UpstreamFails, Miss, Touch,
         CopyFails, Replace, Die, Open, WriteEnds, disk
    <3> QED BY <3>1, <3>2
  <2>3. \A q \in Procs \ {p} : pc'[q] = pc[q] /\ start'[q] = start[q]
    BY <1>0, <1>3, OthersWait
  <2>4. /\ start'[p] \in {start[p], 0, now}
        /\ pc'[p] \notin Resting =>
             \/ start'[p] = now
             \/ pc[p] \notin Resting /\ start'[p] = start[p]
    <3> USE <1>0 DEF TypeOK, Return, Go, Resting
    <3>1. CASE Call(p)
      BY <3>1 DEF Call
    <3>2. CASE Leave(p)
      BY <3>2 DEF Leave
    <3>3. CASE Hit(p) \/ UpstreamFails(p) \/ Miss(p) \/ Touch(p)
      BY <3>3 DEF Hit, UpstreamFails, Miss, Touch
    <3>4. CASE CopyFails(p) \/ Replace(p) \/ Die(p)
      BY <3>4 DEF CopyFails, Replace, Die
    <3>5. CASE \E i \in Inodes : Open(p, i)
      BY <3>5 DEF Open
    <3>6. CASE \E whole \in BOOLEAN : WriteEnds(p, whole)
      BY <3>6 DEF WriteEnds
    <3> QED BY <1>3, <3>1, <3>2, <3>3, <3>4, <3>5, <3>6 DEF Step
  <2>5. \A i \in Inodes : mtime'[i] <= now'
    BY <1>0, <2>1, <2>2 DEF ClockBounds
  <2>6. \A q \in Procs : start'[q] <= now' /\
                         (pc'[q] \notin Resting => now' - start'[q] <= MaxLatency)
    BY <1>0, <2>1, <2>3, <2>4, Constants DEF ClockBounds
  <2> QED BY <1>0, <2>1, <2>5, <2>6 DEF ClockBounds
<1> QED BY <1>1, <1>2, <1>3 DEF Next

LEMMA NextUpstream ==
  ASSUME IInv, ClockBounds, LatestIsCurrent, UpstreamDated, [Next]_vars
  PROVE  UpstreamDated'
<1>0. TypeOK /\ TypeOK' /\ checked \in Int /\ checked <= now
  BY NextIInv DEF IInv, TypeOK, ClockBounds
<1>1. \/ UNCHANGED upstream
      \/ up' = remote /\ remote' = remote /\ superseded' = superseded
      \/ misled'
  <2>1. CASE OtherUser \/ \E p \in Procs : Miss(p)
    BY <2>1 DEF OtherUser, Miss, UpstreamAnswers, UpstreamIsYoung, UpstreamAsks, UpstreamKeeps,
       UpstreamSeesNoChange, server, upstream
  <2>2. CASE Publish \/ Tick \/ UNCHANGED vars
    BY <2>2 DEF Publish, Tick, vars, upstream
  <2>3. ASSUME NEW p \in Procs, Call(p) \/ Leave(p) \/ Die(p)
        PROVE  UNCHANGED upstream
    BY <2>3 DEF Call, Leave, Die
  <2>4. ASSUME NEW p \in Procs, Step(p), ~Miss(p)
        PROVE  UNCHANGED upstream
    BY <2>4 DEF Step, Hit, UpstreamFails, Touch, CopyFails, Replace, Open, WriteEnds
  <2> QED BY <2>1, <2>2, <2>3, <2>4 DEF Next
<1>2. CASE UNCHANGED upstream
  <2>1. up' = up /\ checked' = checked /\ misled' = misled
    BY <1>2 DEF upstream
  <2>2. ASSUME up # None, ~misled PROVE CurrentAt(superseded'[up], checked)
    <3>1. up \in Versions /\ CurrentAt(superseded[up], checked)
      BY <1>0, <2>2 DEF TypeOK, UpstreamDated
    <3> QED BY <1>0, <3>1, CurrentStays
  <2> QED BY <2>1, <2>2 DEF UpstreamDated
<1>3. CASE up' = remote /\ remote' = remote /\ superseded' = superseded
  <2>1. superseded[remote] = Never
    BY <1>0, Constants DEF LatestIsCurrent, TypeOK
  <2> QED BY <1>3, <2>1 DEF UpstreamDated, CurrentAt
<1>4. CASE misled'
  BY <1>4 DEF UpstreamDated
<1> QED BY <1>1, <1>2, <1>3, <1>4

(* What the upstream answers to a call that it does not leave blind was    *)
(* current one ttl ago.                                                    *)
LEMMA AnswerIsRecent ==
  ASSUME TypeOK, ClockBounds, LatestIsCurrent, UpstreamDated, Policy # "other",
         NEW p \in Procs, UpstreamAnswers(p), ~blind'[p]
  PROVE  CurrentAt(superseded[up'], now - FirstAge)
<1>0. now \in Nat /\ checked \in Nat /\ remote \in Versions /\ superseded[remote] = Never
  BY Constants DEF TypeOK, LatestIsCurrent
<1>1. CASE UpstreamAsks(p)
  BY <1>0, <1>1 DEF UpstreamAsks, CurrentAt
<1>2. CASE UpstreamIsYoung(p)
  <2>1. up # None /\ ~Expired(checked) /\ up' = up /\ ~misled
    BY <1>2, Zenon DEF UpstreamIsYoung, upstream, TypeOK
  <2>2. Policy = "ttl" /\ now - checked < MaxAge /\ FirstAge = MaxAge
    BY <1>0, <2>1, ConstantsOK DEF Expired, FirstAge
  <2>3. superseded[up] \in Nat \cup {Never} /\ CurrentAt(superseded[up], checked)
    BY <2>1 DEF UpstreamDated, TypeOK
  <2> QED BY <1>0, <2>1, <2>2, <2>3, Constants DEF CurrentAt, Never
<1>3. CASE UpstreamKeeps(p) \/ blind' = [blind EXCEPT ![p] = TRUE]
  BY <1>3, Zenon DEF UpstreamKeeps, TypeOK
<1> QED BY <1>1, <1>2, <1>3 DEF UpstreamAnswers

AllDated == BodyDated /\ DestDated /\ DoneDated

(* Neither the clock, nor a publication, nor somebody else's refresh makes  *)
(* what the calls and the disk have older.                                 *)
LEMMA DatedStays ==
  ASSUME IInv, CopyInv, Serial, ClockBounds, LatestIsCurrent, UpstreamDated, AllDated,
         Publish \/ Tick \/ OtherUser \/ UNCHANGED vars, [Next]_vars
  PROVE  AllDated'
<1>0. /\ TypeOK /\ LocalsHeld /\ OneWriter /\ DestIsWhole
      /\ start \in [Procs -> Nat] /\ mtime \in [Inodes -> Nat] /\ now \in Nat
      /\ UNCHANGED <<pc, fd, src, hash, blind, start, answer, dest, tmp, data, mtime, unsure>>
      /\ \A p \in Procs : pc[p] = "done" => dest # None
  BY ProcessesWait DEF IInv, TypeOK, disk, CopyInv, OneInCall
<1>1. \A p \in Procs : start[p] - FirstAge \in Int /\ start[p] - FirstAge <= now
  BY <1>0, Constants DEF ClockBounds
<1>2. BodyDated'
  <2>1. ASSUME NEW p \in Procs, pc[p] = "compare", ~blind[p]
        PROVE  CurrentAt(superseded'[up'], start[p] - FirstAge)
    <3>1. CASE up' = up
      <4>1. up \in Versions /\ CurrentAt(superseded[up], start[p] - FirstAge)
        BY <1>0, <2>1 DEF LocalsHeld, TypeOK, AllDated, BodyDated
      <4> QED BY <1>0, <1>1, <3>1, <4>1, CurrentStays
    <3>2. CASE OtherUser
      <4>1. superseded[remote] = Never
        BY <1>0, Constants DEF LatestIsCurrent, TypeOK
      <4> QED BY <3>1, <3>2, <4>1 DEF OtherUser, UpstreamSeesNoChange, server, CurrentAt
    <3> QED BY <3>1, <3>2 DEF Publish, Tick, vars, upstream
  <2>2. ASSUME NEW p \in Procs, pc[p] = "compare", ~blind[p], hash[p] # None
        PROVE  CurrentAt(superseded'[hash[p]], start[p] - FirstAge)
    <3>1. hash[p] \in Versions /\ CurrentAt(superseded[hash[p]], start[p] - FirstAge)
      BY <1>0, <2>2 DEF TypeOK, AllDated, BodyDated
    <3> QED BY <1>0, <1>1, <3>1, CurrentStays
  <2>3. ASSUME NEW p \in Procs, pc[p] \in {"write", "replace"}, tmp # None, ~unsure[tmp]
        PROVE  CurrentAt(superseded'[src[p]], start[p] - FirstAge)
    <3>1. src[p] \in Versions /\ CurrentAt(superseded[src[p]], start[p] - FirstAge)
      BY <1>0, <2>3 DEF TypeOK, AllDated, BodyDated
    <3> QED BY <1>0, <1>1, <3>1, CurrentStays
  <2> QED BY <1>0, <2>1, <2>2, <2>3 DEF AllDated, BodyDated
<1>3. DestDated'
  <2>1. ASSUME dest # None, ~unsure[dest]
        PROVE  CurrentAt(superseded'[data[dest][1]], mtime[dest] - MaxLatency - FirstAge)
    <3>1. dest \in Inodes /\ data[dest][1] \in Versions /\ mtime[dest] <= now
      BY <1>0, <2>1 DEF TypeOK, ClockBounds
    <3>2. /\ mtime[dest] - MaxLatency - FirstAge \in Int
          /\ mtime[dest] - MaxLatency - FirstAge <= now
      BY <1>0, <3>1, Constants
    <3>3. CurrentAt(superseded[data[dest][1]], mtime[dest] - MaxLatency - FirstAge)
      BY <2>1 DEF AllDated, DestDated
    <3> QED BY <1>0, <3>1, <3>2, <3>3, CurrentStays
  <2> QED BY <1>0, <2>1 DEF DestDated
<1>4. DoneDated'
  <2>1. ASSUME NEW p \in Procs, pc[p] = "done", ~unsure[dest]
        PROVE  CurrentAt(superseded'[data[dest][1]],
                         start[p] - MaxLatency - (FirstAge + FirstAge))
    <3>1. dest \in Inodes /\ data[dest][1] \in Versions
      BY <1>0, <2>1 DEF TypeOK
    <3>2. /\ start[p] - MaxLatency - (FirstAge + FirstAge) \in Int
          /\ start[p] - MaxLatency - (FirstAge + FirstAge) <= now
      BY <1>0, Constants DEF ClockBounds
    <3>3. CurrentAt(superseded[data[dest][1]],
                    start[p] - MaxLatency - (FirstAge + FirstAge))
      BY <2>1 DEF AllDated, DoneDated
    <3> QED BY <1>0, <3>1, <3>2, <3>3, CurrentStays
  <2> QED BY <1>0, <2>1 DEF DoneDated
<1> QED BY <1>2, <1>3, <1>4 DEF AllDated

LEMMA DatedByCalls ==
  ASSUME IInv, CopyInv, Serial', ClockBounds, LatestIsCurrent, UpstreamDated, AllDated,
         Policy # "other", [Next]_vars,
         NEW p \in Procs, Call(p) \/ Step(p) \/ Leave(p) \/ Die(p)
  PROVE  AllDated'
<1>0. /\ TypeOK /\ LocalsHeld /\ OneWriter /\ DestIsWhole
      /\ \A q \in Procs \ {p} : pc'[q] = "idle"
  BY OthersIdle DEF IInv, CopyInv, OneInCall
<1>1. superseded' = superseded /\ now' = now
  BY DEF Step, Call, Leave, Hit, UpstreamFails, Miss, Touch, CopyFails, Replace, Die, Open,
     WriteEnds, server
<1>2. /\ start \in [Procs -> Nat] /\ mtime \in [Inodes -> Nat] /\ now \in Nat
      /\ \A v \in Versions : superseded[v] \in Nat \cup {Never}
  BY <1>0 DEF TypeOK
<1> DEFINE BodyOf(place, h, b, u, v, st, t, no, mt) ==
             /\ place = "compare" /\ ~b => CurrentAt(superseded[u], st - FirstAge)
             /\ place = "compare" /\ ~b /\ h # None => CurrentAt(superseded[h], st - FirstAge)
             /\ place \in {"write", "replace"} /\ t # None /\ ~no =>
                  CurrentAt(superseded[v], st - FirstAge)
             /\ place = "replace" /\ t # None => st + MaxLatency >= mt
           DoneOf(place, no, v, st) ==
             place = "done" /\ ~no =>
               CurrentAt(superseded[v], st - MaxLatency - (FirstAge + FirstAge))
<1>3. /\ BodyOf(pc[p], hash[p], blind[p], up, src[p], start[p], tmp, unsure[tmp], mtime[tmp])
      /\ DoneOf(pc[p], unsure[dest], data[dest][1], start[p])
  BY DEF AllDated, BodyDated, DoneDated
<1>4. SUFFICES /\ BodyOf(pc'[p], hash'[p], blind'[p], up', src'[p], start'[p], tmp',
                         unsure'[tmp'], mtime'[tmp'])
               /\ DoneOf(pc'[p], unsure'[dest'], data'[dest'][1], start'[p])
               /\ DestDated'
  BY <1>0, <1>1 DEF AllDated, BodyDated, DoneDated
<1> USE <1>0, <1>1, <1>2 DEF TypeOK, Return, Go
<1>5. CASE Call(p) \/ Leave(p) \/ UpstreamFails(p)
  <2>1. pc'[p] \notin {"compare", "write", "replace", "done"} /\ UNCHANGED disk
    BY <1>5 DEF Call, Leave, UpstreamFails
  <2> QED BY <2>1 DEF AllDated, DestDated, disk
<1>6. CASE Hit(p)
  <2>1. /\ pc'[p] = "done" /\ UNCHANGED disk /\ start' = start
        /\ dest \in Inodes /\ ~Expired(mtime[dest]) /\ pc[p] = "check"
    BY <1>6 DEF Hit, Young
  <2>2. FirstAge = MaxAge /\ now - mtime[dest] < MaxAge
    BY <2>1, ConstantsOK DEF Expired, FirstAge
  <2>3. ~unsure[dest] =>
          CurrentAt(superseded[data[dest][1]], mtime[dest] - MaxLatency - FirstAge)
    BY <2>1, Constants DEF AllDated, DestDated
  <2>4. start[p] <= now /\ data[dest][1] \in Versions
    BY <2>1 DEF ClockBounds
  <2>5. ~unsure[dest] =>
          CurrentAt(superseded[data[dest][1]], start[p] - MaxLatency - (FirstAge + FirstAge))
    BY <2>1, <2>2, <2>3, <2>4, Constants DEF CurrentAt, Never
  <2> QED BY <2>1, <2>5 DEF AllDated, DestDated, disk
<1>7. CASE Miss(p)
  <2>1. /\ pc'[p] = "compare" /\ UNCHANGED disk /\ start' = start /\ pc[p] = "check"
        /\ UpstreamAnswers(p) /\ hash'[p] \in {None, up'}
    BY <1>7 DEF Miss
  <2>2. (~blind'[p] => CurrentAt(superseded[up'], now - FirstAge)) /\ start[p] <= now
    BY <2>1, AnswerIsRecent DEF ClockBounds
  <2>3. up' \in Versions
    BY <2>1, UpstreamType
  <2>4. ~blind'[p] => CurrentAt(superseded[up'], start[p] - FirstAge)
    BY <2>2, <2>3, Constants DEF CurrentAt, Never
  <2> QED BY <2>1, <2>4 DEF AllDated, DestDated, disk
<1>8. CASE Touch(p)
  <2>1. /\ pc[p] = "compare" /\ pc'[p] = "done" /\ UNCHANGED <<dest, data, start>>
        /\ dest \in Inodes /\ mtime'[dest] = now /\ hash[p] # None
        /\ data[dest][1] = hash[p] /\ hash[p] \in Versions
    BY <1>8 DEF Touch, Current
  <2>5. unsure'[dest] = blind[p]
    BY <1>8, <2>1, Zenon DEF Touch
  <2> SUFFICES ASSUME ~blind[p]
               PROVE  /\ CurrentAt(superseded[hash[p]], start[p] - MaxLatency - (FirstAge + FirstAge))
                      /\ CurrentAt(superseded[hash[p]], now - MaxLatency - FirstAge)
    BY <2>1, <2>5 DEF DestDated
  <2>2. CurrentAt(superseded[hash[p]], start[p] - FirstAge)
    BY <1>3, <2>1
  <2>3. start[p] <= now /\ now - start[p] <= MaxLatency
    BY <2>1 DEF ClockBounds, Resting
  <2>4. /\ CurrentAt(superseded[hash[p]], start[p] - MaxLatency - (FirstAge + FirstAge))
        /\ CurrentAt(superseded[hash[p]], now - MaxLatency - FirstAge)
    <3>1. /\ start[p] \in Nat /\ start[p] - FirstAge \in Int
          /\ start[p] - MaxLatency - (FirstAge + FirstAge) \in Int
          /\ start[p] - MaxLatency - (FirstAge + FirstAge) <= start[p] - FirstAge
          /\ now - MaxLatency - FirstAge \in Int
          /\ now - MaxLatency - FirstAge <= start[p] - FirstAge
      BY <2>3, Constants
    <3> QED BY <2>1, <2>2, <3>1, Earlier
  <2> QED BY <2>4
<1>9. ASSUME NEW i \in Inodes, Open(p, i) PROVE <1>4!1
  <2>1. /\ pc[p] = "compare" /\ pc'[p] = "write" /\ UNCHANGED <<dest, start>>
        /\ src'[p] = up /\ i # dest /\ tmp' = i
        /\ \A j \in Inodes \ {i} : data'[j] = data[j] /\ mtime'[j] = mtime[j]
    BY <1>9 DEF Open, Live, OneWriter
  <2>2. ~blind[p] => CurrentAt(superseded[up], start[p] - FirstAge)
    BY <1>3, <2>1
  <2>3. unsure'[i] = blind[p] /\ \A j \in Inodes \ {i} : unsure'[j] = unsure[j]
    BY <1>9, Zenon DEF Open
  <2>4. DestDated'
    BY <2>1, <2>3 DEF AllDated, DestDated
  <2> QED BY <2>1, <2>2, <2>3, <2>4
<1>10. ASSUME NEW whole \in BOOLEAN, WriteEnds(p, whole) PROVE <1>4!1
  <2>1. /\ pc[p] = "write" /\ pc'[p] = "replace" /\ UNCHANGED <<dest, tmp, start, src, unsure>>
        /\ fd[p] \in Inodes /\ fd[p] # dest /\ mtime'[fd[p]] = now
        /\ tmp # None => fd[p] = tmp
        /\ \A j \in Inodes \ {fd[p]} : data'[j] = data[j] /\ mtime'[j] = mtime[j]
    <3>1. /\ pc[p] = "write" /\ pc' = [pc EXCEPT ![p] = "replace"]
          /\ UNCHANGED <<dest, tmp, start, src, unsure>>
          /\ data' = [data EXCEPT ![fd[p]] = <<src[p], whole>>]
          /\ mtime' = [mtime EXCEPT ![fd[p]] = now]
      BY <1>10 DEF WriteEnds, call
    <3>2. fd[p] # None /\ fd[p] \in Inodes /\ fd[p] # dest /\ (tmp # None => fd[p] = tmp)
      BY <3>1 DEF OneWriter, LocalsHeld
    <3> QED BY <3>1, <3>2
  <2>2. tmp # None /\ ~unsure[tmp] => CurrentAt(superseded[src[p]], start[p] - FirstAge)
    BY <1>3, <2>1
  <2>3. now - start[p] <= MaxLatency
    BY <2>1 DEF ClockBounds, Resting
  <2>4. start[p] + MaxLatency >= now
    BY <2>3, Constants
  <2>5. DestDated'
    BY <2>1 DEF AllDated, DestDated
  <2>6. tmp # None => mtime'[tmp] = now
    BY <2>1
  <2> QED BY <2>1, <2>2, <2>4, <2>5, <2>6
<1>11. CASE CopyFails(p) \/ Die(p)
  <2>1. pc'[p] = "failed" /\ dest' = dest /\ Forget
    BY <1>11 DEF CopyFails, Die
  <2>2. dest # None => /\ data'[dest] = data[dest] /\ mtime'[dest] = mtime[dest]
                       /\ unsure'[dest] = unsure[dest]
    BY <2>1, ForgetKeeps
  <2> QED BY <2>1, <2>2 DEF AllDated, DestDated
<1>12. CASE Replace(p)
  <2>1. /\ pc[p] = "replace" /\ pc'[p] = "done" /\ dest' = tmp /\ tmp \in Inodes /\ tmp # None
        /\ tmp' = None /\ start' = start /\ Forget
    BY <1>12, Constants DEF Replace
  <2>2. data[tmp][1] = src[p] /\ src[p] \in Versions
    <3>1. data[tmp] = <<src[p], TRUE>>
      BY <2>1, Zenon DEF OneWriter
    <3> QED BY <3>1
  <2>3. data'[tmp] = data[tmp] /\ mtime'[tmp] = mtime[tmp] /\ unsure'[tmp] = unsure[tmp]
    BY <2>1, ForgetKeeps
  <2> SUFFICES ASSUME ~unsure[tmp]
               PROVE  /\ CurrentAt(superseded[src[p]], start[p] - MaxLatency - (FirstAge + FirstAge))
                      /\ CurrentAt(superseded[src[p]], mtime[tmp] - MaxLatency - FirstAge)
    BY <2>1, <2>2, <2>3 DEF DestDated
  <2>4. CurrentAt(superseded[src[p]], start[p] - FirstAge) /\ start[p] + MaxLatency >= mtime[tmp]
    BY <1>3, <2>1
  <2>5. start[p] \in Nat /\ mtime[tmp] \in Nat
    BY <2>1
  <2>6. /\ start[p] - FirstAge \in Int
        /\ start[p] - MaxLatency - (FirstAge + FirstAge) \in Int
        /\ start[p] - MaxLatency - (FirstAge + FirstAge) <= start[p] - FirstAge
        /\ mtime[tmp] - MaxLatency - FirstAge \in Int
        /\ mtime[tmp] - MaxLatency - FirstAge <= start[p] - FirstAge
    BY <2>4, <2>5, Constants
  <2> QED BY <2>2, <2>4, <2>6, Earlier
<1> QED BY <1>5, <1>6, <1>7, <1>8, <1>9, <1>10, <1>11, <1>12 DEF Step

LEMMA NextAge == IInv /\ CopyInv /\ AgeInv /\ [Next]_vars => AgeInv'
<1> SUFFICES ASSUME IInv, CopyInv, AgeInv, [Next]_vars PROVE AgeInv' OBVIOUS
<1>1. ClockBounds' /\ LatestIsCurrent' /\ UpstreamDated'
  BY NextClock, SupersededSteps, NextUpstream DEF AgeInv, IInv
<1>2. ASSUME Policy # "other", Serial' PROVE AllDated'
  <2>1. Serial /\ AllDated /\ ClockBounds /\ LatestIsCurrent /\ UpstreamDated
    BY <1>2, MeddledGrows DEF Serial, AgeInv, AllDated
  <2> QED BY <1>2, <2>1, DatedStays, DatedByCalls DEF Next
<1> QED BY <1>1, <1>2 DEF AgeInv, AllDated

(* While calls of any number of processes are serial, a copy that a call    *)
(* ends with was current at most two ttls and the length of one call       *)
(* before, unless the call that vouched for it was blind.                  *)
THEOREM SerialCopiesAreYoung == Spec => []CopyAgeBounded
<1>1. Init => CopyInv
  BY DEF Init, CopyInv, OneWriter, DestIsWhole, Writing
<1>2. IInv /\ CopyInv /\ AgeInv => CopyAgeBounded
  <2> SUFFICES ASSUME IInv, CopyInv, AgeInv, Serial, Policy # "other",
                      NEW p \in Procs, pc[p] = "done", ~unsure[dest]
               PROVE  LET v == data[dest][1] IN
                      \/ superseded[v] = Never
                      \/ superseded[v] + AgeAllowed + MaxLatency >= start[p]
    BY DEF CopyAgeBounded, Serial
  <2> DEFINE v == data[dest][1]
  <2>1. CurrentAt(superseded[v], start[p] - MaxLatency - (FirstAge + FirstAge))
    BY DEF AgeInv, DoneDated
  <2>2. dest \in Inodes /\ v \in Versions /\ start[p] \in Nat
    BY DEF IInv, TypeOK, CopyInv
  <2>3. superseded[v] \in Nat \cup {Never}
    BY <2>2 DEF IInv, TypeOK
  <2>4. AgeAllowed = FirstAge + FirstAge
    BY Constants, ConstantsOK DEF AgeAllowed, FirstAge
  <2> HIDE DEF v
  <2>5. superseded[v] = Never \/ superseded[v] + AgeAllowed + MaxLatency >= start[p]
    BY <2>1, <2>2, <2>3, <2>4, Constants DEF CurrentAt, Never
  <2> QED BY <2>5 DEF v
<1> QED BY <1>1, <1>2, InitAge, CopyInvariance, NextCopy, NextAge, PTL DEF Spec
--------------------------------------------------------------------------------
(***************************************************************************)
(* Second AssetDb, the files that processes share under two ways of        *)
(* keeping account of them.                                                *)
(***************************************************************************)

(* What the tables are indexed by, and the fields a call has where it is.  *)
CallShape(c) ==
  /\ c.pc # "idle" =>
       {"pc", "uri", "mode", "from"} \subseteq DOMAIN c /\ c.uri \in Uris /\ c.mode \in D!Modes
  /\ c.pc \notin {"idle", "answered"} => "asset" \in DOMAIN c
  /\ c.pc \in {"get", "replace", "upsert", "record"} => "known" \in DOMAIN c
  /\ c.pc \in {"replace", "upsert", "record"} => "body" \in DOMAIN c
  /\ c.pc = "answered" => {"file", "hash", "reached", "holds", "alone"} \subseteq DOMAIN c

Shapes ==
  /\ DOMAIN payload = Uris /\ DOMAIN manifest = Uris /\ DOMAIN obs = Uris
  /\ DOMAIN modes = Uris /\ DOMAIN derived = Contents
  /\ DOMAIN request = Clients
  /\ \A p \in Clients : CallShape(request[p])

LEMMA SetOne ==
  ASSUME DOMAIN request = Clients, NEW p \in Clients, NEW fields, D!Set(p, fields)
  PROVE  /\ DOMAIN request' = Clients
         /\ \A q \in Clients \ {p} : request'[q] = request[q]
         /\ DOMAIN request'[p] = DOMAIN request[p] \union DOMAIN fields
         /\ \A f \in DOMAIN fields : request'[p][f] = fields[f]
         /\ \A f \in DOMAIN request[p] \ DOMAIN fields : request'[p][f] = request[p][f]
  BY DEF D!Set

LEMMA AnswerOne ==
  ASSUME DOMAIN request = Clients, NEW p \in Clients,
         NEW file, NEW hashed, NEW reached, NEW content, D!Answer(p, file, hashed, reached, content)
  PROVE  /\ DOMAIN request' = Clients
         /\ \A q \in Clients \ {p} : request'[q] = request[q]
         /\ request'[p] = [pc |-> "answered", uri |-> request[p].uri, mode |-> request[p].mode,
                           from |-> request[p].from, file |-> file, hash |-> hashed,
                           reached |-> reached, holds |-> content, alone |-> TRUE]
  BY DEF D!Answer

LEMMA BeginOne ==
  ASSUME NEW p \in Clients, NEW u \in Uris, NEW mode \in D!Modes, D!Begin(p, u, mode)
  PROVE  /\ DOMAIN request' = Clients
         /\ \A q \in Clients \ {p} :
              request'[q] = IF D!At(q, "answered") THEN [request[q] EXCEPT !.alone = FALSE]
                            ELSE request[q]
         /\ D!Cached(mode, u) =>
              request'[p] = [pc |-> "cached", uri |-> u, mode |-> mode, from |-> at[u],
                             asset |-> epoch, rec |-> D!Record(mode, u),
                             file |-> D!FileOf(mode, u, D!Record(mode, u))]
         /\ ~D!Cached(mode, u) =>
              request'[p] = [pc |-> "head", uri |-> u, mode |-> mode, from |-> at[u],
                             asset |-> epoch]
  BY DEF D!Begin

LEMMA InitShapes == D!Init => Shapes
  BY DEF D!Init, D!Idle, Shapes, CallShape

(* The tables keep their indices.                                          *)
LEMMA NextTables ==
  ASSUME Shapes, [D!Next]_(D!vars)
  PROVE  /\ DOMAIN payload' = Uris /\ DOMAIN manifest' = Uris /\ DOMAIN obs' = Uris
         /\ DOMAIN modes' = Uris /\ DOMAIN derived' = Contents
<1>1. CASE D!Clear \/ \E c \in Contents : D!CleanDerived(c)
  BY <1>1 DEF D!Clear, D!CleanDerived, Shapes
<1>2. CASE \E u \in Uris : D!Publish(u) \/ D!Clean(u)
  BY <1>2 DEF D!Publish, D!Clean, D!stores, Shapes
<1>3. ASSUME NEW p \in Clients,
             \/ \E u \in Uris, mode \in D!Modes : D!Begin(p, u, mode)
             \/ D!Derive(p) \/ D!Kill(p)
      PROVE  /\ UNCHANGED <<payload, manifest, obs, modes>>
             /\ derived' = derived \/ \E f, x : derived' = [derived EXCEPT ![f] = x]
  BY <1>3 DEF D!Begin, D!Derive, D!Kill, D!stores
<1>4. ASSUME NEW p \in Clients, \E r : D!Put(p, r)
      PROVE  DOMAIN manifest' = Uris /\ DOMAIN obs' = Uris
  BY <1>4 DEF D!Put, Shapes
<1>5. ASSUME NEW p \in Clients,
             \/ D!Reuse(p) \/ D!Outdated(p) \/ D!HeadFirst(p) \/ D!Get(p) \/ D!GetFails(p)
      PROVE  UNCHANGED <<payload, manifest, obs, modes, derived>>
  BY <1>5 DEF D!Reuse, D!Outdated, D!HeadFirst, D!Get, D!GetFails, D!stores
<1>6. ASSUME NEW p \in Clients, D!Revalidate(p) \/ D!RecordIt(p)
      PROVE  UNCHANGED <<payload, modes, derived>> /\ \E r : D!Put(p, r)
  BY <1>6 DEF D!Revalidate, D!RecordIt
<1>7. ASSUME NEW p \in Clients, D!Replace(p) \/ D!Upsert(p)
      PROVE  /\ UNCHANGED <<manifest, obs, derived>>
             /\ DOMAIN payload' = DOMAIN payload /\ DOMAIN modes' = DOMAIN modes
  BY <1>7 DEF D!Replace, D!Upsert, D!InPlace
<1>8. CASE UNCHANGED D!vars
  BY <1>8 DEF D!vars, Shapes
<1> QED BY <1>1, <1>2, <1>3, <1>4, <1>5, <1>6, <1>7, <1>8 DEF D!Next, Shapes

LEMMA OneShape ==
  ASSUME Shapes, [D!Next]_(D!vars), NEW p \in Clients, DOMAIN request' = Clients,
         \A q \in Clients \ {p} : request'[q] = request[q], CallShape(request'[p])
  PROVE  Shapes'
  BY NextTables DEF Shapes

LEMMA NextShapes == Shapes /\ [D!Next]_(D!vars) => Shapes'
<1> SUFFICES ASSUME Shapes, [D!Next]_(D!vars) PROVE Shapes' OBVIOUS
<1>0. DOMAIN request = Clients /\ \A p \in Clients : CallShape(request[p])
  BY DEF Shapes
<1>1. CASE /\ DOMAIN request' = Clients
           /\ \A p \in Clients : request'[p] = request[p] \/ request'[p] = D!Idle
  <2>1. CallShape(D!Idle)
    BY DEF CallShape, D!Idle
  <2> QED BY <1>0, <1>1, <2>1, NextTables DEF Shapes
<1>2. CASE D!Clear \/ \E c \in Contents : D!CleanDerived(c)
  BY <1>0, <1>1, <1>2 DEF D!Clear, D!CleanDerived
<1>3. CASE \E u \in Uris : D!Publish(u) \/ D!Clean(u)
  BY <1>0, <1>1, <1>3 DEF D!Publish, D!Clean
<1>4. ASSUME NEW p \in Clients, D!GetFails(p) \/ D!Derive(p) \/ D!Kill(p)
      PROVE  Shapes'
  BY <1>0, <1>1, <1>4 DEF D!GetFails, D!Derive, D!Kill
<1>5. ASSUME NEW p \in Clients, NEW u \in Uris, NEW mode \in D!Modes, D!Begin(p, u, mode)
      PROVE  Shapes'
  <2>1. \A q \in Clients \ {p} : CallShape(request'[q])
    <3> SUFFICES ASSUME NEW q \in Clients \ {p} PROVE CallShape(request'[q])
      OBVIOUS
    <3>1. CASE request[q].pc = "answered"
      <4>1. request'[q] = [request[q] EXCEPT !.alone = FALSE]
        BY <1>5, <3>1, BeginOne DEF D!At
      <4> QED BY <1>0, <3>1, <4>1 DEF CallShape
    <3>2. CASE request[q].pc # "answered"
      BY <1>0, <1>5, <3>2, BeginOne DEF D!At
    <3> QED BY <3>1, <3>2
  <2>2. CallShape(request'[p])
    <3>1. CASE D!Cached(mode, u)
      <4>1. request'[p] = [pc |-> "cached", uri |-> u, mode |-> mode, from |-> at[u],
                           asset |-> epoch, rec |-> D!Record(mode, u),
                           file |-> D!FileOf(mode, u, D!Record(mode, u))]
        BY <1>5, <3>1, BeginOne
      <4> QED BY <4>1 DEF CallShape
    <3>2. CASE ~D!Cached(mode, u)
      <4>1. request'[p] = [pc |-> "head", uri |-> u, mode |-> mode, from |-> at[u],
                           asset |-> epoch]
        BY <1>5, <3>2, BeginOne
      <4> QED BY <4>1 DEF CallShape
    <3> QED BY <3>1, <3>2
  <2> QED BY <1>5, <2>1, <2>2, BeginOne, NextTables DEF Shapes
<1>6. ASSUME NEW p \in Clients, D!Reuse(p) \/ D!Revalidate(p) \/ D!RecordIt(p)
      PROVE  Shapes'
  <2>1. request[p].pc \in {"cached", "record"}
    BY <1>6 DEF D!Reuse, D!Revalidate, D!RecordIt, D!At
  <2>2. PICK file, hashed, reached, content : D!Answer(p, file, hashed, reached, content)
    BY <1>6 DEF D!Reuse, D!Revalidate, D!RecordIt, D!AnswerCached
  <2>3. request'[p] = [pc |-> "answered", uri |-> request[p].uri, mode |-> request[p].mode,
                       from |-> request[p].from, file |-> file, hash |-> hashed,
                       reached |-> reached, holds |-> content, alone |-> TRUE]
    BY <1>0, <2>2, AnswerOne
  <2>4. CallShape(request'[p])
    BY <1>0, <2>1, <2>3 DEF CallShape
  <2> QED BY <1>0, <2>2, <2>4, AnswerOne, OneShape
<1>7. ASSUME NEW p \in Clients, D!Outdated(p)
      PROVE  Shapes'
  <2>1. /\ request[p].pc = "cached"
        /\ D!Set(p, [pc |-> "head"]) \/ \E k : D!Set(p, [pc |-> "get", known |-> k])
    BY <1>7 DEF D!Outdated, D!At
  <2>2. CASE D!Set(p, [pc |-> "head"])
    BY <1>0, <2>1, <2>2, SetOne, OneShape DEF CallShape
  <2>3. CASE \E k : D!Set(p, [pc |-> "get", known |-> k])
    BY <1>0, <2>1, <2>3, SetOne, OneShape DEF CallShape
  <2> QED BY <2>1, <2>2, <2>3
<1>8. ASSUME NEW p \in Clients, D!HeadFirst(p)
      PROVE  Shapes'
  <2>1. request[p].pc = "head" /\ \E k : D!Set(p, [pc |-> "get", known |-> k])
    BY <1>8 DEF D!HeadFirst, D!At
  <2> QED BY <1>0, <2>1, SetOne, OneShape DEF CallShape
<1>9. ASSUME NEW p \in Clients, D!Get(p)
      PROVE  Shapes'
  <2>1. request[p].pc = "get" /\ \E b, k : D!Set(p, [pc |-> "replace", body |-> b, known |-> k])
    BY <1>9 DEF D!Get, D!At
  <2> QED BY <1>0, <2>1, SetOne, OneShape DEF CallShape
<1>10. ASSUME NEW p \in Clients, D!Replace(p) \/ D!Upsert(p)
       PROVE  Shapes'
  <2>1. /\ request[p].pc \in {"replace", "upsert"}
        /\ \E next \in {"upsert", "record"} : D!Set(p, [pc |-> next])
    BY <1>10 DEF D!Replace, D!Upsert, D!At
  <2> QED BY <1>0, <2>1, SetOne, OneShape DEF CallShape
<1>11. CASE UNCHANGED D!vars
  BY <1>0, <1>1, <1>11 DEF D!vars
<1> QED BY <1>2, <1>3, <1>4, <1>5, <1>6, <1>7, <1>8, <1>9, <1>10, <1>11 DEF D!Next
--------------------------------------------------------------------------------

(* The indices a call or a record can speak of.                            *)
AtOK ==
  /\ DOMAIN at = Uris
  /\ \A u \in Uris : at[u] \in Nat /\ 1 <= at[u] /\ at[u] <= Len(Script[u])

(* Served from the first index to the second; and, in this order, a HEAD   *)
(* and the body.                                                           *)
Served(u, content, from, to) == \E i \in from .. to : Script[u][i] = content
HeadThenBody(u, known, body, from, to) ==
  \E j \in from .. to : Script[u][j] = body /\ Served(u, known, from, j)

RecordsAge ==
  \A u \in Uris :
    /\ manifest[u] # None => HeadThenBody(u, manifest[u].known, manifest[u].hash, 1, at[u])
    /\ obs[u] # None => HeadThenBody(u, obs[u].known, obs[u].hash, 1, at[u])

(* What a call has learned, of contents served since it began.             *)
Learned(c, upto) ==
  /\ c.pc # "idle" => c.from \in 1 .. upto[c.uri]
  /\ c.pc = "cached" => HeadThenBody(c.uri, c.rec.known, c.rec.hash, 1, upto[c.uri])
  /\ c.pc = "get" /\ c.known # None => Served(c.uri, c.known, c.from, upto[c.uri])
  /\ c.pc \in {"replace", "upsert", "record"} =>
       HeadThenBody(c.uri, c.known, c.body, c.from, upto[c.uri])
  /\ c.pc = "answered" /\ c.reached => Served(c.uri, c.hash, c.from, upto[c.uri])

CallsLearn == \A p \in Clients : Learned(request[p], at)

LearnInv == AtOK /\ RecordsAge /\ CallsLearn

LEMMA InitLearn == D!Init => LearnInv
<1> SUFFICES ASSUME D!Init PROVE LearnInv OBVIOUS
<1>1. \A u \in Uris : Len(Script[u]) \in Nat /\ Len(Script[u]) >= 1
  BY ScriptsOK
<1>2. AtOK /\ RecordsAge
  BY <1>1 DEF D!Init, AtOK, RecordsAge
<1>3. CallsLearn
  BY DEF D!Init, D!Idle, CallsLearn, Learned
<1> QED BY <1>2, <1>3 DEF LearnInv

LEMMA LearnedStays ==
  ASSUME AtOK, AtOK', \A u \in Uris : at[u] <= at'[u], NEW c, CallShape(c), Learned(c, at)
  PROVE  Learned(c, at')
  BY DEF AtOK, CallShape, Learned, Served, HeadThenBody

LEMMA RecordStays ==
  ASSUME AtOK, AtOK', \A u \in Uris : at[u] <= at'[u], NEW u \in Uris, NEW known, NEW body,
         HeadThenBody(u, known, body, 1, at[u])
  PROVE  HeadThenBody(u, known, body, 1, at'[u])
  BY DEF AtOK, Served, HeadThenBody

LEMMA SinceStart ==
  ASSUME AtOK, NEW u \in Uris, NEW from \in 1 .. at[u], NEW known, NEW body,
         HeadThenBody(u, known, body, from, at[u])
  PROVE  HeadThenBody(u, known, body, 1, at[u]) /\ Served(u, body, from, at[u])
  BY DEF AtOK, Served, HeadThenBody

(* A server that never returns to a content has it as long as HEAD says so. *)
LEMMA StillTheSame ==
  ASSUME D!NeverReturns, AtOK, NEW u \in Uris, NEW from \in 1 .. at[u], NEW known, NEW body,
         HeadThenBody(u, known, body, 1, at[u]), known = Script[u][at[u]]
  PROVE  Served(u, body, from, at[u])
<1>0. at[u] \in Nat /\ Len(Script[u]) \in Nat /\ at[u] \in 1 .. Len(Script[u])
  BY ScriptsOK DEF AtOK
<1>1. PICK j \in 1 .. at[u] : Script[u][j] = body /\ Served(u, known, 1, j)
  BY DEF HeadThenBody
<1>2. PICK i \in 1 .. j : Script[u][i] = Script[u][at[u]]
  BY <1>1 DEF Served
<1>3. i = at[u]
  BY <1>0, <1>1, <1>2 DEF D!NeverReturns
<1> QED BY <1>0, <1>1, <1>2, <1>3 DEF Served

LEMMA NextAt ==
  ASSUME AtOK, [D!Next]_(D!vars)
  PROVE  AtOK' /\ \A u \in Uris : at[u] <= at'[u]
<1>1. ASSUME NEW u \in Uris, D!Publish(u)
      PROVE  AtOK' /\ \A v \in Uris : at[v] <= at'[v]
  <2>1. at' = [at EXCEPT ![u] = at[u] + 1] /\ at[u] < Len(Script[u]) /\ Len(Script[u]) \in Nat
    BY <1>1, ScriptsOK DEF D!Publish
  <2> QED BY <2>1 DEF AtOK
<1>2. CASE at' = at
  BY <1>2 DEF AtOK
<1>3. CASE D!Clear \/ \E c \in Contents : D!CleanDerived(c)
  BY <1>3, <1>2 DEF D!Clear, D!CleanDerived
<1>4. CASE \E u \in Uris : D!Clean(u)
  BY <1>4, <1>2 DEF D!Clean
<1>5. ASSUME NEW p \in Clients,
             \/ \E u \in Uris, mode \in D!Modes : D!Begin(p, u, mode)
             \/ D!Derive(p) \/ D!Kill(p)
      PROVE  at' = at
  BY <1>5 DEF D!Begin, D!Derive, D!Kill
<1>6. ASSUME NEW p \in Clients,
             \/ D!Reuse(p) \/ D!Revalidate(p) \/ D!Outdated(p) \/ D!HeadFirst(p) \/ D!Get(p)
             \/ D!GetFails(p) \/ D!Replace(p) \/ D!Upsert(p) \/ D!RecordIt(p)
      PROVE  at' = at
  BY <1>6 DEF D!Reuse, D!Revalidate, D!Outdated, D!HeadFirst, D!Get, D!GetFails, D!Replace,
     D!Upsert, D!RecordIt, D!env
<1>7. CASE UNCHANGED D!vars
  BY <1>7, <1>2 DEF D!vars
<1> QED BY <1>1, <1>2, <1>3, <1>4, <1>5, <1>6, <1>7 DEF D!Next

(* Only what a call has learned is written.                                *)
LEMMA PutAges ==
  ASSUME Shapes, AtOK, RecordsAge, NEW p \in Clients, request[p].uri \in Uris, NEW rec,
         HeadThenBody(request[p].uri, rec.known, rec.hash, 1, at[request[p].uri]),
         D!Put(p, rec), at' = at
  PROVE  RecordsAge'
  BY DEF D!Put, RecordsAge, Shapes

LEMMA NextRecords == Shapes /\ LearnInv /\ [D!Next]_(D!vars) => RecordsAge'
<1> SUFFICES ASSUME Shapes, LearnInv, [D!Next]_(D!vars) PROVE RecordsAge' OBVIOUS
<1>0. /\ AtOK /\ AtOK' /\ RecordsAge /\ CallsLearn /\ \A u \in Uris : at[u] <= at'[u]
      /\ DOMAIN manifest = Uris /\ DOMAIN obs = Uris
      /\ \A p \in Clients : CallShape(request[p]) /\ Learned(request[p], at)
  BY NextAt DEF LearnInv, CallsLearn, Shapes
<1>1. CASE \A u \in Uris : manifest'[u] \in {manifest[u], None} /\ obs'[u] \in {obs[u], None}
  BY <1>0, <1>1, RecordStays DEF RecordsAge
<1>2. CASE D!Clear \/ \E c \in Contents : D!CleanDerived(c)
  BY <1>0, <1>1, <1>2 DEF D!Clear, D!CleanDerived
<1>3. CASE \E u \in Uris : D!Publish(u) \/ D!Clean(u)
  BY <1>0, <1>1, <1>3 DEF D!Publish, D!Clean, D!stores
<1>4. ASSUME NEW p \in Clients,
             \/ \E u \in Uris, mode \in D!Modes : D!Begin(p, u, mode)
             \/ D!Derive(p) \/ D!Kill(p)
      PROVE  UNCHANGED <<manifest, obs>>
  BY <1>4 DEF D!Begin, D!Derive, D!Kill, D!stores
<1>5. ASSUME NEW p \in Clients,
             \/ D!Reuse(p) \/ D!Outdated(p) \/ D!HeadFirst(p) \/ D!Get(p)
             \/ D!GetFails(p) \/ D!Replace(p) \/ D!Upsert(p)
      PROVE  UNCHANGED <<manifest, obs>>
  BY <1>5 DEF D!Reuse, D!Outdated, D!HeadFirst, D!Get, D!GetFails, D!Replace, D!Upsert, D!stores
<1>6. ASSUME NEW p \in Clients, D!Revalidate(p)
      PROVE  RecordsAge'
  <2>1. /\ D!Put(p, request[p].rec) /\ at' = at /\ request[p].uri \in Uris
        /\ HeadThenBody(request[p].uri, request[p].rec.known, request[p].rec.hash, 1,
                        at[request[p].uri])
    BY <1>0, <1>6 DEF D!Revalidate, D!env, D!At, CallShape, Learned
  <2> QED BY <1>0, <2>1, PutAges
<1>7. ASSUME NEW p \in Clients, D!RecordIt(p)
      PROVE  RecordsAge'
  <2> DEFINE c == request[p]
  <2>1. /\ D!Put(p, D!Rec(c.known, c.body)) /\ at' = at /\ c.uri \in Uris
        /\ c.from \in 1 .. at[c.uri]
        /\ HeadThenBody(c.uri, c.known, c.body, c.from, at[c.uri])
    BY <1>0, <1>7 DEF D!RecordIt, D!env, D!At, CallShape, Learned
  <2>2. HeadThenBody(c.uri, D!Rec(c.known, c.body).known, D!Rec(c.known, c.body).hash, 1, at[c.uri])
    BY <1>0, <2>1, SinceStart DEF D!Rec
  <2> QED BY <1>0, <2>1, <2>2, PutAges
<1>8. CASE UNCHANGED D!vars
  BY <1>0, <1>1, <1>8 DEF D!vars
<1>9. CASE UNCHANGED <<manifest, obs>>
  BY <1>0, <1>1, <1>9
<1> QED BY <1>2, <1>3, <1>4, <1>5, <1>6, <1>7, <1>8, <1>9 DEF D!Next

(* A step of one call leaves the others as they are.                       *)
LEMMA OneLearns ==
  ASSUME Shapes, LearnInv, [D!Next]_(D!vars), NEW p \in Clients,
         \A q \in Clients \ {p} : request'[q] = request[q], Learned(request'[p], at), at' = at
  PROVE  CallsLearn'
  BY DEF LearnInv, CallsLearn

LEMMA NextCalls == D!NeverReturns /\ Shapes /\ LearnInv /\ [D!Next]_(D!vars) => CallsLearn'
<1> SUFFICES ASSUME D!NeverReturns, Shapes, LearnInv, [D!Next]_(D!vars) PROVE CallsLearn' OBVIOUS
<1>0. /\ AtOK /\ AtOK' /\ RecordsAge /\ CallsLearn /\ \A u \in Uris : at[u] <= at'[u]
      /\ DOMAIN request = Clients
      /\ \A p \in Clients : CallShape(request[p]) /\ Learned(request[p], at)
  BY NextAt DEF LearnInv, CallsLearn, Shapes
<1>1. CASE \A p \in Clients : request'[p] = request[p] \/ request'[p] = D!Idle
  <2>1. Learned(D!Idle, at')
    BY DEF Learned, D!Idle
  <2> QED BY <1>0, <1>1, <2>1, LearnedStays DEF CallsLearn
<1>2. CASE D!Clear \/ \E c \in Contents : D!CleanDerived(c)
  BY <1>1, <1>2 DEF D!Clear, D!CleanDerived
<1>3. CASE \E u \in Uris : D!Publish(u) \/ D!Clean(u)
  BY <1>1, <1>3 DEF D!Publish, D!Clean
<1>4. ASSUME NEW p \in Clients, D!GetFails(p) \/ D!Derive(p) \/ D!Kill(p)
      PROVE  CallsLearn'
  BY <1>0, <1>1, <1>4 DEF D!GetFails, D!Derive, D!Kill
<1>5. ASSUME NEW p \in Clients, NEW u \in Uris, NEW mode \in D!Modes, D!Begin(p, u, mode)
      PROVE  CallsLearn'
  <2>1. at' = at
    BY <1>5 DEF D!Begin
  <2>2. ASSUME NEW q \in Clients \ {p} PROVE Learned(request'[q], at)
    <3>1. CASE request[q].pc = "answered"
      <4>1. request'[q] = [request[q] EXCEPT !.alone = FALSE]
        BY <1>5, <3>1, BeginOne DEF D!At
      <4> QED BY <1>0, <3>1, <4>1 DEF CallShape, Learned
    <3>2. CASE request[q].pc # "answered"
      BY <1>0, <1>5, <3>2, BeginOne DEF D!At
    <3> QED BY <3>1, <3>2
  <2>3. CASE D!Cached(mode, u)
    <3>1. request'[p] = [pc |-> "cached", uri |-> u, mode |-> mode, from |-> at[u],
                         asset |-> epoch, rec |-> D!Record(mode, u),
                         file |-> D!FileOf(mode, u, D!Record(mode, u))]
      BY <1>5, <2>3, BeginOne
    <3>2. HeadThenBody(u, D!Record(mode, u).known, D!Record(mode, u).hash, 1, at[u])
      BY <1>0, <2>3 DEF D!Cached, D!Record, RecordsAge
    <3>3. Learned(request'[p], at)
      BY <1>0, <3>1, <3>2 DEF Learned, AtOK
    <3> QED BY <2>1, <2>2, <3>3 DEF CallsLearn
  <2>4. CASE ~D!Cached(mode, u)
    <3>1. request'[p] = [pc |-> "head", uri |-> u, mode |-> mode, from |-> at[u],
                         asset |-> epoch]
      BY <1>5, <2>4, BeginOne
    <3>2. Learned(request'[p], at)
      BY <1>0, <3>1 DEF Learned, AtOK
    <3> QED BY <2>1, <2>2, <3>2 DEF CallsLearn
  <2> QED BY <2>3, <2>4
<1>6. ASSUME NEW p \in Clients, D!Reuse(p)
      PROVE  CallsLearn'
  <2>1. /\ request[p].pc = "cached" /\ at' = at
        /\ D!Answer(p, request[p].file, request[p].rec.hash, FALSE, payload[request[p].file])
    BY <1>6 DEF D!Reuse, D!AnswerCached, D!At, D!env
  <2>2. /\ request'[p].pc = "answered" /\ request'[p].reached = FALSE
        /\ request'[p].uri = request[p].uri /\ request'[p].from = request[p].from
    BY <1>0, <2>1 DEF D!Answer
  <2>3. Learned(request'[p], at)
    BY <1>0, <2>1, <2>2 DEF Learned
  <2> QED BY <1>0, <2>1, <2>3, AnswerOne, OneLearns
<1>7. ASSUME NEW p \in Clients, D!Revalidate(p)
      PROVE  CallsLearn'
  <2> DEFINE c == request[p]
  <2>1. /\ c.pc = "cached" /\ at' = at /\ c.rec.known = Script[c.uri][at[c.uri]]
        /\ D!Answer(p, c.file, c.rec.hash, TRUE, payload[c.file])
    BY <1>7 DEF D!Revalidate, D!Changed, D!Now, D!AnswerCached, D!At, D!env
  <2>2. /\ c.uri \in Uris /\ c.from \in 1 .. at[c.uri]
        /\ HeadThenBody(c.uri, c.rec.known, c.rec.hash, 1, at[c.uri])
    BY <1>0, <2>1 DEF CallShape, Learned
  <2>3. Served(c.uri, c.rec.hash, c.from, at[c.uri])
    BY <1>0, <2>1, <2>2, StillTheSame
  <2>4. /\ request'[p].pc = "answered" /\ request'[p].hash = c.rec.hash
        /\ request'[p].uri = c.uri /\ request'[p].from = c.from
    BY <1>0, <2>1 DEF D!Answer
  <2>5. Learned(request'[p], at)
    BY <2>2, <2>3, <2>4 DEF Learned
  <2> QED BY <1>0, <2>1, <2>5, AnswerOne, OneLearns
<1>8. ASSUME NEW p \in Clients, D!RecordIt(p)
      PROVE  CallsLearn'
  <2> DEFINE c == request[p]
  <2>1. /\ c.pc = "record" /\ at' = at
        /\ D!Answer(p, c.uri, c.body, TRUE, payload[c.uri])
    BY <1>8 DEF D!RecordIt, D!At, D!env
  <2>2. /\ c.uri \in Uris /\ c.from \in 1 .. at[c.uri]
        /\ HeadThenBody(c.uri, c.known, c.body, c.from, at[c.uri])
    BY <1>0, <2>1 DEF CallShape, Learned
  <2>3. Served(c.uri, c.body, c.from, at[c.uri])
    BY <1>0, <2>2, SinceStart
  <2>4. /\ request'[p].pc = "answered" /\ request'[p].hash = c.body
        /\ request'[p].uri = c.uri /\ request'[p].from = c.from
    BY <1>0, <2>1 DEF D!Answer
  <2>5. Learned(request'[p], at)
    BY <2>2, <2>3, <2>4 DEF Learned
  <2> QED BY <1>0, <2>1, <2>5, AnswerOne, OneLearns
<1>9. ASSUME NEW p \in Clients, D!Outdated(p)
      PROVE  CallsLearn'
  <2> DEFINE u == request[p].uri
  <2>0. request[p].pc = "cached" /\ at' = at
    BY <1>9 DEF D!Outdated, D!At, D!env
  <2>1. /\ u \in Uris /\ request[p].from \in 1 .. at[u] /\ at[u] \in Nat
        /\ {"uri", "from"} \subseteq DOMAIN request[p]
    BY <1>0, <2>0 DEF CallShape, Learned, AtOK
  <2>2. Served(u, Script[u][at[u]], request[p].from, at[u])
    BY <2>1 DEF Served
  <2>3. CASE D!Set(p, [pc |-> "get", known |-> D!Now(u)])
    <3>1. Learned(request'[p], at)
      BY <1>0, <2>1, <2>2, <2>3, SetOne DEF Learned, D!Now
    <3> QED BY <1>0, <2>0, <2>3, <3>1, SetOne, OneLearns
  <2>4. CASE D!Set(p, [pc |-> "head"])
    <3>1. Learned(request'[p], at)
      BY <1>0, <2>1, <2>4, SetOne DEF Learned
    <3> QED BY <1>0, <2>0, <2>4, <3>1, SetOne, OneLearns
  <2> QED BY <1>9, <2>3, <2>4 DEF D!Outdated
<1>10. ASSUME NEW p \in Clients, D!HeadFirst(p)
       PROVE  CallsLearn'
  <2> DEFINE u == request[p].uri
  <2>0. request[p].pc = "head" /\ at' = at
    BY <1>10 DEF D!HeadFirst, D!At, D!env
  <2>1. /\ u \in Uris /\ request[p].from \in 1 .. at[u] /\ at[u] \in Nat
        /\ {"uri", "from"} \subseteq DOMAIN request[p]
    BY <1>0, <2>0 DEF CallShape, Learned, AtOK
  <2>2. PICK k \in {D!Now(u), None} : D!Set(p, [pc |-> "get", known |-> k])
    BY <1>10 DEF D!HeadFirst
  <2>3. k # None => Served(u, k, request[p].from, at[u])
    BY <2>1 DEF Served, D!Now
  <2>4. Learned(request'[p], at)
    BY <1>0, <2>1, <2>2, <2>3, SetOne DEF Learned
  <2> QED BY <1>0, <2>0, <2>2, <2>4, SetOne, OneLearns
<1>11. ASSUME NEW p \in Clients, D!Get(p)
       PROVE  CallsLearn'
  <2> DEFINE u == request[p].uri
             body == D!Now(u)
             known == IF request[p].known = None THEN body ELSE request[p].known
  <2>0. request[p].pc = "get" /\ at' = at
    BY <1>11 DEF D!Get, D!At, D!env
  <2>1. /\ u \in Uris /\ request[p].from \in 1 .. at[u] /\ at[u] \in Nat
        /\ {"uri", "from", "known"} \subseteq DOMAIN request[p]
        /\ request[p].known # None => Served(u, request[p].known, request[p].from, at[u])
    BY <1>0, <2>0 DEF CallShape, Learned, AtOK
  <2>2. D!Set(p, [pc |-> "replace", body |-> body, known |-> known])
    BY <1>11 DEF D!Get
  <2>3. Served(u, known, request[p].from, at[u])
    BY <2>1 DEF Served, D!Now
  <2>4. HeadThenBody(u, known, body, request[p].from, at[u])
    BY <2>1, <2>3 DEF HeadThenBody, D!Now
  <2> HIDE DEF body, known
  <2>5. Learned(request'[p], at)
    BY <1>0, <2>1, <2>2, <2>4, SetOne DEF Learned
  <2> QED BY <1>0, <2>0, <2>2, <2>5, SetOne, OneLearns
<1>12. ASSUME NEW p \in Clients, D!Replace(p) \/ D!Upsert(p)
       PROVE  CallsLearn'
  <2>1. /\ request[p].pc \in {"replace", "upsert"} /\ at' = at
        /\ \E next \in {"upsert", "record"} : D!Set(p, [pc |-> next])
    BY <1>12 DEF D!Replace, D!Upsert, D!At, D!env
  <2>2. Learned(request'[p], at)
    BY <1>0, <2>1, SetOne DEF CallShape, Learned
  <2> QED BY <1>0, <2>1, <2>2, SetOne, OneLearns
<1>13. CASE UNCHANGED D!vars
  BY <1>0, <1>1, <1>13 DEF D!vars
<1> QED BY <1>2, <1>3, <1>4, <1>5, <1>6, <1>7, <1>8, <1>9, <1>10, <1>11, <1>12, <1>13 DEF D!Next

LEMMA NextLearn == D!NeverReturns /\ Shapes /\ LearnInv /\ [D!Next]_(D!vars) => LearnInv'
  BY NextAt, NextRecords, NextCalls DEF LearnInv

(* The tables are indexed by what the model says, and a call has at every  *)
(* point the fields the next step reads.                                   *)
THEOREM CallShapes == D!Spec => []Shapes
  BY InitShapes, NextShapes, PTL DEF D!Spec

(* A call that has asked the server answers with a hash the server has     *)
(* served since the call began, in both modes, whatever other calls, kills  *)
(* and cleanings do in between, provided that no server returns to a        *)
(* content it has replaced: HEAD comes before GET, so a record may have a   *)
(* newer body under an older HEAD, and a server that went back to what that  *)
(* HEAD saw would be taken for unchanged.                                  *)
THEOREM ReachedAnswersAreCurrent == D!NeverReturns => (D!Spec => []ReachedAnswerIsCurrent)
<1> SUFFICES ASSUME D!NeverReturns PROVE D!Spec => []ReachedAnswerIsCurrent
  OBVIOUS
<1>1. LearnInv => ReachedAnswerIsCurrent
  BY DEF LearnInv, CallsLearn, Learned, Served, ReachedAnswerIsCurrent,
     D!ReachedAnswerIsCurrent, D!At
<1>2. Shapes /\ LearnInv /\ [D!Next]_(D!vars) => LearnInv'
  BY NextLearn
<1> QED BY <1>1, <1>2, InitLearn, CallShapes, PTL DEF D!Spec
--------------------------------------------------------------------------------
(* HashNamesContent.  While calls are serial at most one is under way, and *)
(* an answer that is still alone was given after every other.              *)
Runs(p) == request[p].pc \notin {"idle", "answered"}
OneRuns ==
  /\ \A p, q \in Clients : Runs(p) /\ Runs(q) => p = q
  /\ \A p, q \in Clients :
       p # q /\ request[p].pc = "answered" /\ request[p].alone => ~Runs(q)

Single(u) == modes[u] \in {{"db"}, {"manifest"}}
Records(p, u) == request[p].pc \in {"upsert", "record"} /\ request[p].uri = u
Recording(u) == \E p \in Clients : Records(p, u)

(* A mode has a record only of what it has downloaded, and if it alone has, *)
(* the record is of what the file holds, but for the moments between.      *)
RecordsNamed ==
  \A u \in Uris :
    /\ manifest[u] # None => "manifest" \in modes[u]
    /\ obs[u] # None => "db" \in modes[u]
    /\ Single(u) /\ payload[u] # None /\ ~Recording(u) =>
         /\ manifest[u] # None => manifest[u].hash = payload[u]
         /\ obs[u] # None => obs[u].hash = payload[u]

CallNamed(p) ==
  LET c == request[p] IN
  /\ Runs(p) => c.asset = epoch
  /\ c.pc = "cached" =>
       /\ c.mode \in modes[c.uri] /\ payload[c.file] # None /\ c.rec # None
       /\ c.rec = IF c.mode = "manifest" THEN manifest[c.uri] ELSE obs[c.uri]
       /\ c.mode = "manifest" => c.file = c.uri
  /\ c.pc \in {"upsert", "record"} => c.mode \in modes[c.uri] /\ payload[c.uri] = c.body
  /\ c.pc = "answered" =>
       /\ c.mode \in modes[c.uri]
       /\ c.file = c.uri /\ Single(c.uri) => c.holds = c.hash
       /\ c.alone /\ c.mode = "manifest" /\ Single(c.uri) =>
            c.file = c.uri /\ payload[c.uri] \in {None, c.hash}

DerivedNamed ==
  (\A u \in Uris : modes[u] \in {{}, {"manifest"}})
    => \A c \in Contents : derived[c] \in {None, c}

SerialInv ==
  serial => OneRuns /\ RecordsNamed /\ (\A p \in Clients : CallNamed(p)) /\ DerivedNamed

LEMMA InitSerial == D!Init => SerialInv
  BY DEF D!Init, D!Idle, SerialInv, OneRuns, Runs, RecordsNamed, CallNamed, DerivedNamed

LEMMA ModesGrow ==
  ASSUME Shapes, [D!Next]_(D!vars)
  PROVE  \A u \in Uris : modes[u] \subseteq modes'[u]
<1>1. CASE modes' = modes
  BY <1>1
<1>2. CASE \E p \in Clients : D!Replace(p)
  BY <1>2 DEF D!Replace, Shapes
<1>3. CASE D!Clear \/ \E c \in Contents : D!CleanDerived(c)
  BY <1>1, <1>3 DEF D!Clear, D!CleanDerived
<1>4. CASE \E u \in Uris : D!Publish(u) \/ D!Clean(u)
  BY <1>1, <1>4 DEF D!Publish, D!Clean
<1>5. ASSUME NEW p \in Clients,
             \/ \E u \in Uris, mode \in D!Modes : D!Begin(p, u, mode)
             \/ D!Derive(p) \/ D!Kill(p)
      PROVE  modes' = modes
  BY <1>5 DEF D!Begin, D!Derive, D!Kill
<1>6. ASSUME NEW p \in Clients,
             \/ D!Reuse(p) \/ D!Revalidate(p) \/ D!Outdated(p) \/ D!HeadFirst(p) \/ D!Get(p)
             \/ D!GetFails(p) \/ D!Upsert(p) \/ D!RecordIt(p)
      PROVE  modes' = modes
  BY <1>6 DEF D!Reuse, D!Revalidate, D!Outdated, D!HeadFirst, D!Get, D!GetFails, D!Upsert,
     D!RecordIt
<1>7. CASE UNCHANGED D!vars
  BY <1>1, <1>7 DEF D!vars
<1> QED BY <1>1, <1>2, <1>3, <1>4, <1>5, <1>6, <1>7 DEF D!Next

(* A file that one mode alone has downloaded has been that mode's since    *)
(* anybody downloaded it.                                                  *)
LEMMA SingleBefore ==
  ASSUME Shapes, [D!Next]_(D!vars), NEW u \in Uris, Single(u)', NEW mode \in modes[u]
  PROVE  modes'[u] = modes[u] /\ Single(u) /\ modes[u] = {mode}
<1>1. modes[u] \subseteq modes'[u]
  BY ModesGrow
<1>2. modes'[u] = {"db"} \/ modes'[u] = {"manifest"}
  BY DEF Single
<1> QED BY <1>1, <1>2 DEF Single

(* What a call that is over has given stays what it was, and so does the   *)
(* file while nobody downloads.                                            *)
LEMMA AnsweredStays ==
  ASSUME Shapes, Shapes', [D!Next]_(D!vars), NEW q \in Clients, CallNamed(q), ~Runs(q),
         \/ request'[q] = request[q]
         \/ request[q].pc = "answered" /\ request'[q] = [request[q] EXCEPT !.alone = FALSE],
         \/ ~request'[q].alone
         \/ \A u \in Uris : payload'[u] \in {payload[u], None}
  PROVE  CallNamed(q)' /\ ~Runs(q)'
<1>1. CASE request[q].pc # "answered"
  BY <1>1 DEF Runs, CallNamed
<1>2. CASE request[q].pc = "answered"
  <2> DEFINE c == request[q]
             d == request'[q]
  <2>1. /\ {"pc", "uri", "mode", "file", "hash", "holds", "alone"} \subseteq DOMAIN c
        /\ c.uri \in Uris
    BY <1>2 DEF Shapes, CallShape
  <2>2. PICK u \in Uris : u = c.uri
    BY <2>1
  <2>3. /\ d.pc = "answered" /\ d.uri = u /\ d.mode = c.mode /\ d.file = c.file
        /\ d.hash = c.hash /\ d.holds = c.holds /\ (d.alone => c.alone)
    BY <1>2, <2>1, <2>2
  <2>4. c.mode \in modes[u] /\ modes[u] \subseteq modes'[u]
    BY <1>2, <2>2, ModesGrow DEF CallNamed
  <2>5. Single(u)' => Single(u)
    BY <2>4, SingleBefore
  <2>6. c.file = u /\ Single(u) => c.holds = c.hash
    BY <1>2, <2>2 DEF CallNamed
  <2>7. c.alone /\ c.mode = "manifest" /\ Single(u) => c.file = u /\ payload[u] \in {None, c.hash}
    BY <1>2, <2>2 DEF CallNamed
  <2>8. d.alone => payload'[u] \in {payload[u], None}
    BY <2>2
  <2> HIDE DEF c, d
  <2>9. d.file = u /\ Single(u)' => d.holds = d.hash
    BY <2>3, <2>5, <2>6
  <2>10. d.alone /\ d.mode = "manifest" /\ Single(u)' =>
           d.file = u /\ payload'[u] \in {None, d.hash}
    BY <2>3, <2>5, <2>7, <2>8
  <2>11. d.mode \in modes'[u]
    BY <2>3, <2>4
  <2> QED BY <2>3, <2>9, <2>10, <2>11 DEF CallNamed, Runs, Single, d
<1> QED BY <1>1, <1>2

LEMMA SerialBefore == [D!Next]_(D!vars) /\ serial' => serial
<1> SUFFICES ASSUME [D!Next]_(D!vars), serial' PROVE serial
  OBVIOUS
<1>1. CASE serial' = serial
  BY <1>1
<1>2. CASE D!Clear \/ \E c \in Contents : D!CleanDerived(c)
  BY <1>2 DEF D!Clear, D!CleanDerived
<1>3. CASE \E u \in Uris : D!Publish(u) \/ D!Clean(u)
  BY <1>3 DEF D!Publish, D!Clean
<1>4. ASSUME NEW p \in Clients,
             \/ \E u \in Uris, mode \in D!Modes : D!Begin(p, u, mode)
             \/ D!Derive(p) \/ D!Kill(p)
      PROVE  serial
  BY <1>4 DEF D!Begin, D!Derive, D!Kill
<1>5. ASSUME NEW p \in Clients,
             \/ D!Reuse(p) \/ D!Revalidate(p) \/ D!Outdated(p) \/ D!HeadFirst(p) \/ D!Get(p)
             \/ D!GetFails(p) \/ D!Replace(p) \/ D!Upsert(p) \/ D!RecordIt(p)
      PROVE  serial' = serial
  BY <1>5 DEF D!Reuse, D!Revalidate, D!Outdated, D!HeadFirst, D!Get, D!GetFails, D!Replace,
     D!Upsert, D!RecordIt, D!env
<1>6. CASE UNCHANGED D!vars
  BY <1>1, <1>6 DEF D!vars
<1> QED BY <1>1, <1>2, <1>3, <1>4, <1>5, <1>6 DEF D!Next

SerialParts == OneRuns /\ RecordsNamed /\ (\A p \in Clients : CallNamed(p)) /\ DerivedNamed

(* The tables named by content, where only their removal is in question.   *)
LEMMA DerivedStays ==
  ASSUME Shapes, [D!Next]_(D!vars), DerivedNamed,
         \A c \in Contents : derived'[c] \in {derived[c], None}
  PROVE  DerivedNamed'
<1>1. \A u \in Uris : modes'[u] \in {{}, {"manifest"}} => modes[u] \in {{}, {"manifest"}}
  BY ModesGrow
<1> QED BY <1>1 DEF DerivedNamed

(* Records that stay or go, over files that stay or go, while no call      *)
(* records anything.                                                       *)
LEMMA RecordsStay ==
  ASSUME RecordsNamed, modes' = modes,
         \A u \in Uris :
           /\ manifest'[u] \in {manifest[u], None} /\ obs'[u] \in {obs[u], None}
           /\ payload'[u] \in {payload[u], None}
           /\ Recording(u) => Recording(u)'
  PROVE  RecordsNamed'
<1> SUFFICES ASSUME NEW u \in Uris
             PROVE  /\ manifest'[u] # None => "manifest" \in modes[u]
                    /\ obs'[u] # None => "db" \in modes[u]
                    /\ Single(u) /\ payload'[u] # None /\ ~Recording(u)' =>
                         /\ manifest'[u] # None => manifest'[u].hash = payload'[u]
                         /\ obs'[u] # None => obs'[u].hash = payload'[u]
  BY DEF RecordsNamed, Single
<1>1. /\ manifest'[u] # None => manifest'[u] = manifest[u]
      /\ obs'[u] # None => obs'[u] = obs[u]
      /\ payload'[u] # None => payload'[u] = payload[u]
  OBVIOUS
<1>2. Recording(u) => Recording(u)'
  OBVIOUS
<1> QED BY <1>1, <1>2 DEF RecordsNamed

(* The step of a call under way leaves the others as they are: over, and   *)
(* not alone.                                                              *)
LEMMA OthersAreOver ==
  ASSUME Shapes, Shapes', [D!Next]_(D!vars), SerialParts, NEW p \in Clients, Runs(p),
         \A q \in Clients \ {p} : request'[q] = request[q]
  PROVE  /\ OneRuns'
         /\ \A q \in Clients \ {p} : CallNamed(q)' /\ ~Runs(q) /\ ~Runs(q)'
         /\ \A u \in Uris : (Recording(u) => Records(p, u)) /\ (Recording(u)' => Records(p, u)')
<1>1. ASSUME NEW q \in Clients \ {p}
      PROVE  ~Runs(q) /\ (request[q].pc = "answered" => ~request[q].alone)
  BY DEF SerialParts, OneRuns
<1>2. ASSUME NEW q \in Clients \ {p}
      PROVE  CallNamed(q)' /\ ~Runs(q)'
  <2>1. CASE request[q].pc = "answered"
    BY <1>1, <2>1, AnsweredStays DEF SerialParts
  <2>2. CASE request[q].pc = "idle"
    BY <2>2 DEF CallNamed, Runs
  <2> QED BY <1>1, <2>1, <2>2 DEF Runs
<1>3. OneRuns'
  BY <1>1, <1>2 DEF OneRuns, Runs
<1>4. ASSUME NEW q \in Clients \ {p}
      PROVE  /\ request[q].pc \notin {"upsert", "record"}
             /\ request'[q].pc \notin {"upsert", "record"}
  BY <1>1, <1>2 DEF Runs
<1> QED BY <1>1, <1>2, <1>3, <1>4 DEF Recording, Records

LEMMA StillServing ==
  ASSUME Shapes, Shapes', SerialParts, [D!Next]_(D!vars), serial',
         \/ D!Clear \/ UNCHANGED D!vars
         \/ \E c \in Contents : D!CleanDerived(c)
         \/ \E u \in Uris : D!Publish(u) \/ D!Clean(u)
  PROVE  SerialParts'
<1>1. CASE UNCHANGED <<payload, manifest, obs, epoch, request, modes>> /\
           \A c \in Contents : derived'[c] \in {derived[c], None}
  <2>1. OneRuns' /\ RecordsNamed' /\ \A p \in Clients : CallNamed(p)'
    BY <1>1 DEF SerialParts, OneRuns, Runs, RecordsNamed, Recording, Records, Single, CallNamed
  <2> QED BY <1>1, <2>1, DerivedStays DEF SerialParts
<1>2. CASE UNCHANGED D!vars \/ \E u \in Uris : D!Publish(u)
  BY <1>1, <1>2 DEF D!vars, D!Publish, D!stores
<1>3. CASE \E c \in Contents : D!CleanDerived(c)
  BY <1>1, <1>3 DEF D!CleanDerived, Shapes
<1>4. CASE D!Clear \/ \E u \in Uris : D!Clean(u)
  <2>1. /\ \A q \in Clients : ~Runs(q)
        /\ modes' = modes /\ derived' = derived
        /\ \A u \in Uris : /\ manifest'[u] \in {manifest[u], None} /\ obs'[u] \in {obs[u], None}
                           /\ payload'[u] \in {payload[u], None}
    BY <1>4 DEF D!Clear, D!Clean, D!Ended, Runs, Shapes
  <2>2. \A q \in Clients : request'[q] = request[q]
    BY <1>4, <2>1 DEF D!Clear, D!Clean, D!At, Runs
  <2>3. OneRuns'
    BY <2>1, <2>2 DEF OneRuns, Runs
  <2>4. \A q \in Clients : CallNamed(q)'
    BY <2>1, <2>2, AnsweredStays DEF SerialParts
  <2>5. \A u \in Uris : ~Recording(u)
    BY <2>1 DEF Recording, Records, Runs
  <2>6. RecordsNamed' /\ DerivedNamed'
    BY <2>1, <2>5, RecordsStay, DerivedStays DEF SerialParts
  <2> QED BY <2>3, <2>4, <2>6 DEF SerialParts
<1> QED BY <1>2, <1>3, <1>4

LEMMA BeginNamed ==
  ASSUME Shapes, Shapes', SerialParts, [D!Next]_(D!vars), serial',
         NEW p \in Clients, NEW u \in Uris, NEW mode \in D!Modes, D!Begin(p, u, mode)
  PROVE  SerialParts'
<1>1. /\ \A q \in Clients : ~Runs(q)
      /\ UNCHANGED <<payload, manifest, obs, epoch, derived, modes>>
  BY DEF D!Begin, D!Ended, Runs, D!stores
<1>2. ASSUME NEW q \in Clients \ {p}
      PROVE  CallNamed(q)' /\ ~Runs(q)' /\ (request'[q].pc = "answered" => ~request'[q].alone)
  <2>1. CASE request[q].pc = "answered"
    <3>1. request'[q] = [request[q] EXCEPT !.alone = FALSE] /\ "alone" \in DOMAIN request[q]
      BY <2>1, BeginOne DEF D!At, Shapes, CallShape
    <3> QED BY <1>1, <2>1, <3>1, AnsweredStays DEF SerialParts
  <2>2. CASE request[q].pc = "idle"
    <3>1. request'[q] = request[q]
      BY <2>2, BeginOne DEF D!At
    <3> QED BY <2>2, <3>1 DEF CallNamed, Runs
  <2> QED BY <1>1, <2>1, <2>2 DEF Runs
<1>3. CallNamed(p)' /\ Runs(p)' /\ request'[p].pc \in {"cached", "head"}
  <2>1. CASE D!Cached(mode, u)
    <3> DEFINE rec == D!Record(mode, u)
    <3>1. /\ request'[p] = [pc |-> "cached", uri |-> u, mode |-> mode, from |-> at[u],
                            asset |-> epoch, rec |-> rec, file |-> D!FileOf(mode, u, rec)]
          /\ rec # None /\ payload[D!FileOf(mode, u, rec)] # None
      BY <2>1, BeginOne DEF D!Cached
    <3>2. /\ mode = "manifest" => rec = manifest[u] /\ D!FileOf(mode, u, rec) = u
          /\ mode # "manifest" => mode = "db" /\ rec = obs[u]
      BY <3>1 DEF D!Record, D!FileOf, D!Modes
    <3>3. mode \in modes[u]
      BY <3>1, <3>2 DEF SerialParts, RecordsNamed
    <3> HIDE DEF rec
    <3>4. /\ request'[p].pc = "cached" /\ request'[p].uri = u /\ request'[p].mode = mode
          /\ request'[p].asset = epoch /\ request'[p].rec = rec
          /\ request'[p].file = D!FileOf(mode, u, rec)
      BY <3>1
    <3> QED BY <1>1, <3>1, <3>2, <3>3, <3>4 DEF CallNamed, Runs
  <2>2. CASE ~D!Cached(mode, u)
    <3>1. request'[p] = [pc |-> "head", uri |-> u, mode |-> mode, from |-> at[u],
                         asset |-> epoch]
      BY <2>2, BeginOne
    <3>2. request'[p].pc = "head" /\ request'[p].asset = epoch
      BY <3>1
    <3> QED BY <1>1, <3>2 DEF CallNamed, Runs
  <2> QED BY <2>1, <2>2
<1>4. OneRuns'
  BY <1>2, <1>3 DEF OneRuns, Runs
<1>5. RecordsNamed' /\ DerivedNamed'
  <2>1. \A v \in Uris : ~Recording(v)
    BY <1>1 DEF Recording, Records, Runs
  <2> QED BY <1>1, <2>1, RecordsStay, DerivedStays DEF SerialParts
<1> QED BY <1>2, <1>3, <1>4, <1>5 DEF SerialParts

LEMMA AnswerNamed ==
  ASSUME Shapes, Shapes', SerialParts, [D!Next]_(D!vars),
         NEW p \in Clients, D!Reuse(p) \/ D!Revalidate(p)
  PROVE  SerialParts'
<1> DEFINE c == request[p]
<1>1. /\ c.pc = "cached" /\ Runs(p) /\ c.uri \in Uris /\ UNCHANGED <<payload, modes, derived>>
      /\ \E reached : D!Answer(p, c.file, c.rec.hash, reached, payload[c.file])
      /\ UNCHANGED <<manifest, obs>> \/ D!Put(p, c.rec)
  BY DEF D!Reuse, D!Revalidate, D!AnswerCached, D!At, D!stores, Runs, Shapes, CallShape
<1>2. PICK u \in Uris : u = c.uri
  BY <1>1
<1>3. /\ c.mode \in modes[u] /\ payload[c.file] # None /\ c.mode \in D!Modes
      /\ c.rec # None /\ c.rec = IF c.mode = "manifest" THEN manifest[u] ELSE obs[u]
      /\ c.mode = "manifest" => c.file = u
  BY <1>1, <1>2 DEF SerialParts, CallNamed, Shapes, CallShape
<1>4. /\ \A q \in Clients \ {p} : request'[q] = request[q]
      /\ request'[p].pc = "answered" /\ request'[p].uri = u /\ request'[p].mode = c.mode
      /\ request'[p].file = c.file /\ request'[p].hash = c.rec.hash
      /\ request'[p].holds = payload[c.file]
  BY <1>1, <1>2 DEF D!Answer, Shapes
<1>5. /\ OneRuns' /\ \A q \in Clients \ {p} : CallNamed(q)'
      /\ \A v \in Uris : ~Recording(v)
  <2>1. \A v \in Uris : ~Records(p, v)
    BY <1>1 DEF Records
  <2> QED BY <1>1, <1>4, <2>1, OthersAreOver
<1>6. \A v \in Uris : manifest'[v] = manifest[v] /\ obs'[v] = obs[v]
  BY <1>1, <1>2, <1>3 DEF D!Put, Shapes
<1>7. c.file = u /\ Single(u) => payload[u] = c.rec.hash
  BY <1>3, <1>5 DEF SerialParts, RecordsNamed
<1>8. CallNamed(p)'
  <2> HIDE DEF c
  <2> QED BY <1>1, <1>3, <1>4, <1>7 DEF CallNamed, Runs, Single
<1>9. RecordsNamed' /\ DerivedNamed'
  BY <1>1, <1>5, <1>6, RecordsStay, DerivedStays DEF SerialParts
<1> QED BY <1>5, <1>8, <1>9 DEF SerialParts

LEMMA RecordNamed ==
  ASSUME Shapes, Shapes', SerialParts, [D!Next]_(D!vars), NEW p \in Clients, D!RecordIt(p)
  PROVE  SerialParts'
<1> DEFINE c == request[p]
<1>1. /\ c.pc = "record" /\ Runs(p) /\ c.uri \in Uris /\ UNCHANGED <<payload, modes, derived>>
      /\ D!Answer(p, c.uri, c.body, TRUE, payload[c.uri])
      /\ D!Put(p, D!Rec(c.known, c.body))
  BY DEF D!RecordIt, D!At, Runs, Shapes, CallShape
<1>2. PICK u \in Uris : u = c.uri
  BY <1>1
<1>3. c.mode \in modes[u] /\ payload[u] = c.body /\ c.mode \in D!Modes /\ c.asset = epoch
  BY <1>1, <1>2 DEF SerialParts, CallNamed, Shapes, CallShape
<1>4. /\ \A q \in Clients \ {p} : request'[q] = request[q]
      /\ request'[p].pc = "answered" /\ request'[p].uri = u /\ request'[p].mode = c.mode
      /\ request'[p].file = u /\ request'[p].hash = c.body /\ request'[p].holds = payload[u]
  BY <1>1, <1>2 DEF D!Answer, Shapes
<1>5. /\ OneRuns' /\ \A q \in Clients \ {p} : CallNamed(q)'
      /\ \A v \in Uris \ {u} : ~Recording(v)
  <2>1. \A v \in Uris \ {u} : ~Records(p, v)
    BY <1>2 DEF Records
  <2> QED BY <1>1, <1>4, <2>1, OthersAreOver
<1>6. CallNamed(p)'
  <2> HIDE DEF c
  <2> QED BY <1>1, <1>3, <1>4 DEF CallNamed, Runs
<1>7. D!Rec(c.known, c.body).hash = c.body
  BY DEF D!Rec
<1>8. /\ \A v \in Uris \ {u} : manifest'[v] = manifest[v] /\ obs'[v] = obs[v]
      /\ c.mode = "manifest" => manifest'[u].hash = c.body /\ obs'[u] = obs[u]
      /\ c.mode = "db" => obs'[u].hash = c.body /\ manifest'[u] = manifest[u]
  BY <1>1, <1>2, <1>3, <1>7 DEF D!Put, Shapes
<1>9. RecordsNamed'
  <2>1. ASSUME NEW v \in Uris \ {u}
        PROVE  /\ manifest'[v] # None => "manifest" \in modes'[v]
               /\ obs'[v] # None => "db" \in modes'[v]
               /\ Single(v)' /\ payload'[v] # None =>
                    /\ manifest'[v] # None => manifest'[v].hash = payload'[v]
                    /\ obs'[v] # None => obs'[v].hash = payload'[v]
    BY <1>1, <1>5, <1>8 DEF SerialParts, RecordsNamed, Single
  <2>2. /\ manifest'[u] # None => "manifest" \in modes'[u]
        /\ obs'[u] # None => "db" \in modes'[u]
        /\ Single(u)' =>
             /\ manifest'[u] # None => manifest'[u].hash = payload'[u]
             /\ obs'[u] # None => obs'[u].hash = payload'[u]
    <3>1. /\ manifest[u] # None => "manifest" \in modes[u]
          /\ obs[u] # None => "db" \in modes[u]
      BY DEF SerialParts, RecordsNamed
    <3>2. modes' = modes /\ payload' = payload
      BY <1>1
    <3>3. CASE c.mode = "manifest"
      BY <1>3, <1>8, <3>1, <3>2, <3>3 DEF Single
    <3>4. CASE c.mode = "db"
      BY <1>3, <1>8, <3>1, <3>2, <3>4 DEF Single
    <3> QED BY <1>3, <3>3, <3>4 DEF D!Modes
  <2> QED BY <2>1, <2>2 DEF RecordsNamed
<1>10. DerivedNamed'
  BY <1>1, DerivedStays DEF SerialParts
<1> QED BY <1>5, <1>6, <1>9, <1>10 DEF SerialParts

(* The steps between, up to the file's replacement.                        *)
LEMMA WayNamed ==
  ASSUME Shapes, Shapes', SerialParts, [D!Next]_(D!vars),
         NEW p \in Clients, D!Outdated(p) \/ D!HeadFirst(p) \/ D!Get(p) \/ D!GetFails(p)
  PROVE  SerialParts'
<1>1. /\ request[p].pc \in {"cached", "head", "get"} /\ Runs(p)
      /\ UNCHANGED <<payload, manifest, obs, derived, modes, epoch>>
  BY DEF D!Outdated, D!HeadFirst, D!Get, D!GetFails, D!At, D!stores, D!env, Runs
<1>2. /\ \A q \in Clients \ {p} : request'[q] = request[q]
      /\ request'[p].pc \in {"head", "get", "replace", "idle"}
      /\ request'[p].pc # "idle" => request'[p].asset = request[p].asset
  <2>1. DOMAIN request = Clients /\ "asset" \in DOMAIN request[p]
    BY <1>1 DEF Shapes, CallShape
  <2>2. CASE D!GetFails(p)
    BY <2>1, <2>2 DEF D!GetFails, D!Idle
  <2>3. CASE D!Outdated(p)
    <3>1. \/ D!Set(p, [pc |-> "get", known |-> D!Now(request[p].uri)])
          \/ D!Set(p, [pc |-> "head"])
      BY <2>3 DEF D!Outdated
    <3>2. CASE D!Set(p, [pc |-> "get", known |-> D!Now(request[p].uri)])
      BY <2>1, <3>2, SetOne
    <3>3. CASE D!Set(p, [pc |-> "head"])
      BY <2>1, <3>3, SetOne
    <3> QED BY <3>1, <3>2, <3>3
  <2>4. CASE D!HeadFirst(p)
    <3>1. PICK k : D!Set(p, [pc |-> "get", known |-> k])
      BY <2>4 DEF D!HeadFirst
    <3> QED BY <2>1, <3>1, SetOne
  <2>5. CASE D!Get(p)
    <3>1. PICK b, k : D!Set(p, [pc |-> "replace", body |-> b, known |-> k])
      BY <2>5 DEF D!Get
    <3> QED BY <2>1, <3>1, SetOne
  <2> QED BY <2>2, <2>3, <2>4, <2>5
<1>3. CallNamed(p)'
  BY <1>1, <1>2 DEF SerialParts, CallNamed, Runs
<1>4. /\ OneRuns' /\ \A q \in Clients \ {p} : CallNamed(q)'
      /\ \A v \in Uris : ~Recording(v)
  <2>1. \A v \in Uris : ~Records(p, v)
    BY <1>1 DEF Records
  <2> QED BY <1>1, <1>2, <2>1, OthersAreOver
<1>5. RecordsNamed' /\ DerivedNamed'
  BY <1>1, <1>4, RecordsStay, DerivedStays DEF SerialParts
<1> QED BY <1>3, <1>4, <1>5 DEF SerialParts

LEMMA ReplaceNamed ==
  ASSUME Shapes, Shapes', SerialParts, [D!Next]_(D!vars), NEW p \in Clients, D!Replace(p)
  PROVE  SerialParts'
<1>1. /\ request[p].pc = "replace" /\ Runs(p) /\ request[p].uri \in Uris
      /\ {"uri", "mode", "body", "asset"} \subseteq DOMAIN request[p]
      /\ UNCHANGED <<manifest, obs, derived, epoch>>
      /\ \E next \in {"record", "upsert"} : D!Set(p, [pc |-> next])
  BY DEF D!Replace, D!At, D!env, Runs, Shapes, CallShape
<1>2. PICK u \in Uris : u = request[p].uri
  BY <1>1
<1>3. /\ payload'[u] = request[p].body /\ request[p].mode \in modes'[u]
      /\ \A v \in Uris \ {u} : payload'[v] = payload[v] /\ modes'[v] = modes[v]
  BY <1>2 DEF D!Replace, D!InPlace, Shapes
<1>4. /\ \A q \in Clients \ {p} : request'[q] = request[q]
      /\ request'[p].pc \in {"record", "upsert"} /\ request'[p].uri = u
      /\ request'[p].mode = request[p].mode /\ request'[p].body = request[p].body
      /\ request'[p].asset = request[p].asset
  BY <1>1, <1>2, SetOne DEF Shapes
<1>5. CallNamed(p)'
  BY <1>1, <1>3, <1>4 DEF SerialParts, CallNamed, Runs
<1>6. OneRuns' /\ \A q \in Clients \ {p} : CallNamed(q)'
  BY <1>1, <1>4, OthersAreOver
<1>7. Recording(u)' /\ \A v \in Uris : ~Recording(v)
  <2>1. \A v \in Uris : ~Records(p, v)
    BY <1>1 DEF Records
  <2>2. Records(p, u)'
    BY <1>4 DEF Records
  <2> QED BY <1>1, <1>4, <2>1, <2>2, OthersAreOver DEF Recording
<1>8. RecordsNamed'
  <2>1. \A v \in Uris : modes[v] \subseteq modes'[v]
    BY ModesGrow
  <2>2. ASSUME NEW v \in Uris
        PROVE  /\ manifest'[v] # None => "manifest" \in modes'[v]
               /\ obs'[v] # None => "db" \in modes'[v]
    BY <1>1, <2>1 DEF SerialParts, RecordsNamed
  <2>3. ASSUME NEW v \in Uris \ {u}, Single(v)', payload'[v] # None
        PROVE  /\ manifest'[v] # None => manifest'[v].hash = payload'[v]
               /\ obs'[v] # None => obs'[v].hash = payload'[v]
    BY <1>1, <1>3, <1>7, <2>3 DEF SerialParts, RecordsNamed, Single
  <2> QED BY <1>7, <2>2, <2>3 DEF RecordsNamed
<1>9. DerivedNamed'
  BY <1>1, DerivedStays DEF SerialParts
<1> QED BY <1>5, <1>6, <1>8, <1>9 DEF SerialParts

LEMMA UpsertNamed ==
  ASSUME Shapes, Shapes', SerialParts, [D!Next]_(D!vars), NEW p \in Clients, D!Upsert(p)
  PROVE  SerialParts'
<1>1. /\ request[p].pc = "upsert" /\ Runs(p)
      /\ {"uri", "mode", "body", "asset"} \subseteq DOMAIN request[p]
      /\ UNCHANGED <<payload, manifest, obs, derived, epoch, modes>>
      /\ D!Set(p, [pc |-> "record"])
  BY DEF D!Upsert, D!At, D!env, Runs, Shapes, CallShape
<1>2. /\ \A q \in Clients \ {p} : request'[q] = request[q]
      /\ request'[p].pc = "record" /\ request'[p].uri = request[p].uri
      /\ request'[p].mode = request[p].mode /\ request'[p].body = request[p].body
      /\ request'[p].asset = request[p].asset
  BY <1>1, SetOne DEF Shapes
<1>3. CallNamed(p)'
  BY <1>1, <1>2 DEF SerialParts, CallNamed, Runs
<1>4. OneRuns' /\ \A q \in Clients \ {p} : CallNamed(q)'
  BY <1>1, <1>2, OthersAreOver
<1>5. \A v \in Uris : Recording(v) => Recording(v)'
  <2>1. \A v \in Uris : Records(p, v) => Records(p, v)'
    BY <1>2 DEF Records
  <2> QED BY <1>1, <1>2, <2>1, OthersAreOver DEF Recording
<1>6. RecordsNamed' /\ DerivedNamed'
  BY <1>1, <1>5, RecordsStay, DerivedStays DEF SerialParts
<1> QED BY <1>3, <1>4, <1>6 DEF SerialParts

LEMMA DeriveNamed ==
  ASSUME Shapes, Shapes', SerialParts, [D!Next]_(D!vars), serial',
         NEW p \in Clients, D!Derive(p)
  PROVE  SerialParts'
<1> DEFINE c == request[p]
<1>1. /\ c.pc = "answered" /\ c.mode = "manifest" /\ c.alone /\ c.uri \in Uris
      /\ payload[c.file] # None
      /\ derived' = [derived EXCEPT ![c.hash] = IF @ = None THEN payload[c.file] ELSE @]
      /\ UNCHANGED <<payload, manifest, obs, epoch, modes>>
  BY DEF D!Derive, D!At, Shapes, CallShape
<1>2. request'[p] = D!Idle /\ \A q \in Clients \ {p} : request'[q] = request[q]
  BY DEF D!Derive, Shapes
<1>3. CallNamed(p)' /\ ~Runs(p)' /\ request'[p].pc = "idle"
  BY <1>2 DEF CallNamed, Runs, D!Idle
<1>4. ASSUME NEW q \in Clients \ {p}
      PROVE  CallNamed(q)' /\ Runs(q)' = Runs(q) /\ ~Runs(q)
  <2>1. ~Runs(q)
    BY <1>1 DEF SerialParts, OneRuns
  <2>2. CallNamed(q)'
    BY <1>1, <1>2, <2>1, AnsweredStays DEF SerialParts
  <2> QED BY <1>2, <2>1, <2>2 DEF Runs
<1>5. OneRuns'
  BY <1>2, <1>3, <1>4 DEF OneRuns, Runs
<1>6. RecordsNamed'
  <2>1. \A v \in Uris : ~Recording(v)
    BY <1>1, <1>4 DEF Recording, Records, Runs
  <2> QED BY <1>1, <2>1, RecordsStay DEF SerialParts
<1>7. DerivedNamed'
  <2> SUFFICES ASSUME \A v \in Uris : modes[v] \in {{}, {"manifest"}}, NEW x \in Contents
               PROVE  derived'[x] \in {None, x}
    BY <1>1 DEF DerivedNamed
  <2>1. c.mode \in modes[c.uri] /\ modes[c.uri] = {"manifest"}
    BY <1>1 DEF SerialParts, CallNamed
  <2>2. c.file = c.uri /\ payload[c.uri] \in {None, c.hash}
    BY <1>1, <2>1 DEF SerialParts, CallNamed, Single
  <2>3. derived[x] \in {None, x}
    BY DEF SerialParts, DerivedNamed
  <2> QED BY <1>1, <2>2, <2>3 DEF Shapes
<1> QED BY <1>3, <1>4, <1>5, <1>6, <1>7 DEF SerialParts

LEMMA NextSerial == Shapes /\ Shapes' /\ SerialInv /\ [D!Next]_(D!vars) => SerialInv'
<1> SUFFICES ASSUME Shapes, Shapes', SerialInv, [D!Next]_(D!vars), serial'
             PROVE  SerialParts'
  BY DEF SerialInv, SerialParts
<1>1. SerialParts
  BY SerialBefore DEF SerialInv, SerialParts
<1>2. ASSUME NEW p \in Clients PROVE ~D!Kill(p)
  BY DEF D!Kill
<1> QED BY <1>1, <1>2, StillServing, BeginNamed, AnswerNamed, RecordNamed, WayNamed, ReplaceNamed,
        UpsertNamed, DeriveNamed DEF D!Next

(* While calls are serial, an answer with the URI's own file has the hash  *)
(* of what the file held, as long as one mode alone has downloaded it; and  *)
(* while only the manifest mode downloads, a derived table is of the        *)
(* content that names it.                                                  *)
THEOREM SerialAnswersAreNamed == D!Spec => []HashNamesContent
<1>1. Shapes /\ SerialInv => HashNamesContent
  BY DEF SerialInv, CallNamed, DerivedNamed, Single, HashNamesContent, D!HashNamesContent, D!At
<1> QED BY <1>1, InitSerial, NextSerial, CallShapes, PTL DEF D!Spec

================================================================================

----------------------------- MODULE AppProofs -----------------------------
(***************************************************************************)
(* Proofs about the application: the updater and the row of the settings   *)
(* screen that calls it (UpdateScreen), for every number of coroutines, of *)
(* versions, of chunks in a package and of clicks; and the account session *)
(* (Session), for every number of logins and of ranking coroutines.        *)
(***************************************************************************)
EXTENDS UpdateScreen, Session, TLAPS

(* Leaves are for Zenon, and for the SMT solver where they say so.          *)
USE Zenon

(***************************************************************************)
(* Types.                                                                  *)
(***************************************************************************)
\* A coroutine's record keeps its type when its place is changed.
LEMMA GotoType ==
  ASSUME job \in [Jobs -> Job], NEW j \in Jobs, NEW l,
         l \in {"checkFetch", "fetch", "open", "permission", "verify"}, Goto(j, l)
  PROVE  /\ job' \in [Jobs -> Job]
         /\ job'[j] = [job[j] EXCEPT !.pc = l]
         /\ \A k \in Jobs \ {j} : job'[k] = job[k]
  BY SMT DEF Goto, Job, UpdateAt, WorkAt

\* Setting a coroutine's record replaces that record and no other.
LEMMA SetType ==
  ASSUME job \in [Jobs -> Job], NEW j \in Jobs, NEW r \in Job,
         job' = [job EXCEPT ![j] = r]
  PROVE  /\ job' \in [Jobs -> Job]
         /\ job'[j] = r
         /\ \A k \in Jobs \ {j} : job'[k] = job[k]
  OBVIOUS

\* NoJob and ToFinally are records of coroutines.
LEMMA RestType == NoJob \in Job /\ ToFinally \in Job
  BY UpdaterAssumption, SMT DEF NoJob, ToFinally, Job, UpdateAt, WorkAt

\* The empty file is a file.
LEMMA EmptyType == <<>> \in File
  BY SMT DEF File

\* A write at an offset of a file (downloadApk) makes a file.
LEMMA WriteAtType ==
  ASSUME NEW f \in File, NEW k \in Nat, NEW c \in {"ok", "bad"}
  PROVE  WriteAt(f, k, c) \in File
  <1> DEFINE n == IF k > Len(f) THEN k ELSE Len(f)
  <1>1. n \in Nat
    BY SMT DEF File
  <1>2. \A i \in 1 .. n : (IF i = k THEN c ELSE IF i <= Len(f) THEN f[i] ELSE "hole")
                          \in {"ok", "bad", "hole"}
    BY SMT DEF File
  <1> QED
    BY <1>1, <1>2, SMT DEF WriteAt, File

\* A state without a version, and a state of a version, are update states.
LEMMA StateType ==
  /\ \A k \in {"Idle", "Checking", "StartingDownload", "Downloading", "Verifying",
               "InstallPermissionRequired", "Error"} : S(k) \in UpdateState /\ S(k).kind = k
  /\ \A v \in 0 .. MaxVersion :
       /\ Available(v) \in UpdateState /\ Available(v).kind = "Available"
       /\ ReadyToInstall(v) \in UpdateState /\ ReadyToInstall(v).kind = "ReadyToInstall"
       /\ ReadyToInstall(v).v = v
  BY UpdaterAssumption, SMT DEF S, Available, ReadyToInstall, UpdateState

\* Every step keeps the types.
LEMMA TypeInductive ==
  ASSUME TypeOK, [Next]_vars
  PROVE  TypeOK'
  <1> USE UpdaterAssumption
  <1>1. ASSUME NEW j \in Jobs, CheckStep(j) \/ checkNow(j)
        PROVE  TypeOK'
    <2>1. CASE CheckBegin(j)
      BY <2>1, GotoType, StateType DEF CheckBegin, TypeOK, world
    <2>2. CASE CheckFetch(j) \/ CheckFails(j)
      BY <2>2, SetType, RestType, StateType, SMT
      DEF CheckFetch, CheckFails, End, TypeOK, world, fetchLatest
    <2>3. CASE checkNow(j)
      <3>1. [NoJob EXCEPT !.pc = "checkBegin"] \in Job
        BY RestType DEF Job
      <3> QED
        BY <2>3, <3>1, SetType DEF checkNow, TypeOK, world
    <2> QED
      BY <1>1, <2>1, <2>2, <2>3 DEF CheckStep
  <1>2. ASSUME NEW j \in Jobs, startUpdate(j)
        PROVE  TypeOK'
    <2>1. [NoJob EXCEPT !.pc = "begin"] \in Job
      BY RestType DEF Job, UpdateAt
    <2> QED
      BY <1>2, <2>1, SetType DEF startUpdate, TypeOK, world
  <1>3. ASSUME NEW j \in Jobs, UpdateStep(j)
        PROVE  TypeOK'
    <2>1. CASE Begin(j)
      BY <2>1, GotoType DEF Begin, TypeOK, world
    <2>2. CASE Fetch(j)
      <3> PICK latest \in fetchLatest :
             \/ /\ latest > installed
                /\ consented' = latest
                /\ job' = [job EXCEPT ![j].pc = "start", ![j].v = latest]
                /\ UNCHANGED state
             \/ /\ latest <= installed
                /\ state' = S("Idle")
                /\ job' = [job EXCEPT ![j] = ToFinally]
                /\ UNCHANGED consented
        BY <2>2 DEF Fetch
      <3>1. job' \in [Jobs -> Job]
        BY RestType, SMT DEF TypeOK, Job, UpdateAt, fetchLatest
      <3>2. consented' \in 0 .. MaxVersion /\ state' \in UpdateState
        BY StateType DEF TypeOK, fetchLatest
      <3> QED
        BY <2>2, <3>1, <3>2 DEF Fetch, TypeOK, world
    <2>3. CASE StartDownload(j)
      BY <2>3, GotoType, StateType DEF StartDownload, TypeOK, world
    <2>4. CASE DownloadOpen(j)
      <3>1. job' \in [Jobs -> Job]
        <4>1. \A t \in {-1, Chunks} :
                [pc |-> "read", v |-> job[j].v, at |-> 0, total |-> t] \in Job
          BY DEF TypeOK, Job, UpdateAt, WorkAt
        <4> QED
          BY <2>4, <4>1 DEF DownloadOpen, TypeOK
      <3>2. apk' \in [Versions -> File]
        BY <2>4, EmptyType DEF DownloadOpen, TypeOK
      <3> QED
        BY <2>4, <3>1, <3>2 DEF DownloadOpen, TypeOK, world
    <2>5. CASE DownloadChunk(j)
      <3> DEFINE k == job[j].at + 1
                 excess == job[j].total > 0 /\ k > job[j].total
      <3>1. k \in Nat
        BY SMT DEF TypeOK, Job
      <3>2. PICK c \in {"ok", "bad"} : apk' = [apk EXCEPT ![job[j].v] = WriteAt(@, k, c)]
        BY <2>5 DEF DownloadChunk
      <3>3. apk' \in [Versions -> File]
        BY <3>1, <3>2, WriteAtType DEF TypeOK
      <3>4. (IF excess THEN ToFinally ELSE [job[j] EXCEPT !.at = k]) \in Job
        BY <3>1, RestType DEF TypeOK, Job
      <3>5. job' = [job EXCEPT ![j] = IF excess THEN ToFinally ELSE [job[j] EXCEPT !.at = k]]
        BY <2>5 DEF DownloadChunk, TypeOK
      <3>6. job' \in [Jobs -> Job]
        BY <3>4, <3>5, SetType DEF TypeOK
      <3>7. state' \in UpdateState
        BY <2>5, StateType DEF DownloadChunk
      <3> QED
        BY <2>5, <3>3, <3>6, <3>7 DEF DownloadChunk, TypeOK, world
    <2>6. CASE DownloadEnd(j)
      <3>1. [NoJob EXCEPT !.pc = "verify", !.v = job[j].v] \in Job
        BY RestType DEF TypeOK, Job, UpdateAt, WorkAt
      <3>2. job' \in [Jobs -> Job]
        BY <2>6, <3>1, RestType DEF DownloadEnd, TypeOK
      <3> QED
        BY <2>6, <3>2, StateType DEF DownloadEnd, TypeOK, world
    <2>7. CASE verifySha256(j)
      BY <2>7, GotoType, SetType, RestType, StateType DEF verifySha256, TypeOK, world
    <2>8. CASE OfferInstall(j)
      <3>1. job[j].v \in 0 .. MaxVersion
        BY DEF TypeOK, Job
      <3> QED
        BY <2>8, <3>1, SetType, RestType, StateType DEF OfferInstall, TypeOK, world
    <2>9. CASE UpdateFails(j)
      BY <2>9, SetType, RestType, StateType DEF UpdateFails, TypeOK, world
    <2>10. CASE Finally(j)
      BY <2>10, SetType, RestType DEF Finally, End, TypeOK, world
    <2> QED
      BY <1>3, <2>1, <2>2, <2>3, <2>4, <2>5, <2>6, <2>7, <2>8, <2>9, <2>10 DEF UpdateStep
  <1>4. CASE OpenInstaller
    <2>1. state.v \in 0 .. MaxVersion
      BY DEF TypeOK, UpdateState
    <2> QED
      BY <1>4, <2>1 DEF OpenInstaller, TypeOK
  <1>5. CASE InstallerClosed \/ ChangePermission
    <2>1. CASE InstallerClosed
      BY <2>1, SMT DEF InstallerClosed, TypeOK
    <2>2. CASE ChangePermission
      <3>1. canInstall' \in BOOLEAN
        BY <2>2 DEF ChangePermission
      <3> QED
        BY <2>2, <3>1 DEF ChangePermission, TypeOK
    <2> QED
      BY <1>5, <2>1, <2>2
  <1>6. CASE ProcessDeath \/ PackageReplaced
    <2>1. state' \in UpdateState /\ job' \in [Jobs -> Job]
      BY <1>6, RestType, StateType, SMT DEF ProcessDeath, PackageReplaced, Restarted
    <2>2. apk' \in [Versions -> File]
      BY <1>6, EmptyType DEF ProcessDeath, PackageReplaced, TypeOK
    <2>3. {consented', installed', opened'} \subseteq 0 .. MaxVersion
      BY <1>6, SMT DEF ProcessDeath, PackageReplaced, Restarted, TypeOK
    <2> QED
      BY <1>6, <2>1, <2>2, <2>3 DEF ProcessDeath, PackageReplaced, Restarted, TypeOK
  <1>7. CASE UNCHANGED vars
    BY <1>7 DEF vars, TypeOK
  <1> QED
    BY <1>1, <1>2, <1>3, <1>4, <1>5, <1>6, <1>7 DEF Next, JobStep, Environment

\* The variables of the updater keep their types, whoever calls it and when.
THEOREM TypeCorrect == Spec => []TypeOK
  <1>1. Init => TypeOK
    <2> SUFFICES ASSUME Init PROVE TypeOK
      OBVIOUS
    <2>1. state \in UpdateState /\ job \in [Jobs -> Job] /\ apk \in [Versions -> File]
      BY RestType, StateType, EmptyType DEF Init
    <2>2. {consented, installed, opened} \subseteq 0 .. MaxVersion
      BY UpdaterAssumption, SMT DEF Init
    <2> QED
      BY <2>1, <2>2 DEF Init, TypeOK
  <1>2. TypeOK /\ [Next]_vars => TypeOK'
    BY TypeInductive
  <1> QED
    BY <1>1, <1>2, PTL DEF Spec

(***************************************************************************)
(* What each step does to the coroutine that takes it, and that it leaves  *)
(* the others alone.                                                       *)
(***************************************************************************)
\* The steps that write no package file.
LEMMA Effect ==
  ASSUME TypeOK, NEW j \in Jobs
  PROVE
    /\ CheckBegin(j) => job'[j].pc = "checkFetch"
    /\ CheckFetch(j) \/ CheckFails(j) \/ Finally(j) => job'[j].pc = "off"
    /\ Begin(j) => job'[j].pc = "fetch"
    /\ StartDownload(j) => job'[j].pc = "open" /\ job'[j].v = job[j].v
    /\ DownloadOpen(j) => job'[j].pc = "read" /\ job'[j].v = job[j].v
    /\ OfferInstall(j) \/ UpdateFails(j) => job'[j].pc = "finally"
    /\ verifySha256(j) =>
         \/ apk[job[j].v] = Complete /\ job'[j].pc = "permission" /\ job'[j].v = job[j].v
            /\ state' = state
         \/ job'[j].pc = "finally" /\ state' = S("Error")
    /\ DownloadEnd(j) =>
         \/ job'[j].pc = "verify" /\ job'[j].v = job[j].v /\ state' = S("Verifying")
         \/ job'[j].pc = "finally" /\ state' = S("Error")
    /\ DownloadChunk(j) =>
         \/ job'[j].pc = "read" /\ job'[j].v = job[j].v /\ state' = S("Downloading")
         \/ job'[j].pc = "finally" /\ state' = S("Error")
    /\ startUpdate(j) => job'[j].pc = "begin"
    /\ checkNow(j) => job'[j].pc = "checkBegin"
  <1> job \in [Jobs -> Job] /\ job[j] \in Job
    BY DEF TypeOK
  <1>1. NoJob.pc = "off" /\ ToFinally.pc = "finally"
    BY DEF NoJob, ToFinally
  <1>2. \A l : Goto(j, l) => job'[j].pc = l /\ job'[j].v = job[j].v
    BY DEF Goto, Job
  <1>3. End(j) => job'[j].pc = "off"
    BY <1>1 DEF End
  <1>4. job' = [job EXCEPT ![j] = ToFinally] => job'[j].pc = "finally"
    BY <1>1
  <1>5. DownloadEnd(j) =>
         \/ job'[j].pc = "verify" /\ job'[j].v = job[j].v /\ state' = S("Verifying")
         \/ job'[j].pc = "finally" /\ state' = S("Error")
    BY <1>1 DEF DownloadEnd, NoJob
  <1>6. DownloadChunk(j) =>
         \/ job'[j].pc = "read" /\ job'[j].v = job[j].v /\ state' = S("Downloading")
         \/ job'[j].pc = "finally" /\ state' = S("Error")
    BY <1>1, SMT DEF DownloadChunk, Job
  <1>7. DownloadOpen(j) => job'[j].pc = "read" /\ job'[j].v = job[j].v
    BY SMT DEF DownloadOpen
  <1>8. /\ startUpdate(j) => job'[j].pc = "begin"
        /\ checkNow(j) => job'[j].pc = "checkBegin"
    BY DEF startUpdate, checkNow, NoJob
  <1> QED
    BY <1>2, <1>3, <1>4, <1>5, <1>6, <1>7, <1>8
    DEF CheckBegin, CheckFetch, CheckFails, Finally, Begin, StartDownload, OfferInstall,
        UpdateFails, verifySha256

\* fetchLatest in startUpdate: a newer version, which is recorded, or none.
LEMMA FetchEffect ==
  ASSUME TypeOK, NEW j \in Jobs, Fetch(j)
  PROVE  \/ /\ job'[j].pc = "start" /\ job'[j].v \in Versions
            /\ consented' = job'[j].v /\ state' = state
         \/ /\ job'[j].pc = "finally" /\ consented' = consented /\ state' = S("Idle")
  <1> PICK latest \in fetchLatest :
             \/ /\ latest > installed
                /\ consented' = latest
                /\ job' = [job EXCEPT ![j].pc = "start", ![j].v = latest]
                /\ UNCHANGED state
             \/ /\ latest <= installed
                /\ state' = S("Idle")
                /\ job' = [job EXCEPT ![j] = ToFinally]
                /\ UNCHANGED consented
    BY DEF Fetch
  <1>1. CASE latest <= installed
    BY <1>1, UpdaterAssumption, SMT DEF TypeOK, ToFinally, NoJob, fetchLatest
  <1>2. CASE latest > installed
    <2>1. latest \in Versions
      BY <1>2, UpdaterAssumption, SMT DEF TypeOK, Versions, fetchLatest
    <2>2. job'[j].pc = "start" /\ job'[j].v = latest
      BY <1>2, UpdaterAssumption, SMT DEF TypeOK, Job, fetchLatest
    <2> QED
      BY <1>2, <2>1, <2>2, UpdaterAssumption, SMT DEF TypeOK, fetchLatest
  <1> QED
    BY <1>1, <1>2, UpdaterAssumption DEF TypeOK, fetchLatest

\* A coroutine, or a call that starts one, moves that coroutine only.
LEMMA OthersStay ==
  ASSUME TypeOK, NEW j \in Jobs, JobStep(j) \/ checkNow(j) \/ startUpdate(j)
  PROVE  \A k \in Jobs \ {j} : job'[k] = job[k]
  BY DEF TypeOK, JobStep, CheckStep, UpdateStep, checkNow, startUpdate, CheckBegin, CheckFetch,
     CheckFails, Begin, Fetch, StartDownload, DownloadOpen, DownloadChunk, DownloadEnd,
     verifySha256, OfferInstall, UpdateFails, Finally, Goto, End

(***************************************************************************)
(* A waiting state has a coroutine behind it.                              *)
(***************************************************************************)
\* A coroutine that stops standing behind a waiting state replaces the state.
LEMMA WaitInductive ==
  ASSUME TypeOK, WaitHasJob, [Next]_vars
  PROVE  WaitHasJob'
  <1> USE StateType
  <1>1. ASSUME NEW j \in Jobs, JobStep(j) \/ checkNow(j) \/ startUpdate(j)
        PROVE  WaitHasJob'
    <2>1. \A k \in Jobs \ {j} : job'[k] = job[k]
      BY <1>1, OthersStay
    <2>2. CASE CheckBegin(j)
      BY <2>1, <2>2, Effect DEF CheckBegin, WaitHasJob, WorkAt
    <2>3. CASE CheckFetch(j) \/ CheckFails(j)
      BY <2>1, <2>3 DEF CheckFetch, CheckFails, WaitHasJob, TypeOK, fetchLatest
    <2>4. CASE checkNow(j) \/ startUpdate(j)
      BY <2>1, <2>4, SMT DEF checkNow, startUpdate, WaitHasJob, WorkAt
    <2>5. CASE Begin(j) \/ Finally(j)
      BY <2>1, <2>5, SMT DEF Begin, Finally, WaitHasJob, WorkAt
    <2>6. CASE Fetch(j)
      <3>1. job[j].pc = "fetch"
        BY <2>6 DEF Fetch
      <3> QED
        BY <2>1, <2>6, <3>1, FetchEffect, SMT DEF WaitHasJob, WorkAt
    <2>7. CASE StartDownload(j)
      BY <2>1, <2>7, Effect DEF StartDownload, WaitHasJob, WorkAt
    <2>8. CASE DownloadOpen(j)
      BY <2>1, <2>8, Effect, SMT DEF DownloadOpen, WaitHasJob, WorkAt
    <2>9. CASE DownloadChunk(j) \/ DownloadEnd(j)
      <3>1. job[j].pc = "read"
        BY <2>9 DEF DownloadChunk, DownloadEnd
      <3> QED
        BY <2>1, <2>9, <3>1, Effect DEF WaitHasJob, WorkAt
    <2>10. CASE verifySha256(j)
      <3>1. job[j].pc = "verify"
        BY <2>10 DEF verifySha256
      <3> QED
        BY <2>1, <2>10, <3>1, Effect, SMT DEF WaitHasJob, WorkAt
    <2>11. CASE OfferInstall(j)
      <3>1. job[j].v \in 0 .. MaxVersion
        BY DEF TypeOK, Job
      <3> QED
        BY <2>1, <2>11, <3>1 DEF OfferInstall, WaitHasJob
    <2>12. CASE UpdateFails(j)
      BY <2>1, <2>12 DEF UpdateFails, WaitHasJob
    <2> QED
      BY <1>1, <2>2, <2>3, <2>4, <2>5, <2>6, <2>7, <2>8, <2>9, <2>10, <2>11, <2>12
      DEF JobStep, CheckStep, UpdateStep
  <1>2. CASE ProcessDeath \/ PackageReplaced
    BY <1>2 DEF ProcessDeath, PackageReplaced, Restarted, WaitHasJob
  <1>3. CASE OpenInstaller \/ InstallerClosed \/ ChangePermission \/ UNCHANGED vars
    BY <1>3 DEF OpenInstaller, InstallerClosed, ChangePermission, vars, WaitHasJob
  <1> QED
    BY <1>1, <1>2, <1>3 DEF Next, Environment

\* isUpdating is set by a coroutine that still has its finally block before it.
LEMMA ResetInductive ==
  ASSUME TypeOK, ResetToCome, [Next]_vars
  PROVE  ResetToCome'
  <1>1. ASSUME NEW j \in Jobs, JobStep(j) \/ checkNow(j) \/ startUpdate(j)
        PROVE  ResetToCome'
    <2>1. \A k \in Jobs \ {j} : job'[k] = job[k]
      BY <1>1, OthersStay
    <2>2. CASE Finally(j)
      BY <2>2 DEF Finally, ResetToCome
    <2>3. CASE CheckStep(j) \/ checkNow(j) \/ startUpdate(j)
      <3>1. isUpdating' = isUpdating /\ job[j].pc \in {"off", "checkBegin", "checkFetch"}
        BY <2>3 DEF CheckStep, CheckBegin, CheckFetch, CheckFails, checkNow, startUpdate
      <3> QED
        BY <2>1, <3>1 DEF ResetToCome, UpdateAt, WorkAt
    <2>4. CASE UpdateStep(j) /\ ~Finally(j)
      <3>1. job'[j].pc \in UpdateAt \ {"begin"}
        <4>1. CASE Fetch(j)
          BY <4>1, FetchEffect DEF UpdateAt
        <4>2. CASE UpdateStep(j) /\ ~Fetch(j) /\ ~Finally(j)
          BY <4>2, Effect DEF UpdateStep, UpdateAt, WorkAt
        <4> QED
          BY <2>4, <4>1, <4>2
      <3> QED
        BY <3>1 DEF ResetToCome
    <2> QED
      BY <1>1, <2>2, <2>3, <2>4 DEF JobStep
  <1>2. CASE ProcessDeath \/ PackageReplaced
    BY <1>2 DEF ProcessDeath, PackageReplaced, Restarted, ResetToCome
  <1>3. CASE OpenInstaller \/ InstallerClosed \/ ChangePermission \/ UNCHANGED vars
    BY <1>3 DEF OpenInstaller, InstallerClosed, ChangePermission, vars, ResetToCome
  <1> QED
    BY <1>1, <1>2, <1>3 DEF Next, Environment

\* Both together.
LEMMA BusyInductive ==
  ASSUME TypeOK, BusyHasJob, [Next]_vars
  PROVE  BusyHasJob'
  BY WaitInductive, ResetInductive DEF BusyHasJob

\* Neither a waiting state nor isUpdating is left behind: whoever calls the updater
\* and whenever, and even when two updates run at once, a coroutine is going to
\* replace the one and reset the other.
THEOREM NoAbandonedWait == Spec => []BusyHasJob
  <1>1. Init => BusyHasJob
    BY StateType DEF Init, BusyHasJob, WaitHasJob, ResetToCome
  <1>2. TypeOK /\ BusyHasJob /\ [Next]_vars => BusyHasJob'
    BY BusyInductive
  <1> QED
    BY <1>1, <1>2, TypeCorrect, PTL DEF Spec

(***************************************************************************)
(* One update at a time, and what it establishes.                          *)
(***************************************************************************)
\* The part of the invariant that counts the updating coroutines.
Counted ==
  /\ OneUpdater
  /\ isUpdating => \E j \in Jobs : job[j].pc \in UpdateAt \ {"begin"}
  /\ \A j, k \in Jobs : job[j].pc = "begin" /\ job[k].pc \in UpdateAt => j = k

\* At most one coroutine updates, if startUpdate is called neither between a
\* launch and its first statement nor before a finally block.
LEMMA CountedInductive ==
  ASSUME PromptDispatch, TypeOK, Counted, [Next]_vars
  PROVE  Counted'
  <1>1. ASSUME NEW j \in Jobs, CheckStep(j) \/ checkNow(j)
        PROVE  Counted'
    <2>1. \A k \in Jobs \ {j} : job'[k] = job[k]
      BY <1>1, OthersStay DEF JobStep
    <2>2. job[j].pc \notin UpdateAt /\ job'[j].pc \notin UpdateAt /\ isUpdating' = isUpdating
      BY <1>1, Effect
      DEF CheckStep, CheckBegin, CheckFetch, CheckFails, checkNow, UpdateAt, WorkAt
    <2>3. \A k \in Jobs : /\ job'[k].pc \in UpdateAt => k # j
                          /\ job[k].pc \in UpdateAt => k # j
      BY <2>2
    <2>4. OneUpdater'
      BY <2>1, <2>2, <2>3 DEF Counted, OneUpdater
    <2>5. isUpdating' => \E k \in Jobs : job'[k].pc \in UpdateAt \ {"begin"}
      BY <2>1, <2>2, <2>3 DEF Counted
    <2>6. \A k, l \in Jobs : job'[k].pc = "begin" /\ job'[l].pc \in UpdateAt => k = l
      <3>1. "begin" \in UpdateAt
        BY DEF UpdateAt
      <3> QED
        BY <2>1, <2>3, <3>1 DEF Counted
    <2> QED
      BY <2>4, <2>5, <2>6 DEF Counted
  <1>2. ASSUME NEW j \in Jobs, MayCall, startUpdate(j)
        PROVE  Counted'
    <2>1. \A k \in Jobs \ {j} : job'[k] = job[k]
      BY <1>2, OthersStay
    <2>2. job'[j].pc = "begin" /\ ~isUpdating /\ isUpdating' = isUpdating
      BY <1>2, Effect DEF startUpdate, Refused
    <2>3. \A k \in Jobs : job[k].pc \notin UpdateAt
      BY <1>2, <2>2 DEF MayCall, Counted, OneUpdater
    <2>4. \A k \in Jobs \ {j} : job'[k].pc \notin UpdateAt
      BY <2>1, <2>3
    <2> QED
      BY <2>2, <2>4 DEF Counted, OneUpdater
  <1>3. ASSUME NEW j \in Jobs, UpdateStep(j)
        PROVE  Counted'
    <2>1. \A k \in Jobs \ {j} : job'[k] = job[k]
      BY <1>3, OthersStay DEF JobStep
    <2>2. CASE Begin(j)
      <3>1. job[j].pc = "begin" /\ job'[j].pc = "fetch" /\ isUpdating' = TRUE
        BY <2>2, Effect DEF Begin
      <3>2. "begin" \in UpdateAt
        BY DEF UpdateAt
      <3>3. \A k \in Jobs \ {j} : job'[k].pc \notin UpdateAt
        BY <2>1, <3>1, <3>2 DEF Counted
      <3>4. "fetch" \in UpdateAt \ {"begin"}
        BY DEF UpdateAt
      <3>5. OneUpdater'
        BY <3>1, <3>3 DEF OneUpdater
      <3>6. isUpdating' => \E k \in Jobs : job'[k].pc \in UpdateAt \ {"begin"}
        BY <3>1, <3>4
      <3>7. \A k, l \in Jobs : job'[k].pc = "begin" /\ job'[l].pc \in UpdateAt => k = l
        BY <3>1, <3>2, <3>3
      <3> QED
        BY <3>5, <3>6, <3>7 DEF Counted
    <2>3. CASE Finally(j)
      <3>1. job[j].pc = "finally" /\ job'[j].pc = "off" /\ isUpdating' = FALSE
        BY <2>3, Effect DEF Finally
      <3> QED
        BY <2>1, <3>1 DEF Counted, OneUpdater, UpdateAt, WorkAt
    <2>4. CASE ~Begin(j) /\ ~Finally(j)
      <3>1. job[j].pc \in UpdateAt \ {"begin"} /\ isUpdating' = isUpdating
        BY <1>3, <2>4
        DEF UpdateStep, Fetch, StartDownload, DownloadOpen, DownloadChunk, DownloadEnd,
            verifySha256, OfferInstall, UpdateFails, UpdateAt, WorkAt
      <3>2. job'[j].pc \in UpdateAt \ {"begin"}
        BY <1>3, <2>4, Effect, FetchEffect DEF UpdateStep, UpdateAt, WorkAt
      <3> QED
        BY <2>1, <3>1, <3>2 DEF Counted, OneUpdater
    <2> QED
      BY <2>2, <2>3, <2>4
  <1>4. CASE ProcessDeath \/ PackageReplaced
    BY <1>4, SMT DEF ProcessDeath, PackageReplaced, Restarted, Counted, OneUpdater, NoJob, UpdateAt,
       WorkAt
  <1>5. CASE OpenInstaller \/ InstallerClosed \/ ChangePermission \/ UNCHANGED vars
    BY <1>5, SMT DEF OpenInstaller, InstallerClosed, ChangePermission, vars, Counted, OneUpdater
  <1> QED
    BY <1>1, <1>2, <1>3, <1>4, <1>5 DEF Next, Environment, JobStep

\* What the one updating coroutine has established is not undone by anybody
\* else, and becomes the meaning of an offer when it makes one.
LEMMA EstablishedInductive ==
  ASSUME PromptDispatch, TypeOK, UpdaterInv, [Next]_vars
  PROVE  OfferVerified' /\ \A j \in Jobs : Established(j)'
  <1> USE StateType
  <1>1. ASSUME NEW j \in Jobs, CheckStep(j)
        PROVE  OfferVerified' /\ \A k \in Jobs : Established(k)'
    <2>1. \A k \in Jobs \ {j} : job'[k] = job[k]
      BY <1>1, OthersStay DEF JobStep
    <2>2. apk' = apk /\ consented' = consented /\ state'.kind # "ReadyToInstall"
      BY <1>1 DEF CheckStep, CheckBegin, CheckFetch, CheckFails, TypeOK, fetchLatest
    <2>3. job'[j].pc \in {"checkFetch", "off"}
      BY <1>1, Effect DEF CheckStep
    <2>4. Established(j)'
      BY <2>2, <2>3 DEF Established, WorkAt
    <2>5. ASSUME NEW k \in Jobs \ {j} PROVE Established(k)'
      BY <2>1, <2>2, SMT DEF Established, UpdaterInv
    <2> QED
      BY <2>2, <2>4, <2>5 DEF OfferVerified
  <1>2. ASSUME NEW j \in Jobs, checkNow(j) \/ startUpdate(j)
        PROVE  OfferVerified' /\ \A k \in Jobs : Established(k)'
    <2>1. \A k \in Jobs \ {j} : job'[k] = job[k]
      BY <1>2, OthersStay
    <2>2. apk' = apk /\ consented' = consented /\ state' = state
      BY <1>2 DEF checkNow, startUpdate
    <2>3. \/ job'[j].pc = "checkBegin"
          \/ job'[j].pc = "begin" /\ state.kind # "ReadyToInstall"
      BY <1>2, Effect DEF startUpdate, Refused, InProgress
    <2>4. Established(j)'
      <3>1. job'[j].pc \notin WorkAt \cup {"start"} /\ job'[j].pc # "permission"
        BY <2>3 DEF WorkAt
      <3>2. job'[j].pc \in UpdateAt => state'.kind # "ReadyToInstall"
        BY <2>2, <2>3 DEF UpdateAt, WorkAt
      <3> QED
        BY <3>1, <3>2 DEF Established
    <2>5. ASSUME NEW k \in Jobs \ {j} PROVE Established(k)'
      BY <2>1, <2>2, SMT DEF Established, UpdaterInv
    <2>6. OfferVerified'
      BY <2>2 DEF OfferVerified, UpdaterInv
    <2> QED
      BY <2>4, <2>5, <2>6
  <1>3. ASSUME NEW j \in Jobs, UpdateStep(j)
        PROVE  OfferVerified' /\ \A k \in Jobs : Established(k)'
    <2>1. \A k \in Jobs \ {j} : job'[k] = job[k] /\ job'[k].pc \notin UpdateAt
      <3>1. job[j].pc \in UpdateAt
        BY <1>3
        DEF UpdateStep, Begin, Fetch, StartDownload, DownloadOpen, DownloadChunk, DownloadEnd,
            verifySha256, OfferInstall, UpdateFails, Finally, UpdateAt, WorkAt
      <3> QED
        BY <1>3, <3>1, OthersStay, SMT DEF JobStep, UpdaterInv, OneUpdater
    <2>2. ASSUME NEW k \in Jobs \ {j} PROVE Established(k)'
      <3>1. WorkAt \cup {"start", "permission"} \subseteq UpdateAt
        BY DEF UpdateAt, WorkAt
      <3> QED
        BY <2>1, <3>1 DEF Established
    <2>3. OfferVerified' /\ Established(j)'
      <3>0. Established(j) /\ OfferVerified
        BY DEF UpdaterInv
      <3>1. CASE Begin(j)
        BY <3>0, <3>1, Effect DEF Begin, Established, OfferVerified, UpdateAt, WorkAt
      <3>2. CASE Fetch(j)
        <4>1. job[j].pc = "fetch" /\ apk' = apk
          BY <3>2 DEF Fetch
        <4>2. state.kind # "ReadyToInstall"
          BY <3>0, <4>1 DEF Established, UpdateAt
        <4> QED
          BY <3>2, <4>1, <4>2, FetchEffect DEF Established, OfferVerified, UpdateAt, WorkAt
      <3>3. CASE StartDownload(j)
        BY <3>0, <3>3, Effect DEF StartDownload, Established, OfferVerified, UpdateAt, WorkAt
      <3>4. CASE DownloadOpen(j)
        <4>1. job[j].pc = "open" /\ consented' = consented /\ state' = state
          BY <3>4 DEF DownloadOpen
        <4> QED
          BY <3>0, <3>4, <4>1, Effect DEF Established, OfferVerified, UpdateAt, WorkAt
      <3>5. CASE DownloadChunk(j) \/ DownloadEnd(j)
        <4>1. job[j].pc = "read" /\ consented' = consented
          BY <3>5 DEF DownloadChunk, DownloadEnd
        <4> QED
          BY <3>0, <3>5, <4>1, Effect DEF Established, OfferVerified, UpdateAt, WorkAt
      <3>6. CASE verifySha256(j)
        <4>1. job[j].pc = "verify" /\ consented' = consented /\ apk' = apk
          BY <3>6 DEF verifySha256
        <4> QED
          BY <3>0, <3>6, <4>1, Effect DEF Established, OfferVerified, UpdateAt, WorkAt
      <3>7. CASE OfferInstall(j)
        <4>1. job[j].pc = "permission" /\ consented' = consented /\ apk' = apk
          BY <3>7 DEF OfferInstall
        <4>2. /\ job[j].v \in Versions /\ consented = job[j].v
              /\ apk[job[j].v] = Complete /\ job[j].v \in 0 .. MaxVersion
          BY <3>0, <4>1 DEF Established, WorkAt, TypeOK, Job
        <4>3. state' = ReadyToInstall(job[j].v) \/ state' = S("InstallPermissionRequired")
          BY <3>7 DEF OfferInstall
        <4>4. OfferVerified'
          BY <4>1, <4>2, <4>3, SMT DEF OfferVerified
        <4> QED
          BY <3>7, <4>4, Effect DEF Established, UpdateAt, WorkAt
      <3>8. CASE UpdateFails(j)
        BY <3>8, Effect DEF UpdateFails, Established, OfferVerified, UpdateAt, WorkAt
      <3>9. CASE Finally(j)
        BY <3>0, <3>9, Effect DEF Finally, Established, OfferVerified, UpdateAt, WorkAt
      <3> QED
        BY <1>3, <3>1, <3>2, <3>3, <3>4, <3>5, <3>6, <3>7, <3>8, <3>9 DEF UpdateStep
    <2> QED
      BY <2>2, <2>3
  <1>4. CASE ProcessDeath \/ PackageReplaced
    BY <1>4, SMT DEF ProcessDeath, PackageReplaced, Restarted, OfferVerified, Established, NoJob,
       UpdateAt, WorkAt
  <1>5. CASE OpenInstaller \/ InstallerClosed \/ ChangePermission \/ UNCHANGED vars
    BY <1>5, SMT DEF OpenInstaller, InstallerClosed, ChangePermission, vars, OfferVerified,
       Established, UpdaterInv
  <1> QED
    BY <1>1, <1>2, <1>3, <1>4, <1>5 DEF Next, Environment, JobStep

\* The inductive invariant of the updater.
THEOREM UpdaterCorrect ==
  ASSUME PromptDispatch
  PROVE  Spec => []UpdaterInv
  <1>1. Init => UpdaterInv
    BY StateType, SMT DEF Init, UpdaterInv, OneUpdater, OfferVerified, BusyHasJob, WaitHasJob,
       ResetToCome, Established, NoJob, UpdateAt, WorkAt
  <1>2. TypeOK /\ UpdaterInv /\ [Next]_vars => UpdaterInv'
    <2> SUFFICES ASSUME TypeOK, UpdaterInv, [Next]_vars PROVE UpdaterInv'
      OBVIOUS
    <2>1. Counted /\ BusyHasJob
      BY DEF UpdaterInv, Counted, BusyHasJob, ResetToCome
    <2>2. Counted' /\ BusyHasJob'
      BY <2>1, CountedInductive, BusyInductive
    <2> QED
      BY <2>2, EstablishedInductive DEF UpdaterInv, Counted
  <1> QED
    BY <1>1, <1>2, TypeCorrect, PTL DEF Spec

\* If startUpdate is not called in the windows of MayCall, one coroutine of
\* startUpdate at a time works, and isUpdating says so.  What is left without that
\* assumption is NoAbandonedWait.
THEOREM SingleUpdater ==
  ASSUME PromptDispatch
  PROVE  Spec => []OneUpdater
  <1>1. UpdaterInv => OneUpdater
    BY DEF UpdaterInv
  <1> QED
    BY <1>1, UpdaterCorrect, PTL

\* What is offered to the installer is the complete package of the version
\* recorded as consented to, verified, and not being written to.
THEOREM OnlyVerifiedOffered ==
  ASSUME PromptDispatch
  PROVE  Spec => []OfferVerified
  <1>1. UpdaterInv => OfferVerified
    BY DEF UpdaterInv
  <1> QED
    BY <1>1, UpdaterCorrect, PTL

(***************************************************************************)
(* The settings screen.                                                    *)
(***************************************************************************)
\* App and SettingsActivity call the updater as its specification allows: what
\* is proved of the updater holds while the screen uses it.
THEOREM ScreenUsesUpdater == SSpec => Spec
  <1>1. SInit => Init
    BY DEF SInit
  <1>2. [SNext]_allVars => [Next]_vars
    <2> SUFFICES ASSUME [SNext]_allVars PROVE [Next]_vars
      OBVIOUS
    <2>1. CASE Main
      <3>1. CASE \E j \in Jobs : AppStarts(j)
        BY <3>1 DEF AppStarts, Next
      <3>2. CASE \E p \in Purposes : Prepared(p)
        BY <3>2 DEF Prepared, Next
      <3>3. CASE AppStartFails \/ Observe \/ \E p \in Purposes : NotPrepared(p)
        BY <3>3 DEF AppStartFails, Observe, NotPrepared
      <3> QED
        BY <2>1, <3>1, <3>2, <3>3 DEF Main
    <2>2. CASE User
      <3>1. CASE Click
        BY <3>1 DEF Click, ClickPrepares, ClickInstall, ClickAllow, Next
      <3> QED
        BY <2>2, <3>1 DEF User, Open, Resume, Pause, Close
    <2>3. CASE Working \/ Dies \/ Outside
      BY <2>3 DEF Working, Dies, Outside, Next, Environment
    <2>4. CASE UNCHANGED allVars
      BY <2>4 DEF allVars
    <2> QED
      BY <2>1, <2>2, <2>3, <2>4 DEF SNext
  <1> QED
    BY <1>1, <1>2, PTL DEF SSpec, Spec

\* The coroutines of the activity are counted by natural numbers.
LEMMA ScreenTypes == SSpec => []ScreenTypeOK
  <1>0. NoOne \in [Purposes -> Nat]
    BY SMT DEF NoOne
  <1>1. SInit => ScreenTypeOK
    BY <1>0 DEF SInit, ScreenTypeOK
  <1>2. ScreenTypeOK /\ [SNext]_allVars => ScreenTypeOK'
    <2> SUFFICES ASSUME ScreenTypeOK, [SNext]_allVars PROVE ScreenTypeOK'
      OBVIOUS
    <2>1. NoOne \in [Purposes -> Nat] /\ Resuming \in [Purposes -> Nat]
      <3>1. [NoOne EXCEPT !["resume"] = 1] \in [Purposes -> Nat]
        BY SMT DEF NoOne, Purposes
      <3> QED
        BY <1>0, <3>1 DEF Resuming
    <2>2. ASSUME NEW p \in Purposes, preparing[p] > 0
          PROVE  [preparing EXCEPT ![p] = @ - 1] \in [Purposes -> Nat]
      BY <2>2, SMT DEF ScreenTypeOK
    <2>3. ASSUME NEW p \in Purposes
          PROVE  [preparing EXCEPT ![p] = @ + 1] \in [Purposes -> Nat]
      BY SMT DEF ScreenTypeOK
    <2>4. [p \in Purposes |-> preparing[p] + Resuming[p]] \in [Purposes -> Nat]
      BY <2>1, SMT DEF ScreenTypeOK
    <2>5. CASE Main
      BY <2>2, <2>5
      DEF Main, AppStarts, AppStartFails, Observe, Prepared, NotPrepared, ScreenTypeOK
    <2>6. CASE User
      BY <2>1, <2>3, <2>4, <2>6
      DEF User, Open, Resume, Pause, Close, Click, ClickPrepares, ClickInstall, ClickAllow,
          ScreenTypeOK, Purposes
    <2>7. CASE Working \/ Dies \/ Outside \/ UNCHANGED allVars
      BY <2>1, <2>7 DEF Working, Dies, Outside, allVars, screenVars, ScreenTypeOK
    <2> QED
      BY <2>5, <2>6, <2>7 DEF SNext
  <1> QED
    BY <1>1, <1>2, PTL DEF SSpec

\* A coroutine that has not begun a check, or updates and is not in its finally
\* block, stays so or writes a state other than one that can be clicked on for
\* a check, or for an update.
LEMMA WriterWrites ==
  ASSUME TypeOK, NEW j \in Jobs, JobStep(j)
  PROVE  /\ state.kind \in {"Idle", "Error"} /\ state' = state =>
              \A k \in Jobs : job[k].pc = "checkBegin" => job'[k].pc = "checkBegin"
         /\ state.kind = "Available" /\ state' = state =>
              \A k \in Jobs : job[k].pc \in UpdateAt \ {"finally"} =>
                                job'[k].pc \in UpdateAt \ {"finally"}
  <1> USE StateType
  <1>1. \A k \in Jobs \ {j} : job'[k] = job[k]
    BY OthersStay
  <1>2. CASE CheckStep(j)
    <2>1. CASE CheckBegin(j)
      <3>1. job[j].pc = "checkBegin" /\ state'.kind = "Checking"
        BY <2>1 DEF CheckBegin
      <3> QED
        BY <1>1, <3>1 DEF UpdateAt, WorkAt
    <2>2. CASE CheckFetch(j) \/ CheckFails(j)
      <3>1. job[j].pc = "checkFetch"
        BY <2>2 DEF CheckFetch, CheckFails
      <3>2. job[j].pc # "checkBegin" /\ job[j].pc \notin UpdateAt
        BY <3>1 DEF UpdateAt, WorkAt
      <3> QED
        BY <1>1, <3>2, Zenon
    <2> QED
      BY <1>2, <2>1, <2>2 DEF CheckStep
  <1>3. CASE UpdateStep(j)
    <2>1. job[j].pc # "checkBegin"
      BY <1>3
      DEF UpdateStep, Begin, Fetch, StartDownload, DownloadOpen, DownloadChunk, DownloadEnd,
          verifySha256, OfferInstall, UpdateFails, Finally
    <2>2. \/ job[j].pc = "finally"
          \/ job'[j].pc \in UpdateAt \ {"finally"}
          \/ state'.kind # "Available"
      <3>1. CASE Begin(j) \/ StartDownload(j) \/ DownloadOpen(j)
        BY <3>1, Effect DEF UpdateAt, WorkAt
      <3>2. CASE Fetch(j)
        BY <3>2, FetchEffect DEF UpdateAt
      <3>3. CASE DownloadChunk(j) \/ DownloadEnd(j) \/ verifySha256(j)
        BY <3>3, Effect DEF UpdateAt, WorkAt
      <3>4. CASE OfferInstall(j)
        <4>1. job[j].v \in 0 .. MaxVersion
          BY DEF TypeOK, Job
        <4> QED
          BY <3>4, <4>1 DEF OfferInstall
      <3>5. CASE UpdateFails(j) \/ Finally(j)
        BY <3>5 DEF UpdateFails, Finally
      <3> QED
        BY <1>3, <3>1, <3>2, <3>3, <3>4, <3>5 DEF UpdateStep
    <2>3. state.kind = "Available" /\ state' = state =>
            job[j].pc = "finally" \/ job'[j].pc \in UpdateAt \ {"finally"}
      BY <2>2
    <2>4. \A k \in Jobs : job[k].pc = "checkBegin" => job'[k].pc = "checkBegin"
      BY <1>1, <2>1, Zenon
    <2>5. ASSUME state.kind = "Available", state' = state, NEW k \in Jobs, job[k].pc \in UpdateAt \ {"finally"}
          PROVE  job'[k].pc \in UpdateAt \ {"finally"}
      <3>1. CASE k = j
        BY <2>3, <2>5, <3>1
      <3>2. CASE k # j
        <4>1. job'[k] = job[k]
          BY <1>1, <3>2
        <4> QED
          BY <2>5, <4>1
      <3> QED
        BY <3>1, <3>2
    <2> QED
      BY <2>4, <2>5, Zenon
  <1> QED
    BY <1>2, <1>3 DEF JobStep

\* A row that is disabled in the state the collector has handled stays accounted
\* for.
LEMMA RowInductive ==
  ASSUME PromptDispatch, TypeOK, UpdaterInv, ScreenTypeOK, RowInv, [SNext]_allVars
  PROVE  RowInv'
  <1>1. CASE Main
    <2>1. ASSUME NEW j \in Jobs, AppStarts(j) PROVE RowInv'
      <3>1. checkNow(j) /\ state' = state /\ UNCHANGED <<screen, enabled, seen, behind, preparing>>
        BY <2>1 DEF AppStarts, checkNow
      <3>2. job[j].pc = "off" /\ \A k \in Jobs \ {j} : job'[k] = job[k]
        BY <3>1, OthersStay DEF checkNow
      <3> QED
        BY <3>1, <3>2 DEF RowInv, UpdateAt, WorkAt
    <2>2. ASSUME NEW p \in Purposes, Prepared(p) PROVE RowInv'
      <3>1. /\ state' = state /\ UNCHANGED <<screen, enabled, seen, behind>>
            /\ \A q \in Purposes : q # p => preparing'[q] = preparing[q]
        BY <2>2 DEF Prepared, checkNow, startUpdate, ScreenTypeOK, vars
      <3>2. CASE p = "check"
        <4>1. PICK j \in Jobs : checkNow(j)
          BY <2>2, <3>2 DEF Prepared
        <4>2. /\ job'[j].pc = "checkBegin" /\ job[j].pc = "off"
              /\ \A k \in Jobs \ {j} : job'[k] = job[k]
          BY <4>1, Effect, OthersStay DEF checkNow
        <4>3. preparing'["update"] = preparing["update"]
          BY <3>1, <3>2 DEF Purposes
        <4> QED
          BY <3>1, <4>2, <4>3 DEF RowInv, UpdateAt, WorkAt
      <3>3. CASE p # "check"
        <4>1. preparing'["check"] = preparing["check"]
          BY <3>1, <3>3 DEF Purposes
        <4>2. ASSUME NEW j \in Jobs, startUpdate(j) PROVE RowInv'
          <5>1. /\ job'[j].pc = "begin" /\ job[j].pc = "off"
                /\ \A k \in Jobs \ {j} : job'[k] = job[k]
            BY <4>2, Effect, OthersStay DEF startUpdate
          <5>2. "begin" \in UpdateAt \ {"finally"}
            BY DEF UpdateAt
          <5> QED
            BY <3>1, <4>1, <5>1, <5>2 DEF RowInv
        <4>3. CASE MayCall /\ Refused /\ UNCHANGED vars
          <5>1. state.kind = "Available" => \E j \in Jobs : job[j].pc \in UpdateAt \ {"finally"}
            BY <4>3 DEF MayCall, Refused, InProgress, UpdaterInv, BusyHasJob, ResetToCome
          <5>2. job' = job
            BY <4>3 DEF vars
          <5> QED
            BY <3>1, <4>1, <5>1, <5>2 DEF RowInv
        <4> QED
          BY <2>2, <3>3, <4>2, <4>3 DEF Prepared
      <3> QED
        BY <3>2, <3>3
    <2>3. CASE AppStartFails
      BY <2>3 DEF AppStartFails, RowInv, vars
    <2>4. CASE Observe
      BY <2>4 DEF Observe, RowInv, vars
    <2>5. CASE \E p \in Purposes : NotPrepared(p)
      BY <2>5 DEF NotPrepared, RowInv
    <2> QED
      BY <1>1, <2>1, <2>2, <2>3, <2>4, <2>5 DEF Main
  <1>2. CASE User
    <2>1. CASE Click
      <3>1. CASE ClickInstall
        BY <3>1 DEF ClickInstall, OpenInstaller, RowInv
      <3>2. CASE ClickAllow
        BY <2>1, <3>2 DEF Click, ClickAllow, RowInv
      <3>3. CASE ClickPrepares("check", {"Idle", "Error"})
        <4>1. preparing'["check"] > 0
          BY <3>3, SMT DEF ClickPrepares, ScreenTypeOK, Purposes
        <4> QED
          BY <3>3, <4>1 DEF ClickPrepares, RowInv, vars
      <3>4. CASE ClickPrepares("update", {"Available"})
        <4>1. preparing'["update"] > 0
          BY <3>4, SMT DEF ClickPrepares, ScreenTypeOK, Purposes
        <4> QED
          BY <3>4, <4>1 DEF ClickPrepares, RowInv, vars
      <3> QED
        BY <2>1, <3>1, <3>2, <3>3, <3>4 DEF Click
    <2>2. CASE Open \/ Close
      BY <2>2 DEF Open, Close, RowInv
    <2>3. CASE Resume
      <3>1. /\ preparing["check"] > 0 => preparing'["check"] > 0
            /\ preparing["update"] > 0 => preparing'["update"] > 0
        BY <2>3, SMT DEF Resume, Resuming, NoOne, ScreenTypeOK, Purposes
      <3>2. screen # "gone" /\ state' = state /\ job' = job /\ UNCHANGED <<enabled, seen, behind>>
        BY <2>3 DEF Resume, vars
      <3> QED
        BY <3>1, <3>2 DEF RowInv
    <2>4. CASE Pause
      BY <2>4 DEF Pause, RowInv, vars
    <2> QED
      BY <1>2, <2>1, <2>2, <2>3, <2>4 DEF User
  <1>3. CASE Working
    <2>1. PICK j \in Jobs : JobStep(j)
      BY <1>3 DEF Working
    <2>2. /\ UNCHANGED <<screen, enabled, seen, preparing>>
          /\ behind' = (behind \/ (screen # "gone" /\ state' # state))
      BY <1>3 DEF Working
    <2> SUFFICES ASSUME screen # "gone", ~enabled, seen = state', ~behind' PROVE RowInv'
      BY <2>2 DEF RowInv
    <2>3. state' = state /\ ~behind
      BY <2>2
    <2> QED
      BY <2>1, <2>2, <2>3, WriterWrites DEF RowInv
  <1>4. CASE Dies
    BY <1>4 DEF Dies, RowInv
  <1>5. CASE Outside \/ UNCHANGED allVars
    <2>1. UNCHANGED <<state, job, screen, enabled, seen, behind, preparing>>
      BY <1>5 DEF Outside, InstallerClosed, ChangePermission, allVars, vars, screenVars
    <2> QED
      BY <2>1 DEF RowInv
  <1> QED
    BY <1>1, <1>2, <1>3, <1>4, <1>5 DEF SNext

\* The update row does not stay disabled with nothing left that would enable it,
\* whatever is clicked, however many coroutines run, and whatever fails.
THEOREM RowIsReleased ==
  ASSUME PromptDispatch
  PROVE  SSpec => []RowNotStranded
  <1>1. SInit => RowInv
    BY DEF SInit, RowInv
  <1>2. TypeOK /\ UpdaterInv /\ ScreenTypeOK /\ RowInv /\ [SNext]_allVars => RowInv'
    BY RowInductive
  <1>3. UpdaterInv /\ ScreenTypeOK /\ RowInv => RowNotStranded
    <2> SUFFICES ASSUME UpdaterInv, ScreenTypeOK, RowInv, screen # "gone", ~enabled, seen = state,
                        ~Missed, state.kind # "ReadyToInstall"
                 PROVE  Waiting > 0 \/ \E j \in Jobs : job[j].pc \notin {"off", "finally"}
      BY DEF RowNotStranded
    <2>1. ~behind
      BY DEF Missed, ScreenTypeOK
    <2>2. (\E p \in Purposes : preparing[p] > 0) => Waiting > 0
      BY SMT DEF ScreenTypeOK, Waiting, Purposes
    <2>3. CASE state.kind \in {"Checking", "StartingDownload", "Downloading", "Verifying"}
      BY <2>3 DEF UpdaterInv, BusyHasJob, WaitHasJob, WorkAt
    <2>4. CASE preparing["check"] > 0 \/ preparing["update"] > 0
      BY <2>2, <2>4 DEF Purposes
    <2>5. CASE \E j \in Jobs : job[j].pc = "checkBegin" \/ job[j].pc \in UpdateAt \ {"finally"}
      BY <2>5 DEF UpdateAt, WorkAt
    <2> QED
      BY <2>1, <2>3, <2>4, <2>5 DEF RowInv
  <1> QED
    BY <1>1, <1>2, <1>3, ScreenUsesUpdater, ScreenTypes, TypeCorrect, UpdaterCorrect, PTL DEF SSpec

(***************************************************************************)
(* The account session.                                                    *)
(***************************************************************************)
\* The steps that touch neither the token, a login or refresh, nor the front.
LEMMA Aside ==
  ASSUME RefreshInv, UNCHANGED <<auth, login, refresh, front, doomed, issued, newest>>
  PROVE  RefreshInv'
  BY DEF RefreshInv

\* Every step keeps RefreshInv, and stores no session older than the newest.
LEMMA RefreshInductive ==
  ASSUME PromptDestroy, RefreshInv, newest \in Nat, issued \in Nat, [SessionNext]_sessionVars
  PROVE  /\ RefreshInv' /\ newest' \in Nat /\ issued' \in Nat
         /\ auth' # auth /\ auth' # 0 => auth' >= newest
  <1>1. CASE attemptLogin
    BY <1>1 DEF attemptLogin, RefreshInv, stores, ui, Is
  <1>2. CASE LoginAnswered
    <2>1. login'.pc = "save" /\ login'.of = issued + 1 /\ issued' = issued + 1
      BY <1>2 DEF LoginAnswered, Is
    <2>2. login.pc # "off"
      BY <1>2 DEF LoginAnswered
    <2> QED
      BY <1>2, <2>1, <2>2, SMT DEF LoginAnswered, RefreshInv, stores, ui
  <1>3. CASE LoginFails
    BY <1>3 DEF LoginFails, RefreshInv, stores, ui, Off
  <1>4. CASE LoginSaves \/ LoginSavesLate
    <2>1. /\ login.pc = "save" /\ ~doomed /\ doomed' = doomed /\ refresh' = refresh
          /\ auth' = login.of /\ newest' = login.of /\ issued' = issued
      BY <1>4 DEF LoginSaves, LoginSavesLate, ui
    <2>2. login.of > newest /\ login.of <= issued /\ front = "login"
      BY <2>1, SMT DEF RefreshInv
    <2>3. refresh'.pc # "profile"
      BY <2>1, <2>2 DEF RefreshInv
    <2>4. login'.pc = "off"
      BY <1>4, SMT DEF LoginSaves, LoginSavesLate, Off
    <2>5. login.of \in Nat
      BY <2>1, SMT DEF RefreshInv
    <2> QED
      BY <2>1, <2>2, <2>3, <2>4, <2>5, SMT DEF RefreshInv
  <1>5. CASE AuthGate
    BY <1>5 DEF AuthGate, RefreshInv, Off
  <1>6. CASE loadAccountData
    BY <1>6 DEF loadAccountData, RefreshInv, stores, ui, Is
  <1>7. CASE RefreshSaves \/ RefreshFails
    BY <1>7, SMT DEF RefreshSaves, RefreshFails, RefreshInv, stores, ui, Off
  <1>8. CASE ClearAuth
    BY <1>8 DEF ClearAuth, RefreshInv, ui
  <1>9. CASE OpenLogin
    BY <1>9 DEF OpenLogin, RefreshInv, stores
  <1>10. CASE Destroyed
    <2>1. refresh'.pc # "profile"
      BY <1>10 DEF Destroyed, Stopped, Off
    <2> QED
      BY <1>10, <2>1 DEF Destroyed, RefreshInv, stores
  <1>11. CASE \/ handleLogout \/ LogoutCancelled \/ ClearRanking \/ ClearTime \/ ClearLastGood
              \/ RankingExpires \/ Connecting \/ Connected
              \/ \E r \in Rankers : RankStart(r) \/ RankStep(r)
              \/ UNCHANGED sessionVars
    <2>1. UNCHANGED <<auth, login, refresh, front, doomed, issued, newest>>
      BY <1>11
      DEF handleLogout, LogoutCancelled, ClearRanking, ClearTime, ClearLastGood, RankingExpires,
          Connecting, Connected, RankStart, RankStep, RankServers, RankCached, RankValid, RankUse, RankDone,
          RankSetTime, sessionVars, stores, ui
    <2> QED
      BY <2>1, Aside
  <1> QED
    BY <1>1, <1>2, <1>3, <1>4, <1>5, <1>6, <1>7, <1>8, <1>9, <1>10, <1>11 DEF SessionNext, LogoutStep

\* While a refresh of an earlier session may still store its token, no later
\* session is stored.
THEOREM RefreshCorrect ==
  ASSUME PromptDestroy
  PROVE  SessionSpec => []RefreshInv
  <1> DEFINE Inv == RefreshInv /\ newest \in Nat /\ issued \in Nat
  <1>1. SessionInit => Inv
    BY SMT DEF SessionInit, RefreshInv, Off
  <1>2. Inv /\ [SessionNext]_sessionVars => Inv'
    BY RefreshInductive
  <1> QED
    BY <1>1, <1>2, PTL DEF SessionSpec

\* A profile refresh never puts back the token of an earlier session.
THEOREM TokensOnlyNewer ==
  ASSUME PromptDestroy
  PROVE  SessionSpec => NoOldToken
  <1> DEFINE Inv == RefreshInv /\ newest \in Nat /\ issued \in Nat
  <1>1. SessionInit => Inv
    BY SMT DEF SessionInit, RefreshInv, Off
  <1>2. Inv /\ [SessionNext]_sessionVars => Inv' /\ [auth' # auth /\ auth' # 0 => auth' >= newest]_sessionVars
    BY RefreshInductive
  <1> QED
    BY <1>1, <1>2, PTL DEF SessionSpec, NoOldToken
=============================================================================

------------------------------ MODULE Updater ------------------------------
(***************************************************************************)
(* The in-app updater: the Updater object with its coroutines (checkNow,   *)
(* startUpdate), the package file in the cache directory, the version the  *)
(* user consented to, and the death or replacement of the process.  The    *)
(* preference seen_version is written by checkNow and never read: only the *)
(* failure of that write is kept.                                          *)
(*                                                                         *)
(* A job is one coroutine of Updater.scope, which runs on Dispatchers.IO:  *)
(* jobs interleave with each other and with the callers.  A step of a job  *)
(* ends where it writes state, isUpdating, the file or a preference, or    *)
(* where it waits for the network.  A file is the sequence of the chunks   *)
(* written to it; a chunk is what the server sent ("ok"), something else   *)
(* ("bad"), or a gap left by a write past the end ("hole").  The error     *)
(* messages are not told apart.  UpdateState.LaunchingInstaller is never   *)
(* assigned by the code and has no value here.                             *)
(***************************************************************************)
EXTENDS Integers, Sequences

CONSTANTS Jobs,             \* the coroutines that may exist at one time
          MaxVersion,       \* bound: versions ever released
          Chunks,           \* size of a package, in chunks
          PromptDispatch    \* see MayCall

ASSUME UpdaterAssumption ==
  /\ MaxVersion \in Nat /\ Chunks \in Nat \ {0}
  /\ PromptDispatch \in BOOLEAN

VARIABLES state,        \* Updater._state
          isUpdating,   \* Updater.isUpdating
          job,          \* where each coroutine is, with its local variables
          apk,          \* cache/updates/aiovpn-update-<version>.apk
          consented,    \* UpdatePrefs: consented_version
          installed,    \* BuildConfig.VERSION_CODE of the running package
          canInstall,   \* external: canRequestPackageInstalls()
          opened        \* external: the version handed to the installer, or 0

vars == <<state, isUpdating, job, apk, consented, installed, canInstall, opened>>

Versions == 1 .. MaxVersion
File == Seq({"ok", "bad", "hole"})
Complete == [i \in 1 .. Chunks |-> "ok"]

\* UpdateState, with the version that Available and ReadyToInstall carry.
S(kind) == [kind |-> kind, v |-> 0]
Available(v) == [kind |-> "Available", v |-> v]
ReadyToInstall(v) == [kind |-> "ReadyToInstall", v |-> v]
UpdateState ==
  [kind : {"Idle", "Checking", "Available", "StartingDownload", "Downloading", "Verifying",
           "InstallPermissionRequired", "ReadyToInstall", "Error"},
   v : 0 .. MaxVersion]

WorkAt == {"open", "read", "verify", "permission"}
UpdateAt == {"begin", "fetch", "start", "finally"} \cup WorkAt
Job == [pc : {"off", "checkBegin", "checkFetch"} \cup UpdateAt,
        v : 0 .. MaxVersion, at : Nat, total : {-1, 0, Chunks}]
NoJob == [pc |-> "off", v |-> 0, at |-> 0, total |-> 0]
ToFinally == [NoJob EXCEPT !.pc = "finally"]

Init ==
  /\ state = S("Idle") /\ isUpdating = FALSE
  /\ job = [j \in Jobs |-> NoJob]
  /\ apk = [v \in Versions |-> <<>>]
  /\ consented = 0 /\ installed = 0 /\ opened = 0
  /\ canInstall \in BOOLEAN

---------------------------------------------------------------------------
(***************************************************************************)
(* checkNow().                                                             *)
(***************************************************************************)
Goto(j, l) == job' = [job EXCEPT ![j].pc = l]
End(j) == job' = [job EXCEPT ![j] = NoJob]
world == <<installed, canInstall, opened>>

checkNow(j) ==
  /\ job[j].pc = "off"
  /\ job' = [job EXCEPT ![j] = [NoJob EXCEPT !.pc = "checkBegin"]]
  /\ UNCHANGED <<state, isUpdating, apk, consented, world>>

CheckBegin(j) ==
  /\ job[j].pc = "checkBegin"
  /\ state' = S("Checking")
  /\ Goto(j, "checkFetch")
  /\ UNCHANGED <<isUpdating, apk, consented, world>>

\* fetchLatest() answers with any release, another one each time, or throws.
\* (What comes between the answer and the next write to shared state is local,
\* and the preference checkNow writes on the way is never read.)
fetchLatest == 0 .. MaxVersion

CheckFetch(j) ==
  /\ job[j].pc = "checkFetch"
  /\ \E latest \in fetchLatest :
        state' = IF latest > installed THEN Available(latest) ELSE S("Idle")
  /\ End(j)
  /\ UNCHANGED <<isUpdating, apk, consented, world>>

CheckFails(j) ==
  /\ job[j].pc = "checkFetch"
  /\ state' = S("Error")
  /\ End(j)
  /\ UNCHANGED <<isUpdating, apk, consented, world>>

---------------------------------------------------------------------------

InProgress == {"StartingDownload", "Downloading", "Verifying",
               "InstallPermissionRequired", "ReadyToInstall"}

\* Mutant: only the state is tested.
RefusedByState == state.kind \in InProgress

Refused == isUpdating \/ state.kind \in InProgress

startUpdate(j) ==
  /\ ~Refused
  /\ job[j].pc = "off"
  /\ job' = [job EXCEPT ![j] = [NoJob EXCEPT !.pc = "begin"]]
  /\ UNCHANGED <<state, isUpdating, apk, consented, world>>

\* With PromptDispatch, no call of startUpdate falls between the launch of a
\* coroutine and its first statement, or between a coroutine's last state and
\* its finally block.  Nothing in the code forbids either; both windows last as
\* long as it takes Dispatchers.IO to run a few instructions.
MayCall == PromptDispatch => \A j \in Jobs : job[j].pc \notin {"begin", "finally"}

Begin(j) ==
  /\ job[j].pc = "begin"
  /\ isUpdating' = TRUE
  /\ Goto(j, "fetch")
  /\ UNCHANGED <<state, apk, consented, world>>

Fetch(j) ==
  /\ job[j].pc = "fetch"
  /\ \E latest \in fetchLatest :
       \/ /\ latest > installed
          /\ consented' = latest
          /\ job' = [job EXCEPT ![j].pc = "start", ![j].v = latest]
          /\ UNCHANGED state
       \/ /\ latest <= installed
          /\ state' = S("Idle")
          /\ job' = [job EXCEPT ![j] = ToFinally]
          /\ UNCHANGED consented
  /\ UNCHANGED <<isUpdating, apk, world>>

StartDownload(j) ==
  /\ job[j].pc = "start"
  /\ state' = S("StartingDownload")
  /\ Goto(j, "open")
  /\ UNCHANGED <<isUpdating, apk, consented, world>>

\* downloadApk: the answer arrives, with or without (-1) a length, and
\* FileOutputStream truncates the file.
DownloadOpen(j) ==
  /\ job[j].pc = "open"
  /\ \E total \in {-1, Chunks} :
        job' = [job EXCEPT ![j] = [pc |-> "read", v |-> @.v, at |-> 0, total |-> total]]
  /\ apk' = [apk EXCEPT ![job[j].v] = <<>>]
  /\ UNCHANGED <<state, isUpdating, consented, world>>

\* A chunk written at offset k of a file: a write past the end leaves a gap.
WriteAt(file, k, chunk) ==
  [i \in 1 .. (IF k > Len(file) THEN k ELSE Len(file)) |->
     IF i = k THEN chunk ELSE IF i <= Len(file) THEN file[i] ELSE "hole"]

\* The loop of downloadApk.  The server may send one chunk too many, which a
\* known length catches after it is written.
DownloadChunk(j) ==
  LET k == job[j].at + 1
      excess == job[j].total > 0 /\ k > job[j].total
  IN /\ job[j].pc = "read"
     /\ k <= Chunks + 1
     /\ \E chunk \in {"ok", "bad"} : apk' = [apk EXCEPT ![job[j].v] = WriteAt(@, k, chunk)]
     /\ job' = [job EXCEPT ![j] = IF excess THEN ToFinally ELSE [@ EXCEPT !.at = k]]
     /\ state' = S(IF excess THEN "Error" ELSE "Downloading")
     /\ UNCHANGED <<isUpdating, consented, world>>

\* The stream ends, perhaps early; the size checks; the state Verifying.
WrongSize(j) ==
  LET size == Len(apk[job[j].v])
  IN size = 0 \/ (job[j].total > 0 /\ size # job[j].total)

DownloadEnd(j) ==
  /\ job[j].pc = "read"
  /\ state' = S(IF WrongSize(j) THEN "Error" ELSE "Verifying")
  /\ job' = [job EXCEPT ![j] = IF WrongSize(j) THEN ToFinally
                               ELSE [NoJob EXCEPT !.pc = "verify", !.v = job[j].v]]
  /\ UNCHANGED <<isUpdating, apk, consented, world>>

\* Mutant: the size is checked instead of the digest.
verifySize(j) ==
  /\ job[j].pc = "verify"
  /\ \/ /\ Len(apk[job[j].v]) = Chunks
        /\ Goto(j, "permission")
        /\ UNCHANGED state
     \/ /\ Len(apk[job[j].v]) # Chunks
        /\ state' = S("Error")
        /\ job' = [job EXCEPT ![j] = ToFinally]
  /\ UNCHANGED <<isUpdating, apk, consented, world>>

verifySha256(j) ==
  /\ job[j].pc = "verify"
  /\ \/ /\ apk[job[j].v] = Complete
        /\ Goto(j, "permission")
        /\ UNCHANGED state
     \/ /\ apk[job[j].v] # Complete
        /\ state' = S("Error")
        /\ job' = [job EXCEPT ![j] = ToFinally]
  /\ UNCHANGED <<isUpdating, apk, consented, world>>

OfferInstall(j) ==
  /\ job[j].pc = "permission"
  /\ state' = IF canInstall THEN ReadyToInstall(job[j].v) ELSE S("InstallPermissionRequired")
  /\ job' = [job EXCEPT ![j] = ToFinally]
  /\ UNCHANGED <<isUpdating, apk, consented, world>>

\* Mutant: the catch block of startUpdate only logs.
UpdateFailsSilently(j) ==
  /\ job[j].pc \in {"fetch", "open", "read", "verify"}
  /\ job' = [job EXCEPT ![j] = ToFinally]
  /\ UNCHANGED <<state, isUpdating, apk, consented, world>>

UpdateFails(j) ==
  /\ job[j].pc \in {"fetch", "open", "read", "verify"}
  /\ state' = S("Error")
  /\ job' = [job EXCEPT ![j] = ToFinally]
  /\ UNCHANGED <<isUpdating, apk, consented, world>>

\* Mutant: isUpdating is not reset.
FinallyForgets(j) ==
  /\ job[j].pc = "finally"
  /\ End(j)
  /\ UNCHANGED <<state, isUpdating, apk, consented, world>>

Finally(j) ==
  /\ job[j].pc = "finally"
  /\ isUpdating' = FALSE
  /\ End(j)
  /\ UNCHANGED <<state, apk, consented, world>>

---------------------------------------------------------------------------
(***************************************************************************)
(* The process and its environment.                                        *)
(***************************************************************************)
Restarted ==
  /\ state' = S("Idle") /\ isUpdating' = FALSE
  /\ job' = [j \in Jobs |-> NoJob]
  /\ opened' = 0
  /\ UNCHANGED <<consented, canInstall>>

\* The process dies and is started again: the file keeps what was written.
ProcessDeath == Restarted /\ UNCHANGED <<apk, installed>>

OpenInstaller ==
  /\ state.kind = "ReadyToInstall"
  /\ opened' = state.v
  /\ UNCHANGED <<state, isUpdating, job, apk, consented, installed, canInstall>>

\* The installer is dismissed without installing.
InstallerClosed ==
  /\ opened # 0
  /\ opened' = 0
  /\ UNCHANGED <<state, isUpdating, job, apk, consented, installed, canInstall>>

\* The installer replaces the package; AppUpdatedReceiver then deletes the
\* files (the broadcast reaches the new process before its user does).
PackageReplaced ==
  /\ opened > installed
  /\ Restarted
  /\ installed' = opened
  /\ apk' = [w \in Versions |-> <<>>]

ChangePermission ==
  /\ canInstall' = ~canInstall
  /\ UNCHANGED <<state, isUpdating, job, apk, consented, installed, opened>>

CheckStep(j) == CheckBegin(j) \/ CheckFetch(j) \/ CheckFails(j)

UpdateStep(j) ==
  \/ Begin(j) \/ Fetch(j) \/ StartDownload(j)
  \/ DownloadOpen(j) \/ DownloadChunk(j) \/ DownloadEnd(j)
  \/ verifySha256(j) \/ OfferInstall(j) \/ UpdateFails(j) \/ Finally(j)

JobStep(j) == CheckStep(j) \/ UpdateStep(j)

Environment == ProcessDeath \/ InstallerClosed \/ PackageReplaced \/ ChangePermission

\* Every caller of checkNow and startUpdate, at any time.
Next ==
  \/ \E j \in Jobs : JobStep(j) \/ checkNow(j) \/ (MayCall /\ startUpdate(j))
  \/ OpenInstaller
  \/ Environment

Spec == Init /\ [][Next]_vars

\* A coroutine keeps running: every connection has a timeout and a download ends.
FairSpec == Spec /\ \A j \in Jobs : WF_vars(JobStep(j))

---------------------------------------------------------------------------
(***************************************************************************)
(* Properties.                                                             *)
(***************************************************************************)
\* Every variable has its type.
TypeOK ==
  /\ state \in UpdateState /\ isUpdating \in BOOLEAN
  /\ job \in [Jobs -> Job]
  /\ apk \in [Versions -> File]
  /\ {consented, installed, opened} \subseteq 0 .. MaxVersion
  /\ canInstall \in BOOLEAN

\* A package offered for installation (state ReadyToInstall) is complete, its
\* digest is the announced one, and it is the version recorded as consented to:
\* no second download touches the file between verifySha256 and the moment the
\* user is offered the installer, or afterwards while the offer stands.
OfferVerified ==
  state.kind = "ReadyToInstall" =>
    /\ state.v \in Versions
    /\ apk[state.v] = Complete
    /\ consented = state.v

\* Whoever replaces a state that makes the screen wait is still there.
WaitHasJob ==
  /\ state.kind = "Checking" => \E j \in Jobs : job[j].pc = "checkFetch"
  /\ state.kind \in {"StartingDownload", "Downloading", "Verifying"} =>
       \E j \in Jobs : job[j].pc \in WorkAt

\* Whoever resets isUpdating is still there.
ResetToCome == isUpdating => \E j \in Jobs : job[j].pc \in UpdateAt \ {"begin"}

\* Neither a state that makes the screen wait (Checking, StartingDownload,
\* Downloading, Verifying) nor isUpdating is left behind by a coroutine that is
\* gone: one of the right kind is still going to replace the state and to reset
\* isUpdating, whatever the order in which concurrent checks and updates write
\* them, also when two updates run at once, and whatever fails.
BusyHasJob == WaitHasJob /\ ResetToCome

\* isUpdating means what its name says: while one coroutine of startUpdate is
\* between its first statement and its finally block it is set, and there is never
\* a second one.  This is so under PromptDispatch only, which the code does not
\* enforce: isUpdating is tested by the caller and set by the coroutine
\* (Updater.kt:97, 115), and two calls in between start two updates.
OneUpdater ==
  \A j \in Jobs : job[j].pc \in UpdateAt \ {"begin"} =>
    isUpdating /\ \A k \in Jobs \ {j} : job[k].pc \notin UpdateAt

\* An update that was started ends, isUpdating is always reset, and a state that
\* makes the user wait is always replaced by one that does not (Updater's
\* finally block and its handlers).
UpdatesEnd ==
  LET waiting == state.kind \in {"Checking", "StartingDownload", "Downloading", "Verifying"}
  IN  /\ isUpdating ~> ~isUpdating
      /\ waiting ~> ~waiting

\* The inductive invariant: OneUpdater with its converse, what the updating
\* coroutine has established at each point, and what an offer means.
Established(j) ==
  /\ job[j].pc \in WorkAt \cup {"start"} => job[j].v \in Versions /\ consented = job[j].v
  /\ job[j].pc = "permission" => apk[job[j].v] = Complete
  /\ job[j].pc \in UpdateAt \ {"finally"} => state.kind # "ReadyToInstall"
UpdaterInv ==
  /\ OneUpdater /\ OfferVerified /\ BusyHasJob
  /\ \A j, k \in Jobs : job[j].pc = "begin" /\ job[k].pc \in UpdateAt => j = k
  /\ \A j \in Jobs : Established(j)
=============================================================================

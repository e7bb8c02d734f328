---------------------------- MODULE UpdateScreen ----------------------------
(***************************************************************************)
(* The callers of the updater: App.onCreate, and the update row of         *)
(* SettingsActivity with its life cycle, its click handler, onResume and   *)
(* the collector of Updater.state.                                         *)
(*                                                                         *)
(* A click starts a coroutine of the activity that first waits for the     *)
(* device token and then calls the updater.  The collector runs on the     *)
(* main thread and is conflated: it sees the present state when it gets to *)
(* run, and is not called when that equals the one it saw last.            *)
(***************************************************************************)
EXTENDS Updater, TLC

CONSTANT MaxPreparing      \* bound: coroutines of the activity waiting for the token

VARIABLES screen,      \* "gone", "resumed" or "paused" (another window in front)
          enabled,     \* settingCheckUpdates.isEnabled
          seen,        \* the state the collector handled last, or None
          behind,      \* history: state was written since the collector ran
          preparing,   \* coroutines waiting in getOrRegisterDeviceToken, by purpose
          starting,    \* App.onCreate still has to call monitorForUpdates
          token        \* DeviceTokenStore holds a device token

screenVars == <<screen, enabled, seen, behind, preparing, starting, token>>
allVars == <<vars, screenVars>>

None == [kind |-> "none", v |-> 0]
Purposes == {"check", "update", "resume"}
NoOne == [p \in Purposes |-> 0]
Waiting == preparing["check"] + preparing["update"] + preparing["resume"]

SInit ==
  /\ Init
  /\ screen = "gone" /\ enabled = FALSE /\ seen = None /\ behind = FALSE
  /\ preparing = NoOne /\ starting = TRUE /\ token = FALSE

---------------------------------------------------------------------------
\* getOrRegisterDeviceToken returns the stored token, or registers the device
\* and stores what the server gives it; only the registration can fail.
TokenReady == token' = TRUE
TokenFails == ~token /\ UNCHANGED token

\* App.onCreate: the token, then monitorForUpdates (checkNow), or neither.
AppStarts(j) ==
  /\ starting /\ TokenReady
  /\ starting' = FALSE
  /\ checkNow(j)
  /\ UNCHANGED <<screen, enabled, seen, behind, preparing>>

AppStartFails ==
  /\ starting /\ TokenFails
  /\ starting' = FALSE
  /\ UNCHANGED <<vars, screen, enabled, seen, behind, preparing>>

\* onResume resumes an update that stopped for the permission to install.
Resuming ==
  IF state.kind = "InstallPermissionRequired" /\ canInstall
  THEN [NoOne EXCEPT !["resume"] = 1] ELSE NoOne

Open ==
  /\ screen = "gone"
  /\ screen' = "resumed" /\ enabled' = TRUE /\ seen' = None
  /\ preparing' = Resuming
  /\ UNCHANGED <<vars, behind, starting, token>>

Resume ==
  /\ screen = "paused" /\ Waiting < MaxPreparing
  /\ screen' = "resumed"
  /\ preparing' = [p \in Purposes |-> preparing[p] + Resuming[p]]
  /\ UNCHANGED <<vars, enabled, seen, behind, starting, token>>

Pause ==
  /\ screen = "resumed"
  /\ screen' = "paused"
  /\ UNCHANGED <<vars, enabled, seen, behind, preparing, starting, token>>

\* The activity is destroyed, and its coroutines cancelled.
Close ==
  /\ screen # "gone"
  /\ screen' = "gone" /\ enabled' = FALSE /\ seen' = None
  /\ preparing' = NoOne /\ behind' = FALSE
  /\ UNCHANGED <<vars, starting, token>>

\* A click on the update row.
ClickPrepares(purpose, kinds) ==
  /\ state.kind \in kinds
  /\ enabled' = FALSE
  /\ preparing' = [preparing EXCEPT ![purpose] = @ + 1]
  /\ UNCHANGED <<vars, screen>>

ClickInstall ==
  /\ OpenInstaller
  /\ enabled' = FALSE /\ screen' = "paused"
  /\ UNCHANGED preparing

ClickAllow ==
  /\ state.kind = "InstallPermissionRequired"
  /\ screen' = "paused"
  /\ UNCHANGED <<vars, enabled, preparing>>

Click ==
  /\ screen = "resumed" /\ enabled /\ Waiting < MaxPreparing
  /\ \/ ClickPrepares("check", {"Idle", "Error"})
     \/ ClickPrepares("update", {"Available"})
     \/ ClickInstall
     \/ ClickAllow
  /\ UNCHANGED <<seen, behind, starting, token>>

\* getOrRegisterDeviceToken returned: the coroutine calls the updater.
Prepared(p) ==
  /\ preparing[p] > 0 /\ TokenReady
  /\ preparing' = [preparing EXCEPT ![p] = @ - 1]
  /\ IF p = "check" THEN \E j \in Jobs : checkNow(j)
     ELSE /\ MayCall
          /\ \/ \E j \in Jobs : startUpdate(j)
             \/ Refused /\ UNCHANGED vars
  /\ UNCHANGED <<screen, enabled, seen, behind, starting>>

\* Mutant: the catch block only logs.
NotPreparedSilently(p) ==
  /\ preparing[p] > 0 /\ TokenFails
  /\ preparing' = [preparing EXCEPT ![p] = @ - 1]
  /\ UNCHANGED <<vars, screen, enabled, seen, behind, starting>>

\* ... or it threw: the catch block makes the row usable again.
NotPrepared(p) ==
  /\ preparing[p] > 0 /\ TokenFails
  /\ preparing' = [preparing EXCEPT ![p] = @ - 1]
  /\ enabled' = TRUE
  /\ UNCHANGED <<vars, screen, seen, behind, starting>>

\* observeUpdater: a collected state decides whether the row can be clicked.
Observe ==
  /\ screen # "gone" /\ seen # state
  /\ seen' = state /\ behind' = FALSE
  /\ enabled' = (state.kind \notin {"Checking", "StartingDownload", "Downloading", "Verifying"})
  /\ UNCHANGED <<vars, screen, preparing, starting, token>>

---------------------------------------------------------------------------
Working ==
  /\ \E j \in Jobs : JobStep(j)
  /\ behind' = (behind \/ (screen # "gone" /\ state' # state))
  /\ UNCHANGED <<screen, enabled, seen, preparing, starting, token>>

Dies ==
  /\ ProcessDeath \/ PackageReplaced
  /\ screen' = "gone" /\ enabled' = FALSE /\ seen' = None /\ behind' = FALSE
  /\ preparing' = NoOne /\ starting' = TRUE
  /\ UNCHANGED token

\* The permission is changed on a screen of the system.
Outside ==
  /\ InstallerClosed \/ (screen # "resumed" /\ ChangePermission)
  /\ UNCHANGED screenVars

Main ==
  \/ \E j \in Jobs : AppStarts(j)
  \/ AppStartFails \/ Observe
  \/ \E p \in Purposes : Prepared(p) \/ NotPrepared(p)

User == Open \/ Resume \/ Pause \/ Close \/ Click

SNext == Main \/ User \/ Working \/ Dies \/ Outside
SSpec == SInit /\ [][SNext]_allVars

\* The jobs of the installer's scope are interchangeable.
JobSymmetry == Permutations(Jobs)

---------------------------------------------------------------------------

\* Whoever disabled the update row, something is still going to enable it: a
\* coroutine that will call the updater or fail, a job that will write a new
\* state, or a state the collector has not seen.  There are two exceptions: the
\* installer was opened from the row, and the collector missed a state that was
\* written and then replaced by the one it had seen before (a StateFlow is
\* conflated), so that nothing undoes the click.
Missed == behind /\ seen = state
RowNotStranded ==
  screen # "gone" /\ ~enabled =>
    \/ Waiting > 0
    \/ \E j \in Jobs : job[j].pc \notin {"off", "finally"}
    \/ seen # state
    \/ Missed
    \/ state.kind = "ReadyToInstall"

\* The inductive invariant: while the collector is up to date, a row that is
\* disabled was disabled in the present state, by the collector or by a click,
\* and what that click set off is on its way: it waits for the token, or it is a
\* check that has not begun, or an update that cannot end without a new state.
ScreenTypeOK == preparing \in [Purposes -> Nat] /\ enabled \in BOOLEAN /\ behind \in BOOLEAN
RowInv ==
  screen # "gone" /\ ~enabled /\ seen = state /\ ~behind =>
    \/ state.kind \in {"Checking", "StartingDownload", "Downloading", "Verifying", "ReadyToInstall"}
    \/ /\ state.kind \in {"Idle", "Error"}
       /\ preparing["check"] > 0 \/ \E j \in Jobs : job[j].pc = "checkBegin"
    \/ /\ state.kind = "Available"
       /\ preparing["update"] > 0 \/ \E j \in Jobs : job[j].pc \in UpdateAt \ {"finally"}
=============================================================================

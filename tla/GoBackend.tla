------------------------------ MODULE GoBackend ------------------------------
(***************************************************************************)
(* The userspace WireGuard backend: com.wireguard.android.backend.GoBackend *)
(* with its nested VpnService and the handle table of libwg-go.             *)
(*                                                                         *)
(* setState is called by worker threads (Callers), onCreate and onDestroy   *)
(* by the main thread.  Nothing in GoBackend is synchronized, so the steps  *)
(* of different threads interleave.  A step of the model groups adjacent    *)
(* statements, so every interleaving of the model is one of the code; the   *)
(* code has finer ones too.                                                 *)
(*                                                                         *)
(* Spec is the code as it is; SerialSpec is the code used by one thread at  *)
(* a time, which no lock in the code enforces.                              *)
(***************************************************************************)
EXTENDS Integers

CONSTANTS
  Callers,     \* threads that may call setState
  Tunnels,     \* Tunnel objects, compared by identity
  Configs,     \* Config objects, compared by identity
  NULL,        \* the null reference
  MaxHandles   \* size of the handle table (math.MaxInt32 in the code)

ASSUME NullAssumption == NULL \notin Tunnels /\ NULL \notin Configs
ASSUME HandlesAssumption == MaxHandles \in Nat \ {0}

VARIABLES
  currentTunnel,        \* GoBackend.currentTunnel
  currentConfig,        \* GoBackend.currentConfig
  currentTunnelHandle,  \* GoBackend.currentTunnelHandle
  tunnelHandles,        \* libwg-go: the config each handle's device runs, or NULL
  service,              \* life of the VpnService instance, see ServiceState
  owner,                \* the instance's owner field is set
  stopping,             \* stopSelf was called on the instance
  startPending,         \* the system owes the process a new instance
  permitted,            \* VpnService.prepare(context) would return null
  connected,            \* what Tunnel.onStateChange last told the listener
  pc,                   \* where each caller is inside setState
  frame,                \* the local variables of each caller's setState
  result                \* how each caller's last setState ended

backendVars == <<currentTunnel, currentConfig, currentTunnelHandle>>
serviceVars == <<service, owner, stopping, startPending>>
callVars == <<pc, frame, result>>
vars == <<backendVars, tunnelHandles, serviceVars, permitted, connected, callVars>>

Handles == 0 .. MaxHandles - 1
NoHandle == -1

(* "none" until onCreate; then "alive"; the other values are the points of  *)
(* onDestroy at which the instance is being torn down.                      *)
ServiceState == {"none", "alive", "turnOff", "clear", "replace"}

(* The static future vpnService is complete from onCreate until onDestroy   *)
(* replaces it.                                                             *)
FutureDone == service # "none"

(* What a setStateInternal call is for: taking the old tunnel down before a *)
(* switch, bringing the requested one up, restoring the old one after a     *)
(* failure, or taking a tunnel down on request.                             *)
Stage == {"switch", "up", "rollback", "down"}

Label == {"ready", "authorize", "getService", "await", "attach", "stale",
          "establish", "turnOn", "publish", "close", "turnOff", "stop", "notify"}

NoFrame == [tunnel |-> NULL, config |-> NULL, originalTunnel |-> NULL,
            originalConfig |-> NULL, handleToClose |-> NoHandle, stage |-> "down"]

Frames == [tunnel : Tunnels \cup {NULL}, config : Configs \cup {NULL},
           originalTunnel : Tunnels \cup {NULL}, originalConfig : Configs \cup {NULL},
           handleToClose : Handles \cup {NoHandle}, stage : Stage]

StateTypeOK ==
  /\ currentTunnel \in Tunnels \cup {NULL}
  /\ currentConfig \in Configs \cup {NULL}
  /\ currentTunnelHandle \in Handles \cup {NoHandle}
  /\ tunnelHandles \in [Handles -> Configs \cup {NULL}]
  /\ service \in ServiceState
  /\ owner \in BOOLEAN /\ stopping \in BOOLEAN /\ startPending \in BOOLEAN
  /\ permitted \in BOOLEAN /\ connected \in BOOLEAN

CallTypeOK ==
  /\ pc \in [Callers -> Label]
  /\ frame \in [Callers -> Frames]
  /\ result \in [Callers -> {"none", "ok", "exception"}]

(* Every variable has a value of its type. *)
TypeOK == StateTypeOK /\ CallTypeOK

Init ==
  /\ currentTunnel = NULL
  /\ currentConfig = NULL
  /\ currentTunnelHandle = NoHandle
  /\ tunnelHandles = [h \in Handles |-> NULL]
  /\ service = "none"
  /\ owner = FALSE /\ stopping = FALSE /\ startPending = FALSE
  /\ permitted \in BOOLEAN
  /\ connected = FALSE
  /\ pc = [c \in Callers |-> "ready"]
  /\ frame = [c \in Callers |-> NoFrame]
  /\ result = [c \in Callers |-> "none"]

-----------------------------------------------------------------------------
(* Control flow of one caller *)

Goto(c, label) == pc' = [pc EXCEPT ![c] = label]

SetStage(c, stage) == frame' = [frame EXCEPT ![c].stage = stage]

(* setState returns or throws: its locals are gone. *)
Leave(c, outcome) ==
  /\ Goto(c, "ready")
  /\ frame' = [frame EXCEPT ![c] = NoFrame]
  /\ result' = [result EXCEPT ![c] = outcome]

(* The arguments of the setStateInternal call in progress. *)
InternalTunnel(c) == IF frame[c].stage \in {"switch", "rollback"}
                     THEN frame[c].originalTunnel ELSE frame[c].tunnel
InternalConfig(c) == IF frame[c].stage = "rollback"
                     THEN frame[c].originalConfig ELSE frame[c].config
InternalState(c) == IF frame[c].stage \in {"up", "rollback"} THEN "UP" ELSE "DOWN"

(* setStateInternal returned: after taking the old tunnel down comes the    *)
(* requested one; after a restore the first exception is thrown on.         *)
Returned(c) ==
  \/ /\ frame[c].stage = "switch"
     /\ Goto(c, "authorize") /\ SetStage(c, "up") /\ UNCHANGED result
  \/ frame[c].stage \in {"up", "down"} /\ Leave(c, "ok")
  \/ frame[c].stage = "rollback" /\ Leave(c, "exception")

(* setStateInternal threw: setState restores the original tunnel, if there  *)
(* was one; what the restore itself throws is not caught.                   *)
Threw(c) ==
  \/ /\ frame[c].stage = "up" /\ frame[c].originalTunnel # NULL
     /\ Goto(c, "authorize") /\ SetStage(c, "rollback") /\ UNCHANGED result
  \/ /\ frame[c].stage # "up" \/ frame[c].originalTunnel = NULL
     /\ Leave(c, "exception")

-----------------------------------------------------------------------------
(* setState *)

getState(t) == IF currentTunnel = t THEN "UP" ELSE "DOWN"

(* TOGGLE is resolved against the tunnel's own state. *)
Requested(t, s) ==
  IF s = "TOGGLE" THEN IF getState(t) = "UP" THEN "DOWN" ELSE "UP" ELSE s

NothingToDo(t, s, g) ==
  \/ Requested(t, s) = getState(t) /\ t = currentTunnel /\ g = currentConfig
  \/ Requested(t, s) = "DOWN" /\ t # currentTunnel

SetStateNothing(c, t, s, g) ==
  /\ pc[c] = "ready"
  /\ NothingToDo(t, s, g)
  /\ Leave(c, "ok")
  /\ UNCHANGED <<backendVars, tunnelHandles, serviceVars, permitted, connected>>

Call(t, g, stage) ==
  [tunnel |-> t, config |-> g, originalTunnel |-> currentTunnel,
   originalConfig |-> currentConfig, handleToClose |-> NoHandle, stage |-> stage]

SetStateUp(c, t, s, g) ==
  /\ pc[c] = "ready"
  /\ ~NothingToDo(t, s, g)
  /\ Requested(t, s) = "UP"
  /\ \/ /\ currentTunnel # NULL
        /\ frame' = [frame EXCEPT ![c] = Call(t, g, "switch")] /\ Goto(c, "close")
     \/ /\ currentTunnel = NULL
        /\ frame' = [frame EXCEPT ![c] = Call(t, g, "up")] /\ Goto(c, "authorize")
  /\ result' = [result EXCEPT ![c] = "none"]
  /\ UNCHANGED <<backendVars, tunnelHandles, serviceVars, permitted, connected>>

SetStateDown(c, t, s, g) ==
  /\ pc[c] = "ready"
  /\ ~NothingToDo(t, s, g)
  /\ Requested(t, s) = "DOWN"
  /\ frame' = [frame EXCEPT ![c] = Call(t, g, "down")] /\ Goto(c, "close")
  /\ result' = [result EXCEPT ![c] = "none"]
  /\ UNCHANGED <<backendVars, tunnelHandles, serviceVars, permitted, connected>>

-----------------------------------------------------------------------------
(* setStateInternal, state UP *)

(* The configuration and the user's consent are checked, and the service is *)
(* started if there is none; the platform may refuse a background start.    *)
Authorize(c) ==
  /\ pc[c] = "authorize"
  /\ \/ /\ InternalConfig(c) = NULL \/ ~permitted \/ ~FutureDone
        /\ Threw(c) /\ UNCHANGED startPending
     \/ /\ InternalConfig(c) # NULL /\ permitted
        /\ startPending' = (startPending \/ ~FutureDone)
        /\ Goto(c, "getService") /\ UNCHANGED <<frame, result>>
  /\ UNCHANGED <<backendVars, tunnelHandles, service, owner, stopping, permitted, connected>>

(* vpnService is read again here: it may have been replaced since.          *)
GetService(c) ==
  /\ pc[c] = "getService"
  /\ Goto(c, IF FutureDone THEN "attach" ELSE "await")
  /\ UNCHANGED <<backendVars, tunnelHandles, serviceVars, permitted, connected, frame, result>>

(* Mutant: get() without a timeout. *)
ServiceTimeoutNever(c) == FALSE

(* The two seconds are over and nobody has completed the future.            *)
ServiceTimeout(c) ==
  /\ pc[c] = "await"
  /\ Threw(c)
  /\ UNCHANGED <<backendVars, tunnelHandles, serviceVars, permitted, connected>>

(* setOwner, and the early return that keeps a tunnel that is already up.   *)
(* A caller whose instance was destroyed meanwhile ("stale") sets the owner *)
(* of the dead instance.                                                    *)
Attach(c) ==
  /\ pc[c] \in {"attach", "stale"}
  /\ owner' = (owner \/ pc[c] = "attach")
  /\ \/ currentTunnelHandle # NoHandle /\ Returned(c)
     \/ /\ currentTunnelHandle = NoHandle
        /\ Goto(c, "establish") /\ UNCHANGED <<frame, result>>
  /\ UNCHANGED <<backendVars, tunnelHandles, service, stopping, startPending, permitted, connected>>

(* DNS resolution with its retries, the builder calls and establish, each   *)
(* of which may throw.  establish makes the system bind the service, which  *)
(* creates an instance if none is left.                                     *)
Establish(c) ==
  /\ pc[c] = "establish"
  /\ \/ Threw(c) /\ UNCHANGED startPending
     \/ /\ startPending' = (startPending \/ service # "alive")
        /\ Goto(c, "turnOn") /\ UNCHANGED <<frame, result>>
  /\ UNCHANGED <<backendVars, tunnelHandles, service, owner, stopping, permitted, connected>>

(* wgTurnOn takes the smallest handle that is free. *)
FreeHandle(h) ==
  /\ tunnelHandles[h] = NULL
  /\ \A k \in Handles : k < h => tunnelHandles[k] # NULL

TurnOn(c) ==
  /\ pc[c] = "turnOn"
  /\ \/ currentTunnelHandle' = NoHandle /\ UNCHANGED tunnelHandles
     \/ \E h \in Handles :
          /\ FreeHandle(h)
          /\ tunnelHandles' = [tunnelHandles EXCEPT ![h] = InternalConfig(c)]
          /\ currentTunnelHandle' = h
  /\ Goto(c, "publish")
  /\ UNCHANGED <<currentTunnel, currentConfig, serviceVars, permitted, connected, frame, result>>

(* Mutant: the configuration that runs is not remembered. *)
PublishKeepsConfig(c) ==
  /\ pc[c] = "publish"
  /\ \/ currentTunnelHandle = NoHandle /\ Threw(c) /\ UNCHANGED backendVars
     \/ /\ currentTunnelHandle # NoHandle
        /\ currentTunnel' = InternalTunnel(c)
        /\ Goto(c, "notify") /\ UNCHANGED <<currentConfig, currentTunnelHandle, frame, result>>
  /\ UNCHANGED <<tunnelHandles, serviceVars, permitted, connected>>

Publish(c) ==
  /\ pc[c] = "publish"
  /\ \/ currentTunnelHandle = NoHandle /\ Threw(c) /\ UNCHANGED backendVars
     \/ /\ currentTunnelHandle # NoHandle
        /\ currentTunnel' = InternalTunnel(c)
        /\ currentConfig' = InternalConfig(c)
        /\ Goto(c, "notify") /\ UNCHANGED <<currentTunnelHandle, frame, result>>
  /\ UNCHANGED <<tunnelHandles, serviceVars, permitted, connected>>

-----------------------------------------------------------------------------
(* setStateInternal, state DOWN *)

(* Mutant: the handle is reset before it is read. *)
CloseForgetsHandle(c) ==
  /\ pc[c] = "close"
  /\ \/ currentTunnelHandle = NoHandle /\ Returned(c) /\ UNCHANGED backendVars
     \/ /\ currentTunnelHandle # NoHandle
        /\ currentTunnel' = NULL
        /\ currentTunnelHandle' = NoHandle
        /\ currentConfig' = NULL
        /\ Goto(c, "turnOff") /\ UNCHANGED <<frame, result>>
  /\ UNCHANGED <<tunnelHandles, serviceVars, permitted, connected>>

Close(c) ==
  /\ pc[c] = "close"
  /\ \/ currentTunnelHandle = NoHandle /\ Returned(c) /\ UNCHANGED backendVars
     \/ /\ currentTunnelHandle # NoHandle
        /\ frame' = [frame EXCEPT ![c].handleToClose = currentTunnelHandle]
        /\ currentTunnel' = NULL
        /\ currentTunnelHandle' = NoHandle
        /\ currentConfig' = NULL
        /\ Goto(c, "turnOff") /\ UNCHANGED result
  /\ UNCHANGED <<tunnelHandles, serviceVars, permitted, connected>>

(* wgTurnOff ignores a handle that is not in the table. *)
wgTurnOff(h) == tunnelHandles' = [k \in Handles |-> IF k = h THEN NULL ELSE tunnelHandles[k]]

TurnOff(c) ==
  /\ pc[c] = "turnOff"
  /\ wgTurnOff(frame[c].handleToClose)
  /\ Goto(c, "stop")
  /\ UNCHANGED <<backendVars, serviceVars, permitted, connected, frame, result>>

StopSelf(c) ==
  /\ pc[c] = "stop"
  /\ stopping' = (stopping \/ FutureDone)
  /\ Goto(c, "notify")
  /\ UNCHANGED <<backendVars, tunnelHandles, service, owner, startPending, permitted, connected, frame, result>>

(* tunnel.onStateChange(state): the tunnel's listener stores the new state. *)
Notify(c) ==
  /\ pc[c] = "notify"
  /\ connected' = (InternalState(c) = "UP")
  /\ Returned(c)
  /\ UNCHANGED <<backendVars, tunnelHandles, serviceVars, permitted>>

-----------------------------------------------------------------------------
(* The VpnService instance, on the main thread *)

(* onCreate completes the future and so wakes every caller waiting for it.  *)
OnCreate ==
  /\ service = "none" /\ startPending
  /\ service' = "alive" /\ startPending' = FALSE
  /\ pc' = [c \in Callers |-> IF pc[c] = "await" THEN "attach" ELSE pc[c]]
  /\ UNCHANGED <<backendVars, tunnelHandles, owner, stopping, permitted, connected, frame, result>>

(* onDestroy begins: a tunnel is torn down only if an owner is set and has  *)
(* one.                                                                     *)
OnDestroy ==
  /\ service = "alive" /\ stopping
  /\ service' = IF owner /\ currentTunnel # NULL THEN "turnOff" ELSE "replace"
  /\ UNCHANGED <<backendVars, tunnelHandles, owner, stopping, startPending, permitted, connected, callVars>>

OnDestroyTurnOff ==
  /\ service = "turnOff"
  /\ service' = "clear"
  /\ wgTurnOff(currentTunnelHandle)
  /\ UNCHANGED <<backendVars, owner, stopping, startPending, permitted, connected, callVars>>

OnDestroyClear ==
  /\ service = "clear"
  /\ service' = "replace"
  /\ currentTunnel' = NULL
  /\ currentTunnelHandle' = NoHandle
  /\ currentConfig' = NULL
  /\ connected' = FALSE
  /\ UNCHANGED <<tunnelHandles, owner, stopping, startPending, permitted, callVars>>

(* The future is replaced; a caller that got this instance still holds it.  *)
OnDestroyReplace ==
  /\ service = "replace"
  /\ service' = "none"
  /\ owner' = FALSE /\ stopping' = FALSE
  /\ pc' = [c \in Callers |-> IF pc[c] = "attach" THEN "stale" ELSE pc[c]]
  /\ UNCHANGED <<backendVars, tunnelHandles, startPending, permitted, connected, frame, result>>

-----------------------------------------------------------------------------
(* The platform (external) *)

(* Another VPN app or the user takes the VPN away: onRevoke is inherited    *)
(* and calls stopSelf; consent may be lost.                                 *)
Revoke ==
  /\ service = "alive"
  /\ stopping' = TRUE
  /\ permitted' \in BOOLEAN
  /\ UNCHANGED <<backendVars, tunnelHandles, service, owner, startPending, connected, callVars>>

(* The user answers the consent dialog. *)
Grant ==
  /\ ~permitted
  /\ permitted' = TRUE
  /\ UNCHANGED <<backendVars, tunnelHandles, serviceVars, connected, callVars>>

(* The system starts the service for always-on VPN; the app registers no    *)
(* AlwaysOnCallback, so nothing else follows.                               *)
AlwaysOnStart ==
  /\ service = "none" /\ ~startPending
  /\ startPending' = TRUE
  /\ UNCHANGED <<backendVars, tunnelHandles, service, owner, stopping, permitted, connected, callVars>>

-----------------------------------------------------------------------------
SetState(c) ==
  \E t \in Tunnels, g \in Configs \cup {NULL}, s \in {"UP", "DOWN", "TOGGLE"} :
    SetStateNothing(c, t, s, g) \/ SetStateUp(c, t, s, g) \/ SetStateDown(c, t, s, g)

Step(c) ==
  \/ Authorize(c) \/ GetService(c) \/ ServiceTimeout(c) \/ Attach(c)
  \/ Establish(c) \/ TurnOn(c) \/ Publish(c)
  \/ Close(c) \/ TurnOff(c) \/ StopSelf(c) \/ Notify(c)

Service == OnCreate \/ OnDestroy \/ OnDestroyTurnOff \/ OnDestroyClear \/ OnDestroyReplace

Platform == Revoke \/ Grant \/ AlwaysOnStart

Next ==
  \/ \E c \in Callers : SetState(c) \/ Step(c)
  \/ Service
  \/ Platform

Spec == Init /\ [][Next]_vars

(* Every thread keeps running, and so does the main thread.                 *)
Fairness == (\A c \in Callers : WF_vars(Step(c))) /\ WF_vars(Service)
FairSpec == Spec /\ Fairness

(* One thread at a time: calls do not overlap each other, and onDestroy does *)
(* not overlap a call.                                                       *)
Exclusive ==
  /\ \A c, d \in Callers : pc[c] # "ready" /\ pc[d] # "ready" => c = d
  /\ service \in {"turnOff", "clear", "replace"} => \A c \in Callers : pc[c] = "ready"

SerialSpec == Init /\ [][Next /\ Exclusive']_vars

-----------------------------------------------------------------------------
(* Correctness *)

Running == {h \in Handles : tunnelHandles[h] # NULL}

(* No setState call and no onDestroy is in progress. *)
Quiet == /\ \A c \in Callers : pc[c] = "ready"
         /\ service \in {"none", "alive"}

(* Between calls every device that runs in libwg-go belongs to the tunnel    *)
(* that getRunningTunnelNames lists: no device is left without an owner who  *)
(* could still turn it off.                                                  *)
RunningTunnelsListed ==
  Quiet => \A h \in Running : currentTunnel # NULL /\ h = currentTunnelHandle

(* Two devices never run at once, not even half way through a switch or a    *)
(* restore: the old device is gone before the new one starts.                *)
OneDevice == \A h, k \in Running : h = k

(* Between calls the tunnel that GoBackend says is up has a device, and the  *)
(* device runs the configuration GoBackend remembers and would restore.      *)
CurrentConfigRuns ==
  Quiet /\ currentTunnel # NULL =>
    /\ currentTunnelHandle \in Running
    /\ tunnelHandles[currentTunnelHandle] = currentConfig

(* Between calls the listener was told the truth: the last onStateChange it  *)
(* got says UP exactly when a tunnel is up.                                  *)
ListenerAgrees == Quiet => (connected <=> currentTunnel # NULL)

(* How a call of setState may end, from what it was asked and what was up    *)
(* when it started: it returns with the requested tunnel and configuration,  *)
(* or with nothing up after DOWN; it throws with the original tunnel and     *)
(* configuration restored, or with nothing up.                               *)
Outcome(c) ==
  \/ /\ result'[c] = "ok" /\ frame[c].stage = "up"
     /\ currentTunnel' = frame[c].tunnel /\ currentConfig' = frame[c].config
  \/ result'[c] = "ok" /\ frame[c].stage = "down" /\ currentTunnel' = NULL
  \/ /\ result'[c] = "exception"
     /\ \/ currentTunnel' = NULL
        \/ currentTunnel' = frame[c].originalTunnel /\ currentConfig' = frame[c].originalConfig

SetStateOutcome ==
  [][\A c \in Callers : pc[c] # "ready" /\ pc'[c] = "ready" => Outcome(c)]_vars

(* Every call of setState comes back, however the service behaves: the only  *)
(* wait, for an instance of the service, is bounded.                         *)
CallsReturn == \A c \in Callers : pc[c] # "ready" ~> pc[c] = "ready"
-----------------------------------------------------------------------------
(* The inductive invariant behind the properties of SerialSpec *)

Down == /\ currentTunnel = NULL /\ currentConfig = NULL /\ currentTunnelHandle = NoHandle
        /\ \A h \in Handles : tunnelHandles[h] = NULL

Up == /\ currentTunnel # NULL /\ currentConfig # NULL /\ currentTunnelHandle # NoHandle
      /\ \A h \in Handles :
           tunnelHandles[h] = IF h = currentTunnelHandle THEN currentConfig ELSE NULL

(* What holds while nobody is inside setState, by the progress of onDestroy. *)
IdleInv ==
  \/ service # "clear" /\ Down /\ ~connected
  \/ service # "clear" /\ Up /\ connected
  \/ service = "clear" /\ \A h \in Handles : tunnelHandles[h] = NULL

(* What holds while c is inside setState, by where it is. *)
CallInv(c) ==
  /\ pc[c] # "stale"
  /\ frame[c].tunnel # NULL
  /\ frame[c].stage \in {"switch", "rollback"} => frame[c].originalTunnel # NULL
  /\ pc[c] \in {"authorize", "getService", "await", "attach", "establish", "turnOn", "publish"}
       => frame[c].stage \in {"up", "rollback"}
  /\ pc[c] \in {"close", "turnOff", "stop"} => frame[c].stage \in {"switch", "down"}
  /\ pc[c] \in {"getService", "await", "attach", "establish", "turnOn", "publish"}
       => InternalConfig(c) # NULL
  /\ pc[c] \in {"authorize", "getService", "await", "attach", "establish", "turnOn"}
       => Down /\ ~connected
  /\ pc[c] = "publish" =>
       /\ currentTunnel = NULL /\ currentConfig = NULL /\ ~connected
       /\ \A h \in Handles : tunnelHandles[h] =
            IF h = currentTunnelHandle THEN InternalConfig(c) ELSE NULL
  /\ pc[c] = "close" => Up
  /\ pc[c] = "turnOff" =>
       /\ currentTunnel = NULL /\ currentConfig = NULL /\ currentTunnelHandle = NoHandle
       /\ \A h \in Handles : h # frame[c].handleToClose => tunnelHandles[h] = NULL
  /\ pc[c] = "stop" => Down
  /\ pc[c] = "notify" /\ InternalState(c) = "DOWN" => Down
  /\ pc[c] = "notify" /\ InternalState(c) = "UP" =>
       Up /\ currentTunnel = InternalTunnel(c) /\ currentConfig = InternalConfig(c)

(* The state of GoBackend, of the handle table and of the listener is fixed  *)
(* by where the one active thread is.                                        *)
SerialInv ==
  /\ Exclusive
  /\ (\A c \in Callers : pc[c] = "ready") => IdleInv
  /\ \A c \in Callers : pc[c] # "ready" => CallInv(c)

-----------------------------------------------------------------------------
(* GoBackend as an implementation of the Backend interface *)

upView == IF currentTunnel = NULL THEN {} ELSE {<<currentTunnel, currentConfig>>}

activeView == {c \in Callers : pc[c] # "ready"}

goalView == [c \in Callers |->
  IF pc[c] = "ready" \/ frame[c].stage = "down" THEN {}
  ELSE {<<frame[c].tunnel, frame[c].config>>}]

beforeView == [c \in Callers |->
  IF pc[c] = "ready" \/ frame[c].originalTunnel = NULL THEN {}
  ELSE {<<frame[c].originalTunnel, frame[c].originalConfig>>}]

Contract == INSTANCE Backend
  WITH Multiple <- FALSE, up <- upView, active <- activeView, goal <- goalView, before <- beforeView

(* With calls that do not overlap, setState with its switch, its restore and *)
(* the service's death is a Backend: no tunnel that nobody asked for ever    *)
(* comes up, and a call ends with its goal reached or as it began or with    *)
(* nothing up.                                                               *)
ImplementsBackend == Contract!Spec

=============================================================================

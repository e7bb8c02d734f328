--------------------------- MODULE WireGuardBackend ---------------------------
(***************************************************************************)
(* The app's singleton uk.co.aiovpn.android.vpn.backend.WireGuardBackend on *)
(* top of GoBackend: connect, retryConnectionAfterPermission and disconnect *)
(* run on the threads of Dispatchers.IO (Callers) with no lock.             *)
(*                                                                         *)
(* GoBackend's variable connected is what the last onStateChange said;      *)
(* isConnected is the AtomicBoolean that both the listener and connect and  *)
(* disconnect write.  Configuration texts are model values, and every parse *)
(* makes a new Config object.                                               *)
(***************************************************************************)
EXTENDS GoBackend

CONSTANTS
  Texts,    \* configuration texts of the server
  TextOf    \* the text each Config object was parsed from

ASSUME TextAssumption == TextOf \in [Configs -> Texts] /\ NULL \notin Texts

VARIABLES
  tunnel,              \* WireGuardBackend.tunnel
  pendingConfig,       \* WireGuardBackend.pendingConfig
  permissionCallback,  \* an activity has registered a callback
  isConnected,         \* WireGuardBackend.connected
  wpc,                 \* where each caller is in connect or disconnect
  local,               \* its local variables
  outcome              \* how the last call ended

appVars == <<tunnel, pendingConfig, permissionCallback, isConnected, wpc, local, outcome>>
wvars == <<vars, appVars>>

WLabel == {"idle", "prepare", "pick", "store", "setUp", "up", "setDown", "down"}

Locals == [tunnel : Tunnels \cup {NULL}, text : Texts \cup {NULL}, config : Configs \cup {NULL}]
NoLocals == [tunnel |-> NULL, text |-> NULL, config |-> NULL]

(* Every variable of WireGuardBackend has a value of its type. *)
WTypeOK ==
  /\ tunnel \in Tunnels \cup {NULL}
  /\ pendingConfig \in Texts \cup {NULL}
  /\ permissionCallback \in BOOLEAN
  /\ isConnected \in BOOLEAN
  /\ wpc \in [Callers -> WLabel]
  /\ local \in [Callers -> Locals]
  /\ outcome \in {"none", "connected", "asked", "failed", "disconnected"}

WInit ==
  /\ Init
  /\ tunnel = NULL /\ pendingConfig = NULL /\ permissionCallback = FALSE
  /\ isConnected = FALSE
  /\ wpc = [c \in Callers |-> "idle"]
  /\ local = [c \in Callers |-> NoLocals]
  /\ outcome = "none"

WGoto(c, label) == wpc' = [wpc EXCEPT ![c] = label]

WLeave(c, o) ==
  /\ WGoto(c, "idle")
  /\ local' = [local EXCEPT ![c] = NoLocals]
  /\ outcome' = o

SetLocals(c, t, x, g) == local' = [local EXCEPT ![c] = [tunnel |-> t, text |-> x, config |-> g]]

(* Objects nothing refers to: what a constructor returns. *)
NewTunnel(t) ==
  /\ t # tunnel /\ t # currentTunnel
  /\ \A c \in Callers : t \notin {local[c].tunnel, frame[c].tunnel, frame[c].originalTunnel}
NewConfig(g) ==
  /\ g # currentConfig
  /\ \A c \in Callers : g \notin {local[c].config, frame[c].config, frame[c].originalConfig}

-----------------------------------------------------------------------------
setPermissionCallback ==
  /\ permissionCallback' = ~permissionCallback
  /\ UNCHANGED <<vars, tunnel, pendingConfig, isConnected, wpc, local, outcome>>

Connect(c, x) ==
  /\ wpc[c] = "idle"
  /\ WGoto(c, "prepare") /\ SetLocals(c, NULL, x, NULL)
  /\ UNCHANGED <<vars, tunnel, pendingConfig, permissionCallback, isConnected, outcome>>

(* retryConnectionAfterPermission; with nothing pending it does nothing.    *)
Retry(c) ==
  /\ wpc[c] = "idle"
  /\ pendingConfig # NULL
  /\ WGoto(c, "prepare") /\ SetLocals(c, NULL, pendingConfig, NULL)
  /\ pendingConfig' = NULL
  /\ UNCHANGED <<vars, tunnel, permissionCallback, isConnected, outcome>>

(* Without consent the text is kept, the callback is told, if there is one, *)
(* and connect returns normally.  The parser may reject the text.           *)
Prepare(c) ==
  /\ wpc[c] = "prepare"
  /\ \/ /\ ~permitted
        /\ pendingConfig' = local[c].text
        /\ WLeave(c, IF permissionCallback THEN "asked" ELSE "failed")
     \/ permitted /\ WLeave(c, "failed") /\ UNCHANGED pendingConfig
     \/ /\ permitted
        /\ \E g \in Configs : /\ NewConfig(g) /\ TextOf[g] = local[c].text
                              /\ SetLocals(c, NULL, local[c].text, g)
        /\ WGoto(c, "pick") /\ UNCHANGED <<pendingConfig, outcome>>
  /\ UNCHANGED <<vars, tunnel, permissionCallback, isConnected>>

PickTunnel(c) ==
  /\ wpc[c] = "pick"
  /\ \/ /\ tunnel # NULL
        /\ SetLocals(c, tunnel, local[c].text, local[c].config) /\ WGoto(c, "setUp")
     \/ /\ tunnel = NULL
        /\ \E t \in Tunnels : NewTunnel(t) /\ SetLocals(c, t, local[c].text, local[c].config)
        /\ WGoto(c, "store")
  /\ UNCHANGED <<vars, tunnel, pendingConfig, permissionCallback, isConnected, outcome>>

StoreTunnel(c) ==
  /\ wpc[c] = "store"
  /\ tunnel' = local[c].tunnel
  /\ WGoto(c, "setUp")
  /\ UNCHANGED <<vars, pendingConfig, permissionCallback, isConnected, local, outcome>>

(* The Config is new, so setState never takes its early return here.        *)
CallUp(c) ==
  /\ wpc[c] = "setUp"
  /\ SetStateUp(c, local[c].tunnel, "UP", local[c].config)
  /\ WGoto(c, "up")
  /\ UNCHANGED <<tunnel, pendingConfig, permissionCallback, isConnected, local, outcome>>

(* A step of GoBackend; its notification reaches the tunnel's listener.     *)
InSetState(c) ==
  /\ wpc[c] \in {"up", "down"}
  /\ Step(c)
  /\ isConnected' = IF pc[c] = "notify" THEN connected' ELSE isConnected
  /\ UNCHANGED <<tunnel, pendingConfig, permissionCallback, wpc, local, outcome>>

(* Mutant: a failed connect also drops the tunnel. *)
UpReturnsDrops(c) ==
  /\ wpc[c] = "up" /\ pc[c] = "ready"
  /\ \/ /\ result[c] = "ok" /\ UNCHANGED tunnel
        /\ isConnected' = TRUE /\ pendingConfig' = NULL /\ WLeave(c, "connected")
     \/ /\ result[c] = "exception" /\ tunnel' = NULL
        /\ isConnected' = FALSE /\ WLeave(c, "failed") /\ UNCHANGED pendingConfig
  /\ UNCHANGED <<vars, permissionCallback>>

UpReturns(c) ==
  /\ wpc[c] = "up" /\ pc[c] = "ready"
  /\ \/ /\ result[c] = "ok"
        /\ isConnected' = TRUE /\ pendingConfig' = NULL /\ WLeave(c, "connected")
     \/ /\ result[c] = "exception"
        /\ isConnected' = FALSE /\ WLeave(c, "failed") /\ UNCHANGED pendingConfig
  /\ UNCHANGED <<vars, tunnel, permissionCallback>>

Disconnect(c) ==
  /\ wpc[c] = "idle"
  /\ SetLocals(c, tunnel, NULL, NULL) /\ WGoto(c, "setDown")
  /\ UNCHANGED <<vars, tunnel, pendingConfig, permissionCallback, isConnected, outcome>>

(* Mutant: disconnect trusts the flag. *)
DisconnectNothingByFlag(c) ==
  /\ wpc[c] = "setDown"
  /\ local[c].tunnel = NULL \/ ~isConnected
  /\ isConnected' = FALSE /\ WLeave(c, "disconnected")
  /\ UNCHANGED <<vars, tunnel, pendingConfig, permissionCallback>>

(* There was no tunnel to take down. *)
DisconnectNothing(c) ==
  /\ wpc[c] = "setDown"
  /\ local[c].tunnel = NULL
  /\ isConnected' = FALSE /\ WLeave(c, "disconnected")
  /\ UNCHANGED <<vars, tunnel, pendingConfig, permissionCallback>>

CallDown(c) ==
  /\ wpc[c] = "setDown"
  /\ local[c].tunnel # NULL
  /\ \/ SetStateNothing(c, local[c].tunnel, "DOWN", NULL)
     \/ SetStateDown(c, local[c].tunnel, "DOWN", NULL)
  /\ WGoto(c, "down")
  /\ UNCHANGED <<tunnel, pendingConfig, permissionCallback, isConnected, local, outcome>>

DownReturns(c) ==
  /\ wpc[c] = "down" /\ pc[c] = "ready"
  /\ isConnected' = FALSE /\ tunnel' = NULL
  /\ WLeave(c, IF result[c] = "ok" THEN "disconnected" ELSE "failed")
  /\ UNCHANGED <<vars, pendingConfig, permissionCallback>>

(* Mutant: the tunnel has no listener. *)
OutsideUnheard ==
  /\ Service \/ Platform
  /\ UNCHANGED appVars

(* The service and the platform; onDestroy tells the listener too.          *)
Outside ==
  /\ Service \/ Platform
  /\ isConnected' = IF service = "clear" THEN FALSE ELSE isConnected
  /\ UNCHANGED <<tunnel, pendingConfig, permissionCallback, wpc, local, outcome>>

CallerStep(c) ==
  \/ Prepare(c) \/ PickTunnel(c) \/ StoreTunnel(c) \/ CallUp(c) \/ InSetState(c)
  \/ UpReturns(c) \/ DisconnectNothing(c) \/ CallDown(c) \/ DownReturns(c)

WNext ==
  \/ \E c \in Callers :
       (\E x \in Texts : Connect(c, x)) \/ Retry(c) \/ Disconnect(c) \/ CallerStep(c)
  \/ setPermissionCallback
  \/ Outside

WSpec == WInit /\ [][WNext]_wvars

(* One call of connect or disconnect at a time, and onDestroy only between   *)
(* calls.                                                                    *)
WExclusive ==
  /\ \A c, d \in Callers : wpc[c] # "idle" /\ wpc[d] # "idle" => c = d
  /\ service \in {"turnOff", "clear", "replace"} => \A c \in Callers : wpc[c] = "idle"

WSerialSpec == WInit /\ [][WNext /\ WExclusive']_wvars

-----------------------------------------------------------------------------
(* Correctness *)

WQuiet == /\ \A c \in Callers : wpc[c] = "idle"
          /\ service \in {"none", "alive"}

(* Between calls the tunnel that is up is the one disconnect would take     *)
(* down: connect never loses its BasicTunnel, not even through a failed     *)
(* switch or the service's death.                                           *)
TunnelOwned == WQuiet /\ currentTunnel # NULL => tunnel = currentTunnel

(* Between calls isConnected() is not stale: what it reports connected has  *)
(* a device.  (The converse does not hold: connect's catch clears the flag  *)
(* after setState has restored the previous tunnel.)                        *)
ConnectedIsUp == WQuiet /\ isConnected => currentTunnel # NULL /\ Running # {}

(* A connect that returns after setState runs exactly the configuration its *)
(* caller, or the pending request it retried, asked for; a disconnect that  *)
(* returns leaves no device.                                                *)
CallOutcome(c) ==
  /\ outcome' = "connected" =>
       /\ isConnected' /\ tunnel' = currentTunnel' /\ currentTunnel' # NULL
       /\ \E h \in Running' : TextOf[tunnelHandles'[h]] = local[c].text
  /\ outcome' = "disconnected" => ~isConnected' /\ tunnel' = NULL /\ Running' = {}

CallOutcomes ==
  [][\A c \in Callers : wpc[c] # "idle" /\ wpc'[c] = "idle" => CallOutcome(c)]_wvars

-----------------------------------------------------------------------------
(* The inductive invariant behind the properties of WSerialSpec *)

(* What the locals of a caller inside connect or disconnect are worth.      *)
LocalInv(c) ==
  /\ wpc[c] \in {"prepare", "pick", "store", "setUp", "up"} => local[c].text # NULL
  /\ wpc[c] \in {"pick", "store", "setUp", "up"} =>
       local[c].config # NULL /\ TextOf[local[c].config] = local[c].text
  /\ wpc[c] = "store" => tunnel = NULL /\ local[c].tunnel # NULL
  /\ wpc[c] \in {"setUp", "up", "down"} => local[c].tunnel # NULL
  /\ wpc[c] \in {"setUp", "up", "setDown", "down"} => local[c].tunnel = tunnel

(* How GoBackend's call relates to them, while it runs and when it is over. *)
NestedInv(c) ==
  /\ pc[c] # "ready" => wpc[c] \in {"up", "down"}
  /\ wpc[c] = "up" /\ pc[c] # "ready" =>
       /\ frame[c].stage # "down"
       /\ frame[c].tunnel = tunnel /\ frame[c].config = local[c].config
       /\ frame[c].originalTunnel \in {NULL, tunnel}
  /\ wpc[c] = "down" /\ pc[c] # "ready" => frame[c].stage = "down"
  /\ wpc[c] = "up" /\ pc[c] = "ready" =>
       /\ result[c] \in {"ok", "exception"}
       /\ result[c] = "ok" => currentTunnel = tunnel /\ currentConfig = local[c].config
  /\ wpc[c] = "down" /\ pc[c] = "ready" => currentTunnel = NULL

(* With it: no caller disturbs another, the tunnel that is up is the one in  *)
(* the field, and isConnected is never up when the listener was told DOWN.   *)
WInv ==
  /\ WExclusive
  /\ \A c \in Callers : LocalInv(c) /\ NestedInv(c)
  /\ currentTunnel # NULL => tunnel = currentTunnel
  /\ isConnected => connected

=============================================================================

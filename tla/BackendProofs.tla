---------------------------- MODULE BackendProofs ----------------------------
(***************************************************************************)
(* Proofs about GoBackend, for any sets of callers, tunnels and            *)
(* configurations and any size of the handle table; that it implements the *)
(* Backend interface; and about the WireGuardBackend of the app on top of  *)
(* it.                                                                     *)
(***************************************************************************)
EXTENDS WireGuardBackend, TLAPS

(* Leaves are for Zenon, and for the SMT solver where they say so.          *)
USE Zenon

(* The ways a call of setStateInternal ends keep the types of the callers'  *)
(* control state.                                                           *)
LEMMA ControlTypes ==
  ASSUME CallTypeOK, NEW c \in Callers
  PROVE  /\ Returned(c) => CallTypeOK'
         /\ Threw(c) => CallTypeOK'
         /\ \A l \in Label : Goto(c, l) /\ UNCHANGED <<frame, result>> => CallTypeOK'
  <1>1. NoFrame \in Frames
    BY DEF NoFrame, Frames, Stage
  <1>2. \A s \in Stage : SetStage(c, s) => frame' \in [Callers -> Frames]
    <2> TAKE s \in Stage
    <2>1. frame[c] \in Frames
      BY DEF CallTypeOK
    <2>2. [frame[c] EXCEPT !.stage = s] \in Frames
      BY <2>1 DEF Frames
    <2>3. SetStage(c, s) => frame' = [frame EXCEPT ![c] = [frame[c] EXCEPT !.stage = s]]
      BY <2>1 DEF SetStage, CallTypeOK, Frames
    <2>4. QED
      BY <2>2, <2>3 DEF CallTypeOK
  <1>3. ASSUME NEW o \in {"ok", "exception"}, Leave(c, o)  PROVE CallTypeOK'
    BY <1>1, <1>3 DEF Leave, Goto, CallTypeOK, Label
  <1>4. QED
    BY <1>1, <1>2, <1>3, SMT DEF Returned, Threw, Goto, CallTypeOK, Label, Stage

(* Every variable keeps a value of its type in every step of the code.      *)
LEMMA TypeStep == TypeOK /\ [Next]_vars => TypeOK'
  <1> SUFFICES ASSUME TypeOK, [Next]_vars  PROVE TypeOK'
    OBVIOUS
  <1> USE DEF TypeOK
  <1>1. ASSUME NEW c \in Callers, SetState(c)  PROVE TypeOK'
    <2>1. PICK t \in Tunnels, g \in Configs \cup {NULL}, s \in {"UP", "DOWN", "TOGGLE"} :
            SetStateNothing(c, t, s, g) \/ SetStateUp(c, t, s, g) \/ SetStateDown(c, t, s, g)
      BY <1>1 DEF SetState
    <2>2. NoFrame \in Frames /\ \A x \in Stage : Call(t, g, x) \in Frames
      BY DEF NoFrame, Call, Frames, Stage, StateTypeOK
    <2>3. CallTypeOK'
      BY <2>1, <2>2, SMT DEF SetStateNothing, SetStateUp, SetStateDown, Leave, Goto,
                        CallTypeOK, Label, Stage
    <2>4. StateTypeOK'
      BY <2>1 DEF SetStateNothing, SetStateUp, SetStateDown, backendVars, serviceVars, StateTypeOK
    <2>5. QED
      BY <2>3, <2>4
  <1>2. ASSUME NEW c \in Callers, Step(c)  PROVE TypeOK'
    <2>0. /\ frame[c] \in Frames
          /\ InternalConfig(c) \in Configs \cup {NULL}
          /\ InternalTunnel(c) \in Tunnels \cup {NULL}
      BY DEF CallTypeOK, Frames, InternalConfig, InternalTunnel
    <2>1. CASE Authorize(c)
      BY <2>1, ControlTypes DEF Authorize, FutureDone, StateTypeOK, backendVars, Label
    <2>2. CASE GetService(c)
      BY <2>2, ControlTypes DEF GetService, StateTypeOK, backendVars, serviceVars, Label
    <2>3. CASE ServiceTimeout(c)
      BY <2>3, ControlTypes DEF ServiceTimeout, StateTypeOK, backendVars, serviceVars
    <2>4. CASE Attach(c)
      BY <2>4, ControlTypes DEF Attach, FutureDone, StateTypeOK, backendVars, Label
    <2>5. CASE Establish(c)
      BY <2>5, ControlTypes, ZenonT(40) DEF Establish, StateTypeOK, backendVars, Label
    <2>6. CASE TurnOn(c)
      BY <2>0, <2>6, ControlTypes DEF TurnOn, StateTypeOK, serviceVars, Label
    <2>7. CASE Publish(c)
      BY <2>0, <2>7, ControlTypes DEF Publish, StateTypeOK, backendVars, serviceVars, Label
    <2>8. CASE Close(c)
      <3>1. frame' = [frame EXCEPT ![c].handleToClose = currentTunnelHandle]
              => frame' \in [Callers -> Frames]
        <4>1. [frame[c] EXCEPT !.handleToClose = currentTunnelHandle] \in Frames
          BY <2>0 DEF Frames, StateTypeOK
        <4>2. [frame EXCEPT ![c].handleToClose = currentTunnelHandle]
                = [frame EXCEPT ![c] = [frame[c] EXCEPT !.handleToClose = currentTunnelHandle]]
          BY <2>0 DEF CallTypeOK, Frames
        <4>3. QED
          BY <4>1, <4>2 DEF CallTypeOK
      <3>2. StateTypeOK'
        BY <2>8 DEF Close, StateTypeOK, backendVars, serviceVars
      <3>3. CallTypeOK'
        BY <2>8, <3>1, ControlTypes DEF Close, Goto, CallTypeOK, Label
      <3>4. QED
        BY <3>2, <3>3
    <2>9. CASE TurnOff(c)
      BY <2>9, ControlTypes DEF TurnOff, wgTurnOff, StateTypeOK, backendVars, serviceVars, Label
    <2>10. CASE StopSelf(c)
      BY <2>10, ControlTypes DEF StopSelf, FutureDone, StateTypeOK, backendVars, Label
    <2>11. CASE Notify(c)
      BY <2>11, ControlTypes DEF Notify, InternalState, StateTypeOK, backendVars, serviceVars
    <2>12. QED
      BY <1>2, <2>1, <2>2, <2>3, <2>4, <2>5, <2>6, <2>7, <2>8, <2>9, <2>10, <2>11 DEF Step
  <1>3. ASSUME Service  PROVE TypeOK'
    <2>1. CASE OnCreate
      BY <2>1, ZenonT(40) DEF OnCreate, StateTypeOK, CallTypeOK, backendVars, ServiceState, Label
    <2>2. CASE OnDestroy
      BY <2>2 DEF OnDestroy, StateTypeOK, CallTypeOK, backendVars, callVars, ServiceState
    <2>3. CASE OnDestroyTurnOff
      BY <2>3 DEF OnDestroyTurnOff, wgTurnOff, StateTypeOK, CallTypeOK, backendVars, callVars,
                  ServiceState
    <2>4. CASE OnDestroyClear
      BY <2>4 DEF OnDestroyClear, StateTypeOK, CallTypeOK, callVars, ServiceState
    <2>5. CASE OnDestroyReplace
      BY <2>5 DEF OnDestroyReplace, StateTypeOK, CallTypeOK, backendVars, ServiceState, Label
    <2>6. QED
      BY <1>3, <2>1, <2>2, <2>3, <2>4, <2>5 DEF Service
  <1>4. ASSUME Platform  PROVE TypeOK'
    BY <1>4, ZenonT(40) DEF Platform, Revoke, Grant, AlwaysOnStart, StateTypeOK, CallTypeOK, backendVars,
                serviceVars, callVars
  <1>5. CASE UNCHANGED vars
    BY <1>5 DEF vars, StateTypeOK, CallTypeOK, backendVars, serviceVars, callVars
  <1>6. QED
    BY <1>1, <1>2, <1>3, <1>4, <1>5 DEF Next

LEMMA TypeInit == Init => TypeOK
  <1>1. NoFrame \in Frames
    BY DEF NoFrame, Frames, Stage
  <1>2. QED
    BY <1>1, ZenonT(40) DEF Init, TypeOK, StateTypeOK, CallTypeOK, ServiceState, Label

(* Types hold in every behaviour of the code, however its threads           *)
(* interleave.                                                              *)
THEOREM TypeCorrect == Spec => []TypeOK
  BY TypeInit, TypeStep, PTL DEF Spec

-----------------------------------------------------------------------------
(* Facts about the control state that the invariance proof cites *)

LEMMA SetStageFact ==
  ASSUME CallTypeOK, NEW c \in Callers, NEW s \in Stage, SetStage(c, s)
  PROVE  /\ frame'[c].stage = s
         /\ frame'[c].tunnel = frame[c].tunnel /\ frame'[c].config = frame[c].config
         /\ frame'[c].originalTunnel = frame[c].originalTunnel
         /\ frame'[c].originalConfig = frame[c].originalConfig
  BY DEF SetStage, CallTypeOK, Frames

(* While c is inside setState under SerialSpec every other caller is        *)
(* outside, and stays outside when c moves.                                 *)
LEMMA OthersReady ==
  ASSUME TypeOK, Exclusive, NEW c \in Callers, pc[c] # "ready",
         NEW l \in Label, Goto(c, l)
  PROVE  /\ \A d \in Callers \ {c} : pc[d] = "ready" /\ pc'[d] = "ready"
         /\ pc'[c] = l
         /\ service \in {"none", "alive"}
  BY DEF Exclusive, Goto, TypeOK, StateTypeOK, CallTypeOK, ServiceState

(* A failed setStateInternal leaves everything down: setState then either   *)
(* leaves or begins the restore, and the invariant holds there.             *)
LEMMA ThrewDown ==
  ASSUME TypeOK, SerialInv, NEW c \in Callers, pc[c] # "ready", Exclusive',
         CallInv(c), frame[c].stage \in {"up", "rollback"}, Threw(c),
         Down', ~connected', service' # "clear"
  PROVE  SerialInv'
  <1>1. CASE Leave(c, "exception")
    <2>1. \A d \in Callers : pc'[d] = "ready"
      BY <1>1 DEF Leave, Goto, SerialInv, Exclusive, TypeOK, CallTypeOK
    <2>2. QED
      BY <2>1 DEF SerialInv, IdleInv
  <1>2. CASE /\ frame[c].stage = "up" /\ frame[c].originalTunnel # NULL
             /\ Goto(c, "authorize") /\ SetStage(c, "rollback")
    <2>1. /\ frame'[c].stage = "rollback"
          /\ frame'[c].tunnel = frame[c].tunnel
          /\ frame'[c].originalTunnel = frame[c].originalTunnel
      BY <1>2, SetStageFact DEF TypeOK, Stage
    <2>2. pc'[c] = "authorize" /\ \A d \in Callers \ {c} : pc'[d] = "ready"
      BY <1>2, OthersReady DEF TypeOK, SerialInv, Label
    <2>3. CallInv(c)'
      BY <1>2, <2>1, <2>2 DEF CallInv, Down
    <2>4. QED
      BY <2>2, <2>3 DEF SerialInv
  <1>3. QED
    BY <1>1, <1>2 DEF Threw

(* setStateInternal returned: the same for the three ways setState goes on. *)
LEMMA ReturnedInv ==
  ASSUME TypeOK, SerialInv, NEW c \in Callers, pc[c] # "ready", Exclusive',
         CallInv(c), Returned(c), service' # "clear",
         frame[c].stage \in {"switch", "down"} => Down' /\ ~connected',
         frame[c].stage \in {"up", "rollback"} => Up' /\ connected'
  PROVE  SerialInv'
  <1>0. frame[c].stage \in Stage
    BY DEF TypeOK, CallTypeOK, Frames
  <1>1. ASSUME NEW o, Leave(c, o)  PROVE SerialInv'
    <2>1. \A d \in Callers : pc'[d] = "ready"
      BY <1>1 DEF Leave, Goto, SerialInv, Exclusive, TypeOK, CallTypeOK
    <2>2. (Down' /\ ~connected') \/ (Up' /\ connected')
      BY <1>0 DEF Stage
    <2>3. QED
      BY <2>1, <2>2 DEF SerialInv, IdleInv
  <1>2. CASE frame[c].stage = "switch" /\ Goto(c, "authorize") /\ SetStage(c, "up")
    <2>1. frame'[c].stage = "up" /\ frame'[c].tunnel = frame[c].tunnel
      BY <1>2, SetStageFact DEF TypeOK, Stage
    <2>2. pc'[c] = "authorize" /\ \A d \in Callers \ {c} : pc'[d] = "ready"
      BY <1>2, OthersReady DEF SerialInv, Label
    <2>3. CallInv(c)'
      BY <1>2, <2>1, <2>2 DEF CallInv, Down
    <2>4. QED
      BY <2>2, <2>3 DEF SerialInv
  <1>3. QED
    BY <1>1, <1>2 DEF Returned

(* A step inside setState that keeps the frame and moves on needs only the  *)
(* invariant at its next label.                                             *)
LEMMA MoveInv ==
  ASSUME TypeOK, SerialInv, NEW c \in Callers, pc[c] # "ready", Exclusive',
         NEW l \in Label \ {"ready"}, Goto(c, l), CallInv(c)'
  PROVE  SerialInv'
  BY OthersReady DEF SerialInv

(* The invariant is kept by a step of a caller inside setState.             *)
LEMMA SerialStep ==
  ASSUME TypeOK, TypeOK', SerialInv, Exclusive', NEW c \in Callers, Step(c)
  PROVE  SerialInv'
  <1>0. /\ frame[c] \in Frames /\ pc[c] \in Label
        /\ service \in ServiceState
    BY DEF TypeOK, CallTypeOK, StateTypeOK
  <1>1. pc[c] # "ready" /\ CallInv(c) /\ service \in {"none", "alive"}
    BY <1>0 DEF Step, Authorize, GetService, ServiceTimeout, Attach, Establish, TurnOn, Publish,
                Close, TurnOff, StopSelf, Notify, SerialInv, Exclusive, ServiceState
  <1>2. CASE Authorize(c)
    <2>1. Down' /\ ~connected' /\ service' # "clear"
      BY <1>1, <1>2 DEF Authorize, CallInv, Down, backendVars
    <2>2. CASE Threw(c)
      BY <1>1, <1>2, <2>1, <2>2, ThrewDown DEF Authorize, CallInv
    <2>3. CASE InternalConfig(c) # NULL /\ Goto(c, "getService") /\ UNCHANGED <<frame, result>>
      <3>1. CallInv(c)'
        BY <1>0, <1>1, <1>2, <2>1, <2>3 DEF Authorize, Goto, CallInv, InternalConfig, TypeOK, CallTypeOK
      <3>2. QED
        BY <1>1, <2>3, <3>1, MoveInv DEF Label
    <2>4. QED
      BY <1>2, <2>2, <2>3 DEF Authorize
  <1>3. CASE GetService(c)
    <2>1. Down' /\ ~connected'
      BY <1>1, <1>3 DEF GetService, CallInv, Down, backendVars
    <2>2. \E l \in {"attach", "await"} : Goto(c, l) /\ CallInv(c)'
      BY <1>1, <1>3, <2>1 DEF GetService, Goto, CallInv, InternalConfig, TypeOK, CallTypeOK
    <2>3. QED
      BY <1>1, <2>2, MoveInv DEF Label
  <1>4. CASE ServiceTimeout(c)
    <2>1. Down' /\ ~connected' /\ service' # "clear"
      BY <1>1, <1>4 DEF ServiceTimeout, CallInv, Down, backendVars, serviceVars
    <2>2. QED
      BY <1>1, <1>4, <2>1, ThrewDown DEF ServiceTimeout, CallInv
  <1>5. CASE Attach(c)
    <2>1. Down' /\ ~connected' /\ currentTunnelHandle = NoHandle
      BY <1>1, <1>5 DEF Attach, CallInv, Down, backendVars
    <2>2. Goto(c, "establish") /\ CallInv(c)'
      BY <1>1, <1>5, <2>1 DEF Attach, Goto, CallInv, InternalConfig, TypeOK, CallTypeOK
    <2>3. QED
      BY <1>1, <2>2, MoveInv DEF Label
  <1>6. CASE Establish(c)
    <2>1. Down' /\ ~connected' /\ service' # "clear"
      BY <1>1, <1>6 DEF Establish, CallInv, Down, backendVars
    <2>2. CASE Threw(c)
      BY <1>1, <1>6, <2>1, <2>2, ThrewDown DEF Establish, CallInv
    <2>3. CASE Goto(c, "turnOn") /\ UNCHANGED <<frame, result>>
      <3>1. CallInv(c)'
        BY <1>1, <1>6, <2>1, <2>3 DEF Establish, Goto, CallInv, InternalConfig, TypeOK, CallTypeOK
      <3>2. QED
        BY <1>1, <2>3, <3>1, MoveInv DEF Label
    <2>4. QED
      BY <1>6, <2>2, <2>3 DEF Establish
  <1>7. CASE TurnOn(c)
    <2>1. /\ currentTunnel' = NULL /\ currentConfig' = NULL /\ ~connected'
          /\ \A h \in Handles : tunnelHandles'[h] =
               IF h = currentTunnelHandle' THEN InternalConfig(c) ELSE NULL
      <3>1. Down /\ ~connected
        BY <1>1, <1>7 DEF TurnOn, CallInv
      <3>2. CASE currentTunnelHandle' = NoHandle /\ UNCHANGED tunnelHandles
        BY <1>7, <3>1, <3>2, HandlesAssumption, SMT DEF TurnOn, Down, NoHandle, Handles
      <3>3. CASE \E h \in Handles :
                   /\ tunnelHandles' = [tunnelHandles EXCEPT ![h] = InternalConfig(c)]
                   /\ currentTunnelHandle' = h
        BY <1>7, <3>1, <3>3 DEF TurnOn, Down, TypeOK, StateTypeOK
      <3>4. QED
        BY <1>7, <3>2, <3>3 DEF TurnOn
    <2>2. Goto(c, "publish") /\ CallInv(c)'
      BY <1>1, <1>7, <2>1 DEF TurnOn, Goto, CallInv, InternalConfig, TypeOK, CallTypeOK
    <2>3. QED
      BY <1>1, <2>2, MoveInv DEF Label
  <1>8. CASE Publish(c)
    <2>1. CASE currentTunnelHandle = NoHandle /\ Threw(c) /\ UNCHANGED backendVars
      <3>1. Down' /\ ~connected' /\ service' # "clear"
        BY <1>1, <1>8, <2>1, HandlesAssumption, SMT
           DEF Publish, CallInv, Down, backendVars, serviceVars, NoHandle, Handles
      <3>2. QED
        BY <1>1, <1>8, <2>1, <3>1, ThrewDown DEF Publish, CallInv
    <2>2. CASE /\ currentTunnelHandle # NoHandle
               /\ currentTunnel' = InternalTunnel(c) /\ currentConfig' = InternalConfig(c)
               /\ Goto(c, "notify") /\ UNCHANGED <<currentTunnelHandle, frame, result>>
      <3>1. /\ InternalTunnel(c)' = InternalTunnel(c) /\ InternalConfig(c)' = InternalConfig(c)
            /\ InternalState(c)' = "UP" /\ InternalTunnel(c) # NULL
        BY <1>1, <1>8, <2>2 DEF Publish, CallInv, InternalTunnel, InternalConfig, InternalState
      <3>2. Up'
        BY <1>1, <1>8, <2>2, <3>1 DEF Publish, CallInv, Up
      <3>3. CallInv(c)'
        BY <1>1, <1>8, <2>2, <3>1, <3>2 DEF Publish, Goto, CallInv, TypeOK, CallTypeOK
      <3>4. QED
        BY <1>1, <2>2, <3>3, MoveInv DEF Label
    <2>3. QED
      BY <1>8, <2>1, <2>2 DEF Publish
  <1>9. CASE Close(c)
    <2>1. Up /\ currentTunnelHandle # NoHandle
      BY <1>1, <1>9 DEF Close, CallInv, Up
    <2>2. /\ frame' = [frame EXCEPT ![c].handleToClose = currentTunnelHandle]
          /\ currentTunnel' = NULL /\ currentTunnelHandle' = NoHandle /\ currentConfig' = NULL
          /\ Goto(c, "turnOff") /\ UNCHANGED tunnelHandles
      BY <1>9, <2>1 DEF Close
    <2>3. /\ frame'[c].handleToClose = currentTunnelHandle
          /\ frame'[c].tunnel = frame[c].tunnel /\ frame'[c].stage = frame[c].stage
          /\ frame'[c].originalTunnel = frame[c].originalTunnel
      BY <1>0, <2>2 DEF TypeOK, CallTypeOK, Frames
    <2>4. \A h \in Handles : h # frame'[c].handleToClose => tunnelHandles'[h] = NULL
      BY <2>1, <2>2, <2>3 DEF Up
    <2>5. pc'[c] = "turnOff"
      BY <2>2 DEF Goto, TypeOK, CallTypeOK
    <2>6. CallInv(c)'
      BY <1>1, <1>9, <2>2, <2>3, <2>4, <2>5 DEF Close, CallInv
    <2>7. QED
      BY <1>1, <2>2, <2>6, MoveInv DEF Label
  <1>10. CASE TurnOff(c)
    <2>1. Down'
      BY <1>1, <1>10 DEF TurnOff, wgTurnOff, CallInv, Down, backendVars
    <2>2. Goto(c, "stop") /\ CallInv(c)'
      BY <1>1, <1>10, <2>1 DEF TurnOff, Goto, CallInv, TypeOK, CallTypeOK
    <2>3. QED
      BY <1>1, <2>2, MoveInv DEF Label
  <1>11. CASE StopSelf(c)
    <2>1. Down'
      BY <1>1, <1>11 DEF StopSelf, CallInv, Down, backendVars
    <2>2. Goto(c, "notify") /\ InternalState(c)' = "DOWN"
      BY <1>1, <1>11 DEF StopSelf, CallInv, InternalState
    <2>3. CallInv(c)'
      BY <1>1, <1>11, <2>1, <2>2 DEF StopSelf, Goto, CallInv, TypeOK, CallTypeOK
    <2>4. QED
      BY <1>1, <2>2, <2>3, MoveInv DEF Label
  <1>12. CASE Notify(c)
    <2>1. service' # "clear"
      BY <1>1, <1>12 DEF Notify, serviceVars
    <2>2. frame[c].stage \in {"switch", "down"} => Down' /\ ~connected'
      BY <1>1, <1>12 DEF Notify, CallInv, Down, backendVars, InternalState
    <2>3. frame[c].stage \in {"up", "rollback"} => Up' /\ connected'
      BY <1>1, <1>12 DEF Notify, CallInv, Up, backendVars, InternalState
    <2>4. QED
      BY <1>1, <1>12, <2>1, <2>2, <2>3, ReturnedInv DEF Notify
  <1>13. QED
    BY <1>2, <1>3, <1>4, <1>5, <1>6, <1>7, <1>8, <1>9, <1>10, <1>11, <1>12 DEF Step

(* The invariant is kept when a caller enters setState: with onDestroy out  *)
(* of the way the tunnel is either wholly up or wholly down.                *)
LEMMA SerialCall ==
  ASSUME TypeOK, SerialInv, Exclusive', NEW c \in Callers, SetState(c)
  PROVE  SerialInv'
  <1>1. PICK t \in Tunnels, g \in Configs \cup {NULL}, s \in {"UP", "DOWN", "TOGGLE"} :
          SetStateNothing(c, t, s, g) \/ SetStateUp(c, t, s, g) \/ SetStateDown(c, t, s, g)
    BY DEF SetState
  <1>2. CASE SetStateNothing(c, t, s, g)
    <2>1. /\ pc' = pc
          /\ UNCHANGED <<backendVars, tunnelHandles, service, connected>>
          /\ \A d \in Callers \ {c} : frame'[d] = frame[d]
      BY <1>2 DEF SetStateNothing, Leave, Goto, TypeOK, CallTypeOK, serviceVars
    <2>2. (\A d \in Callers : pc'[d] = "ready") => IdleInv'
      BY <2>1 DEF SerialInv, IdleInv, Down, Up, backendVars
    <2>3. ASSUME NEW d \in Callers, pc'[d] # "ready"  PROVE CallInv(d)'
      <3>1. d # c /\ CallInv(d)
        BY <1>2, <2>1, <2>3 DEF SetStateNothing, SerialInv
      <3>2. QED
        BY <2>1, <3>1 DEF CallInv, Down, Up, backendVars, InternalConfig, InternalTunnel,
                          InternalState
    <2>4. QED
      BY <2>2, <2>3 DEF SerialInv
  <1>3. ASSUME NEW l \in Label \ {"ready"}, NEW st \in Stage, Goto(c, l), pc[c] = "ready",
               frame' = [frame EXCEPT ![c] = Call(t, g, st)],
               UNCHANGED <<backendVars, tunnelHandles, serviceVars, permitted, connected>>,
               \/ l = "close" /\ st \in {"switch", "down"} /\ currentTunnel # NULL
               \/ l = "authorize" /\ st = "up" /\ currentTunnel = NULL
        PROVE SerialInv'
    <2>1. /\ pc'[c] = l /\ \A d \in Callers \ {c} : pc'[d] = pc[d]
          /\ frame'[c] = Call(t, g, st)
      BY <1>3 DEF Goto, TypeOK, CallTypeOK
    <2>2. \A d \in Callers \ {c} : pc'[d] = "ready"
      BY <2>1 DEF Exclusive
    <2>3. service \in {"none", "alive"}
      BY <1>3, <2>1 DEF Exclusive, serviceVars, TypeOK, StateTypeOK, ServiceState
    <2>4. IdleInv
      BY <1>3, <2>1, <2>2 DEF SerialInv
    <2>5. (currentTunnel # NULL => Up') /\ (currentTunnel = NULL => Down' /\ ~connected')
      BY <1>3, <2>3, <2>4 DEF IdleInv, Up, Down, backendVars
    <2>6. /\ frame'[c].tunnel = t /\ frame'[c].stage = st
          /\ frame'[c].originalTunnel = currentTunnel
      BY <2>1, SMT DEF Call
    <2>7. CallInv(c)'
      BY <1>3, <2>1, <2>5, <2>6, NullAssumption DEF CallInv
    <2>8. QED
      BY <2>1, <2>2, <2>7 DEF SerialInv
  <1>4. CASE SetStateUp(c, t, s, g)
    BY <1>3, <1>4 DEF SetStateUp, Label, Stage
  <1>5. CASE SetStateDown(c, t, s, g)
    <2>1. currentTunnel # NULL
      BY <1>5, NullAssumption DEF SetStateDown, NothingToDo
    <2>2. QED
      BY <1>3, <1>5, <2>1 DEF SetStateDown, Label, Stage
  <1>6. QED
    BY <1>1, <1>2, <1>4, <1>5

(* Where nothing the invariant speaks of changes, it still holds.           *)
LEMMA SerialFrame ==
  ASSUME SerialInv, Exclusive', pc' = pc,
         UNCHANGED <<backendVars, tunnelHandles, connected, frame>>,
         service = "clear" <=> service' = "clear"
  PROVE  SerialInv'
  <1>1. IdleInv => IdleInv'
    BY DEF IdleInv, Down, Up, backendVars
  <1>2. \A c \in Callers : CallInv(c) => CallInv(c)'
    BY SMT DEF CallInv, Down, Up, backendVars, InternalConfig, InternalTunnel, InternalState
  <1>3. QED
    BY <1>1, <1>2 DEF SerialInv

(* The invariant is kept by the service: onCreate only moves a waiting      *)
(* caller on, and onDestroy meets no caller.                                *)
LEMMA SerialService ==
  ASSUME TypeOK, SerialInv, Exclusive', Service
  PROVE  SerialInv'
  <1>1. CASE OnCreate
    <2>1. /\ pc' = [c \in Callers |-> IF pc[c] = "await" THEN "attach" ELSE pc[c]]
          /\ UNCHANGED <<backendVars, tunnelHandles, connected, frame>>
          /\ service # "clear" /\ service' # "clear"
      BY <1>1 DEF OnCreate
    <2>2. (\A c \in Callers : pc'[c] = "ready") => IdleInv'
      BY <2>1 DEF SerialInv, IdleInv, Down, Up, backendVars
    <2>3. ASSUME NEW c \in Callers, pc'[c] # "ready"  PROVE CallInv(c)'
      <3>1. CallInv(c)
        BY <2>1, <2>3 DEF SerialInv
      <3>2. QED
        BY <2>1, <3>1 DEF CallInv, Down, Up, backendVars, InternalConfig, InternalTunnel,
                          InternalState
    <2>4. QED
      BY <2>2, <2>3 DEF SerialInv
  <1>2. CASE OnDestroy
    BY <1>2, SerialFrame DEF OnDestroy, callVars
  <1>3. CASE OnDestroyTurnOff
    <2>1. \A c \in Callers : pc'[c] = "ready"
      BY <1>3 DEF OnDestroyTurnOff, Exclusive
    <2>2. IdleInv
      BY <1>3, <2>1 DEF OnDestroyTurnOff, callVars, SerialInv
    <2>3. \A h \in Handles : tunnelHandles'[h] = NULL
      BY <1>3, <2>2 DEF OnDestroyTurnOff, IdleInv, Up, Down, wgTurnOff
    <2>4. QED
      BY <1>3, <2>1, <2>3 DEF OnDestroyTurnOff, SerialInv, IdleInv
  <1>4. CASE OnDestroyClear
    <2>1. \A c \in Callers : pc'[c] = "ready"
      BY <1>4 DEF OnDestroyClear, Exclusive
    <2>2. IdleInv
      BY <1>4, <2>1 DEF OnDestroyClear, callVars, SerialInv
    <2>3. Down' /\ ~connected' /\ service' # "clear"
      BY <1>4, <2>2 DEF OnDestroyClear, IdleInv, Down
    <2>4. QED
      BY <2>1, <2>3 DEF SerialInv, IdleInv
  <1>5. CASE OnDestroyReplace
    <2>1. pc' = pc
      BY <1>5 DEF OnDestroyReplace, SerialInv, Exclusive, TypeOK, CallTypeOK
    <2>2. QED
      BY <1>5, <2>1, SerialFrame DEF OnDestroyReplace
  <1>6. QED
    BY <1>1, <1>2, <1>3, <1>4, <1>5 DEF Service

(* SerialInv is inductive under the exclusive use of GoBackend.             *)
LEMMA SerialInvStep ==
  TypeOK /\ SerialInv /\ [Next /\ Exclusive']_vars => SerialInv'
  <1> SUFFICES ASSUME TypeOK, SerialInv, [Next /\ Exclusive']_vars  PROVE SerialInv'
    OBVIOUS
  <1>1. CASE UNCHANGED vars
    <2>1. Exclusive'
      BY <1>1 DEF vars, callVars, serviceVars, SerialInv, Exclusive
    <2>2. QED
      BY <1>1, <2>1, SerialFrame DEF vars, callVars, serviceVars
  <1>2. CASE Next /\ Exclusive'
    <2>1. TypeOK'
      BY <1>2, TypeStep
    <2>2. ASSUME NEW c \in Callers, SetState(c) \/ Step(c)  PROVE SerialInv'
      BY <1>2, <2>1, <2>2, SerialCall, SerialStep
    <2>3. CASE Service
      BY <1>2, <2>3, SerialService
    <2>4. CASE Platform
      BY <1>2, <2>4, SerialFrame DEF Platform, Revoke, Grant, AlwaysOnStart, callVars, serviceVars
    <2>5. QED
      BY <1>2, <2>2, <2>3, <2>4 DEF Next
  <1>3. QED
    BY <1>1, <1>2

LEMMA SerialInvInit == Init => SerialInv
  BY DEF Init, SerialInv, Exclusive, IdleInv, Down

(* In every behaviour in which calls do not overlap, GoBackend's fields, the *)
(* handle table and the listener agree at every step of setState and of      *)
(* onDestroy.                                                                *)
THEOREM SerialCorrect == SerialSpec => [](TypeOK /\ SerialInv)
  <1>1. Init => TypeOK /\ SerialInv
    BY TypeInit, SerialInvInit
  <1>2. TypeOK /\ SerialInv /\ [Next /\ Exclusive']_vars => (TypeOK /\ SerialInv)'
    BY TypeStep, SerialInvStep
  <1>3. QED
    BY <1>1, <1>2, PTL DEF SerialSpec

(* No device is left running that getRunningTunnelNames does not list, for   *)
(* any number of callers, tunnels, configurations and handles, as long as    *)
(* calls do not overlap.                                                     *)
THEOREM NoOrphan == SerialSpec => []RunningTunnelsListed
  <1>1. TypeOK /\ SerialInv => RunningTunnelsListed
    BY DEF SerialInv, IdleInv, RunningTunnelsListed, Quiet, Running, Down, Up
  <1>2. QED
    BY <1>1, SerialCorrect, PTL

(* At most one device runs at any moment, half way through a switch or a     *)
(* restore included, as long as calls do not overlap.                        *)
THEOREM SingleDevice == SerialSpec => []OneDevice
  <1>1. ASSUME TypeOK, SerialInv  PROVE OneDevice
    <2>1. CASE \A c \in Callers : pc[c] = "ready"
      BY <1>1, <2>1 DEF SerialInv, IdleInv, OneDevice, Running, Down, Up
    <2>2. ASSUME NEW c \in Callers, pc[c] # "ready"  PROVE OneDevice
      <3>1. CallInv(c) /\ pc[c] \in Label
        BY <1>1, <2>2 DEF SerialInv, TypeOK, CallTypeOK
      <3>2. pc[c] = "notify" => InternalState(c) \in {"UP", "DOWN"}
        BY DEF InternalState
      <3>3. QED
        BY <2>2, <3>1, <3>2 DEF CallInv, OneDevice, Running, Down, Up, Label
    <2>3. QED
      BY <2>1, <2>2
  <1>2. QED
    BY <1>1, SerialCorrect, PTL

(* The tunnel GoBackend says is up has a device with the configuration       *)
(* GoBackend remembers, as long as calls do not overlap.                     *)
THEOREM ConfigCorrect == SerialSpec => []CurrentConfigRuns
  <1>1. TypeOK /\ SerialInv => CurrentConfigRuns
    BY NullAssumption
       DEF TypeOK, StateTypeOK, SerialInv, IdleInv, CurrentConfigRuns, Quiet, Running, Down, Up
  <1>2. QED
    BY <1>1, SerialCorrect, PTL

(* The listener's last onStateChange says what is up, as long as calls do    *)
(* not overlap.                                                              *)
THEOREM ListenerCorrect == SerialSpec => []ListenerAgrees
  <1>1. TypeOK /\ SerialInv => ListenerAgrees
    BY DEF TypeOK, StateTypeOK, SerialInv, IdleInv, ListenerAgrees, Quiet, Down, Up
  <1>2. QED
    BY <1>1, SerialCorrect, PTL

-----------------------------------------------------------------------------
(* How a call may end *)

(* Only a caller's own step takes it out of setState, and it either failed   *)
(* with nothing up or was reporting the new state.                           *)
LEMMA LastStep ==
  ASSUME TypeOK, SerialInv, NEW c \in Callers, Step(c), pc'[c] = "ready"
  PROVE  \/ Leave(c, "exception") /\ currentTunnel' = NULL
         \/ Notify(c)
  <1>1. pc[c] # "ready" /\ CallInv(c)
    BY DEF Step, Authorize, GetService, ServiceTimeout, Attach, Establish, TurnOn, Publish,
           Close, TurnOff, StopSelf, Notify, SerialInv
  <1>2. \A l \in Label \ {"ready"} : ~Goto(c, l)
    BY DEF Goto, TypeOK, CallTypeOK
  <1>3. Threw(c) => Leave(c, "exception")
    BY <1>2 DEF Threw, Label
  <1>4. CASE Authorize(c) \/ GetService(c) \/ ServiceTimeout(c)
    BY <1>1, <1>2, <1>3, <1>4
       DEF Authorize, GetService, ServiceTimeout, CallInv, Down, backendVars, Label
  <1>5. CASE Attach(c) \/ Establish(c)
    BY <1>1, <1>2, <1>3, <1>5 DEF Attach, Establish, CallInv, Down, backendVars, Label
  <1>6. CASE TurnOn(c) \/ Publish(c)
    BY <1>1, <1>2, <1>3, <1>6 DEF TurnOn, Publish, CallInv, backendVars, Label
  <1>7. CASE Close(c) \/ TurnOff(c) \/ StopSelf(c)
    BY <1>1, <1>2, <1>7 DEF Close, TurnOff, StopSelf, CallInv, Up, Label
  <1>8. QED
    BY <1>4, <1>5, <1>6, <1>7 DEF Step

LEMMA OutcomeStep ==
  ASSUME TypeOK, SerialInv, Next, NEW c \in Callers, pc[c] # "ready", pc'[c] = "ready"
  PROVE  Outcome(c)
  <1>1. Step(c)
    <2>1. ASSUME NEW d \in Callers, NEW l, d # c, Goto(d, l)  PROVE FALSE
      BY <2>1 DEF Goto, TypeOK, CallTypeOK
    <2>2. ASSUME NEW d \in Callers, SetState(d)  PROVE FALSE
      BY <2>1, <2>2 DEF SetState, SetStateNothing, SetStateUp, SetStateDown, Leave
    <2>3. ASSUME NEW d \in Callers, d # c, Step(d)  PROVE FALSE
      <3>1. \E l : Goto(d, l)
        BY <2>3 DEF Step, Authorize, GetService, ServiceTimeout, Attach, Establish, TurnOn,
                    Publish, Close, TurnOff, StopSelf, Notify, Threw, Returned, Leave
      <3>2. QED
        BY <2>1, <2>3, <3>1
    <2>4. ~(Service \/ Platform)
      BY DEF Service, OnCreate, OnDestroy, OnDestroyTurnOff, OnDestroyClear, OnDestroyReplace,
             Platform, Revoke, Grant, AlwaysOnStart, callVars
    <2>5. QED
      BY <2>2, <2>3, <2>4 DEF Next
  <1>2. CASE Leave(c, "exception") /\ currentTunnel' = NULL
    BY <1>2 DEF Leave, Outcome, TypeOK, CallTypeOK
  <1>3. CASE Notify(c)
    <2>1. CallInv(c) /\ frame[c].stage \in Stage
      BY DEF SerialInv, TypeOK, CallTypeOK, Frames
    <2>2. \A l \in Label \ {"ready"} : ~Goto(c, l)
      BY DEF Goto, TypeOK, CallTypeOK
    <2>3. CASE frame[c].stage \in {"up", "down"} /\ Leave(c, "ok")
      <3>1. result'[c] = "ok"
        BY <2>3 DEF Leave, TypeOK, CallTypeOK
      <3>2. CASE frame[c].stage = "up"
        BY <1>3, <2>1, <3>1, <3>2
           DEF Notify, CallInv, InternalState, InternalTunnel, InternalConfig, backendVars, Outcome
      <3>3. CASE frame[c].stage = "down"
        BY <1>3, <2>1, <3>1, <3>3 DEF Notify, CallInv, InternalState, Down, backendVars, Outcome
      <3>4. QED
        BY <2>3, <3>2, <3>3
    <2>4. CASE frame[c].stage = "rollback" /\ Leave(c, "exception")
      <3>1. result'[c] = "exception"
        BY <2>4 DEF Leave, TypeOK, CallTypeOK
      <3>2. QED
        BY <1>3, <2>1, <2>4, <3>1
           DEF Notify, CallInv, InternalState, InternalTunnel, InternalConfig, backendVars, Outcome
    <2>5. QED
      BY <1>3, <2>2, <2>3, <2>4 DEF Notify, Returned, Label
  <1>4. QED
    BY <1>1, <1>2, <1>3, LastStep

(* A call returns with what was asked for, and throws with the original      *)
(* tunnel restored or nothing up, as long as calls do not overlap.           *)
THEOREM OutcomeCorrect == SerialSpec => SetStateOutcome
  <1>1. TypeOK /\ SerialInv /\ [Next /\ Exclusive']_vars =>
          [\A c \in Callers : pc[c] # "ready" /\ pc'[c] = "ready" => Outcome(c)]_vars
    BY OutcomeStep
  <1>2. QED
    BY <1>1, SerialCorrect, PTL DEF SerialSpec, SetStateOutcome

(***************************************************************************)
(* GoBackend, used by one thread at a time, implements the Backend         *)
(* interface.  The mapping reads the promise off GoBackend's own fields and*)
(* the locals of the call in progress.                                     *)
(***************************************************************************)
(* A step that leaves the mapped state alone is a stuttering step.          *)
LEMMA ViewsUnchanged ==
  ASSUME UNCHANGED <<currentTunnel, currentConfig, pc, frame>>
  PROVE  UNCHANGED <<upView, activeView, goalView, beforeView>>
  BY DEF upView, activeView, goalView, beforeView

(* While c is inside setState the mapping speaks of c alone, and it does not *)
(* change as long as c stays inside with the same arguments.                 *)
LEMMA InsideViews ==
  ASSUME TypeOK, SerialInv, Exclusive', NEW c \in Callers, pc[c] # "ready",
         NEW l \in Label \ {"ready"}, Goto(c, l),
         \A d \in Callers \ {c} : frame'[d] = frame[d],
         frame'[c].tunnel = frame[c].tunnel, frame'[c].config = frame[c].config,
         frame'[c].originalTunnel = frame[c].originalTunnel,
         frame'[c].originalConfig = frame[c].originalConfig,
         frame'[c].stage = "down" <=> frame[c].stage = "down"
  PROVE  UNCHANGED <<activeView, goalView, beforeView>> /\ c \in activeView
  <1>1. pc'[c] = l /\ \A d \in Callers \ {c} : pc[d] = "ready" /\ pc'[d] = "ready"
    BY OthersReady DEF SerialInv
  <1>2. UNCHANGED activeView /\ c \in activeView
    BY <1>1, SMT DEF activeView
  <1>3. UNCHANGED goalView
    BY <1>1 DEF goalView
  <1>4. UNCHANGED beforeView
    BY <1>1 DEF beforeView
  <1>5. QED
    BY <1>2, <1>3, <1>4

(* A step of c inside setState keeps its arguments and what it found.        *)
LEMMA SameCall ==
  ASSUME TypeOK, NEW c \in Callers,
         \/ UNCHANGED frame
         \/ frame' = [frame EXCEPT ![c].handleToClose = currentTunnelHandle]
         \/ frame[c].stage # "down" /\ \E s \in Stage \ {"down"} : SetStage(c, s)
  PROVE  /\ \A d \in Callers \ {c} : frame'[d] = frame[d]
         /\ frame'[c].tunnel = frame[c].tunnel /\ frame'[c].config = frame[c].config
         /\ frame'[c].originalTunnel = frame[c].originalTunnel
         /\ frame'[c].originalConfig = frame[c].originalConfig
         /\ frame'[c].stage = "down" <=> frame[c].stage = "down"
  <1>1. frame \in [Callers -> Frames]
    BY DEF TypeOK, CallTypeOK
  <1>2. CASE UNCHANGED frame
    BY <1>2
  <1>3. CASE frame' = [frame EXCEPT ![c].handleToClose = currentTunnelHandle]
    BY <1>1, <1>3 DEF Frames
  <1>4. ASSUME frame[c].stage # "down", NEW s \in Stage \ {"down"}, SetStage(c, s)
        PROVE  /\ \A d \in Callers \ {c} : frame'[d] = frame[d]
               /\ frame'[c].tunnel = frame[c].tunnel /\ frame'[c].config = frame[c].config
               /\ frame'[c].originalTunnel = frame[c].originalTunnel
               /\ frame'[c].originalConfig = frame[c].originalConfig
               /\ frame'[c].stage = "down" <=> frame[c].stage = "down"
    BY <1>1, <1>4, SMT DEF SetStage, Frames
  <1>5. QED
    BY <1>2, <1>3, <1>4

(* Entering setState begins a call of the interface.                         *)
LEMMA EnterRefines ==
  ASSUME TypeOK, SerialInv, Exclusive', NEW c \in Callers, SetState(c)
  PROVE  Contract!Next \/ UNCHANGED <<upView, activeView, goalView, beforeView>>
  <1>1. PICK t \in Tunnels, g \in Configs \cup {NULL}, s \in {"UP", "DOWN", "TOGGLE"} :
          SetStateNothing(c, t, s, g) \/ SetStateUp(c, t, s, g) \/ SetStateDown(c, t, s, g)
    BY DEF SetState
  <1>2. CASE SetStateNothing(c, t, s, g)
    <2>1. /\ pc[c] = "ready" /\ pc' = pc /\ \A d \in Callers \ {c} : frame'[d] = frame[d]
          /\ UNCHANGED <<currentTunnel, currentConfig>>
      BY <1>2 DEF SetStateNothing, Leave, Goto, TypeOK, CallTypeOK, backendVars
    <2>2. UNCHANGED <<upView, activeView>>
      BY <2>1 DEF upView, activeView
    <2>3. UNCHANGED goalView
      BY <2>1 DEF goalView
    <2>4. UNCHANGED beforeView
      BY <2>1 DEF beforeView
    <2>5. QED
      BY <2>2, <2>3, <2>4
  <1>3. ASSUME NEW st \in {"switch", "up", "down"}, NEW l \in Label \ {"ready"}, Goto(c, l),
               pc[c] = "ready", frame' = [frame EXCEPT ![c] = Call(t, g, st)],
               UNCHANGED <<currentTunnel, currentConfig>>
        PROVE  Contract!Begin(c, IF st = "down" THEN {} ELSE {<<t, g>>})
    <2>1. /\ pc'[c] = l /\ \A d \in Callers \ {c} : pc'[d] = pc[d]
          /\ frame'[c] = Call(t, g, st) /\ \A d \in Callers \ {c} : frame'[d] = frame[d]
      BY <1>3 DEF Goto, TypeOK, CallTypeOK
    <2>2. \A d \in Callers : pc[d] = "ready"
      BY <1>3, <2>1 DEF Exclusive
    <2>3. activeView = {} /\ activeView' = {c}
      BY <2>1, <2>2 DEF activeView
    <2>4. goalView' = [goalView EXCEPT ![c] = IF st = "down" THEN {} ELSE {<<t, g>>}]
      <3>1. goalView = [d \in Callers |-> {}]
        BY <2>2 DEF goalView
      <3>2. goalView' = [d \in Callers |-> IF d = c THEN IF st = "down" THEN {} ELSE {<<t, g>>} ELSE {}]
        <4>1. ASSUME NEW d \in Callers, d # c  PROVE pc'[d] = "ready"
          BY <2>1, <2>2, <4>1
        <4>2. pc'[c] # "ready" /\ frame'[c].stage = st /\ frame'[c].tunnel = t /\ frame'[c].config = g
          BY <2>1, SMT DEF Call
        <4>3. QED
          BY <4>1, <4>2 DEF goalView
      <3>3. QED
        BY <3>1, <3>2
    <2>5. beforeView' = [beforeView EXCEPT ![c] = upView]
      <3>1. beforeView = [d \in Callers |-> {}]
        BY <2>2 DEF beforeView
      <3>2. beforeView' = [d \in Callers |-> IF d = c THEN upView ELSE {}]
        <4>1. ASSUME NEW d \in Callers, d # c  PROVE pc'[d] = "ready"
          BY <2>1, <2>2, <4>1
        <4>2. /\ pc'[c] # "ready" /\ frame'[c].originalTunnel = currentTunnel
              /\ frame'[c].originalConfig = currentConfig
          BY <2>1, SMT DEF Call
        <4>3. QED
          BY <4>1, <4>2 DEF beforeView, upView
      <3>3. QED
        BY <3>1, <3>2
    <2>6. UNCHANGED upView
      BY <1>3 DEF upView
    <2>7. QED
      BY <2>3, <2>4, <2>5, <2>6 DEF Contract!Begin
  <1>4. CASE SetStateUp(c, t, s, g)
    <2>1. Contract!Begin(c, {<<t, g>>})
      BY <1>3, <1>4 DEF SetStateUp, backendVars, Label
    <2>2. Contract!BringUp(c, t, g)
      BY <2>1 DEF Contract!BringUp
    <2>3. QED
      BY <2>2 DEF Contract!Next
  <1>5. CASE SetStateDown(c, t, s, g)
    <2>1. Contract!Begin(c, {})
      BY <1>3, <1>5 DEF SetStateDown, backendVars, Label
    <2>2. currentTunnel = t
      BY <1>5 DEF SetStateDown, NothingToDo
    <2>3. Contract!Without(t) = {}
      BY <2>2, SMT DEF Contract!Without, upView
    <2>4. Contract!TakeDown(c, t)
      BY <2>1, <2>3 DEF Contract!TakeDown
    <2>5. QED
      BY <2>4 DEF Contract!Next
  <1>6. QED
    BY <1>1, <1>2, <1>4, <1>5

(* Leaving setState ends the call of the interface.                          *)
LEMMA LeaveRefines ==
  ASSUME TypeOK, SerialInv, NEW c \in Callers, pc[c] # "ready", NEW o, Leave(c, o),
         UNCHANGED <<currentTunnel, currentConfig>>,
         upView = goalView[c] \/ upView \subseteq beforeView[c]
  PROVE  Contract!End(c)
  <1>1. \A d \in Callers : pc'[d] = "ready" /\ (d # c => pc[d] = "ready")
    BY DEF Leave, Goto, SerialInv, Exclusive, TypeOK, CallTypeOK
  <1>2. c \in activeView /\ activeView' = {}
    BY <1>1 DEF activeView
  <1>3. goalView' = [goalView EXCEPT ![c] = {}]
    <2>1. goalView' = [d \in Callers |-> {}]
      BY <1>1 DEF goalView
    <2>2. \A d \in Callers : d # c => goalView[d] = {}
      BY <1>1 DEF goalView
    <2>3. goalView = [d \in Callers |-> goalView[d]]
      BY DEF goalView
    <2>4. QED
      BY <2>1, <2>2, <2>3
  <1>4. beforeView' = [beforeView EXCEPT ![c] = {}]
    <2>1. beforeView' = [d \in Callers |-> {}]
      BY <1>1 DEF beforeView
    <2>2. \A d \in Callers : d # c => beforeView[d] = {}
      BY <1>1 DEF beforeView
    <2>3. beforeView = [d \in Callers |-> beforeView[d]]
      BY DEF beforeView
    <2>4. QED
      BY <2>1, <2>2, <2>3
  <1>5. UNCHANGED upView
    BY DEF upView
  <1>6. QED
    BY <1>2, <1>3, <1>4, <1>5 DEF Contract!End

(* A step inside setState that stays inside and does not touch the fields is *)
(* invisible; taking a tunnel down or publishing one is work on the call.    *)
LEMMA InsideRefines ==
  ASSUME TypeOK, SerialInv, Exclusive', NEW c \in Callers, Step(c), pc'[c] # "ready"
  PROVE  Contract!Next \/ UNCHANGED <<upView, activeView, goalView, beforeView>>
  <1>1. pc[c] # "ready" /\ CallInv(c) /\ pc[c] # "stale"
    BY DEF Step, Authorize, GetService, ServiceTimeout, Attach, Establish, TurnOn, Publish,
           Close, TurnOff, StopSelf, Notify, SerialInv, CallInv
  <1>2. ~\E o : Leave(c, o)
    BY DEF Leave, Goto, TypeOK, CallTypeOK
  <1>3. /\ \E l \in Label \ {"ready"} : Goto(c, l)
        /\ \/ UNCHANGED frame
           \/ frame' = [frame EXCEPT ![c].handleToClose = currentTunnelHandle]
           \/ frame[c].stage # "down" /\ \E s \in Stage \ {"down"} : SetStage(c, s)
    <2>1. CASE Authorize(c) \/ GetService(c) \/ ServiceTimeout(c)
      BY <1>2, <2>1 DEF Authorize, GetService, ServiceTimeout, Threw, Label, Stage
    <2>2. CASE Attach(c) \/ Establish(c)
      BY <1>2, <2>2 DEF Attach, Establish, Threw, Returned, Label, Stage
    <2>3. CASE TurnOn(c) \/ Publish(c)
      BY <1>2, <2>3 DEF TurnOn, Publish, Threw, Label, Stage
    <2>4. CASE Close(c) \/ TurnOff(c) \/ StopSelf(c) \/ Notify(c)
      BY <1>2, <2>4 DEF Close, TurnOff, StopSelf, Notify, Returned, Label, Stage
    <2>5. QED
      BY <2>1, <2>2, <2>3, <2>4 DEF Step
  <1>4. UNCHANGED <<activeView, goalView, beforeView>> /\ c \in activeView
    <2>1. PICK l \in Label \ {"ready"} : Goto(c, l)
      BY <1>3
    <2>2. QED
      BY <1>1, <1>3, <2>1, SameCall, InsideViews
  <1>5. upView' \subseteq goalView[c] \cup beforeView[c] \/ UNCHANGED upView
    <2>1. CASE UNCHANGED <<currentTunnel, currentConfig>>
      BY <2>1 DEF upView
    <2>2. CASE currentTunnel' = NULL
      BY <2>2 DEF upView
    <2>3. CASE Publish(c) /\ currentTunnel' = InternalTunnel(c) /\ currentConfig' = InternalConfig(c)
      <3>1. /\ frame[c].stage \in {"up", "rollback"}
            /\ frame[c].stage = "rollback" => frame[c].originalTunnel # NULL
        BY <1>1, <2>3 DEF CallInv, Publish
      <3>2. upView' \subseteq {<<InternalTunnel(c), InternalConfig(c)>>}
        BY <2>3 DEF upView
      <3>3. CASE frame[c].stage = "up"
        BY <1>1, <3>2, <3>3 DEF InternalTunnel, InternalConfig, goalView
      <3>4. CASE frame[c].stage = "rollback"
        BY <1>1, <3>1, <3>2, <3>4 DEF InternalTunnel, InternalConfig, beforeView
      <3>5. QED
        BY <3>1, <3>3, <3>4
    <2>4. QED
      BY <2>1, <2>2, <2>3 DEF Step, Authorize, GetService, ServiceTimeout, Attach, Establish,
         TurnOn, Publish, Close, TurnOff, StopSelf, Notify, backendVars
  <1>6. CASE upView' \subseteq goalView[c] \cup beforeView[c]
    <2>1. \A p, q \in upView' : p = q
      BY DEF upView
    <2>2. Contract!Work(c)
      BY <1>4, <1>6, <2>1 DEF Contract!Work
    <2>3. QED
      BY <2>2 DEF Contract!Next
  <1>7. QED
    BY <1>4, <1>5, <1>6

LEMMA StepRefines ==
  ASSUME TypeOK, SerialInv, Exclusive', NEW c \in Callers, Step(c)
  PROVE  Contract!Next \/ UNCHANGED <<upView, activeView, goalView, beforeView>>
  <1>1. CASE pc'[c] # "ready"
    BY <1>1, InsideRefines
  <1>2. CASE pc'[c] = "ready"
    <2>1. pc[c] # "ready" /\ CallInv(c)
      BY DEF Step, Authorize, GetService, ServiceTimeout, Attach, Establish, TurnOn, Publish,
             Close, TurnOff, StopSelf, Notify, SerialInv
    <2>2. CASE Leave(c, "exception") /\ currentTunnel' = NULL /\ UNCHANGED <<currentTunnel, currentConfig>>
      <3>1. upView = {}
        BY <2>2 DEF upView
      <3>2. Contract!End(c)
        BY <2>1, <2>2, <3>1, LeaveRefines
      <3>3. QED
        BY <3>2 DEF Contract!Next
    <2>3. CASE Notify(c)
      <3>1. \E o : Leave(c, o)
        BY <1>2, <2>3 DEF Notify, Returned, Goto, TypeOK, CallTypeOK
      <3>2. upView = goalView[c] \/ upView \subseteq beforeView[c]
        <4>1. frame[c].stage \in Stage
          BY DEF TypeOK, CallTypeOK, Frames
        <4>2. CASE frame[c].stage \in {"switch", "down"}
          BY <2>1, <2>3, <4>2 DEF Notify, CallInv, InternalState, Down, upView
        <4>3. CASE frame[c].stage = "up"
          BY <2>1, <2>3, <4>3
             DEF Notify, CallInv, InternalState, InternalTunnel, InternalConfig, Up, upView, goalView
        <4>4. CASE frame[c].stage = "rollback"
          BY <2>1, <2>3, <4>4
             DEF Notify, CallInv, InternalState, InternalTunnel, InternalConfig, Up, upView, beforeView
        <4>5. QED
          BY <4>1, <4>2, <4>3, <4>4 DEF Stage
      <3>3. Contract!End(c)
        BY <2>1, <2>3, <3>1, <3>2, LeaveRefines DEF Notify, backendVars
      <3>4. QED
        BY <3>3 DEF Contract!Next
    <2>4. UNCHANGED <<currentTunnel, currentConfig>>
      BY <1>2, <2>1 DEF Step, Authorize, GetService, ServiceTimeout, Attach, Establish,
         TurnOn, Publish, Close, TurnOff, StopSelf, Notify, backendVars, Goto, TypeOK, CallTypeOK
    <2>5. QED
      BY <1>2, <2>2, <2>3, <2>4, LastStep
  <1>3. QED
    BY <1>1, <1>2

(* Every step of GoBackend is a step of the interface or invisible to it.    *)
LEMMA NextRefines ==
  ASSUME TypeOK, SerialInv, [Next /\ Exclusive']_vars
  PROVE  Contract!Next \/ UNCHANGED <<upView, activeView, goalView, beforeView>>
  <1>1. CASE UNCHANGED vars
    BY <1>1, ViewsUnchanged DEF vars, callVars, backendVars
  <1>2. CASE Next /\ Exclusive'
    <2>1. ASSUME NEW c \in Callers, SetState(c) \/ Step(c)
          PROVE  Contract!Next \/ UNCHANGED <<upView, activeView, goalView, beforeView>>
      BY <1>2, <2>1, EnterRefines, StepRefines
    <2>2. CASE OnCreate
      <3>1. \A c \in Callers : pc'[c] = "ready" <=> pc[c] = "ready"
        BY <2>2 DEF OnCreate
      <3>2. UNCHANGED <<upView, activeView>>
        BY <2>2, <3>1 DEF OnCreate, upView, activeView, backendVars
      <3>3. UNCHANGED goalView
        BY <2>2, <3>1 DEF OnCreate, goalView
      <3>4. UNCHANGED beforeView
        BY <2>2, <3>1 DEF OnCreate, beforeView
      <3>5. QED
        BY <3>2, <3>3, <3>4
    <2>3. CASE OnDestroy \/ OnDestroyTurnOff \/ Platform
      BY <2>3, ViewsUnchanged DEF OnDestroy, OnDestroyTurnOff, Platform, Revoke, Grant,
         AlwaysOnStart, callVars, backendVars
    <2>4. CASE OnDestroyReplace
      <3>1. pc' = pc
        BY <2>4 DEF OnDestroyReplace, SerialInv, Exclusive, TypeOK, CallTypeOK
      <3>2. QED
        BY <2>4, <3>1, ViewsUnchanged DEF OnDestroyReplace, backendVars
    <2>5. CASE OnDestroyClear
      <3>1. activeView = {}
        BY <2>5 DEF OnDestroyClear, SerialInv, Exclusive, activeView
      <3>2. upView' = {} /\ UNCHANGED <<activeView, goalView, beforeView>>
        BY <2>5 DEF OnDestroyClear, upView, activeView, goalView, beforeView, callVars
      <3>3. Contract!Lose
        BY <3>1, <3>2 DEF Contract!Lose
      <3>4. QED
        BY <3>3 DEF Contract!Next
    <2>6. QED
      BY <1>2, <2>1, <2>2, <2>3, <2>4, <2>5 DEF Next, Service
  <1>3. QED
    BY <1>1, <1>2

(* GoBackend implements the Backend interface for every number of callers,   *)
(* tunnels, configurations and handles, as long as calls do not overlap.     *)
THEOREM BackendRefined == SerialSpec => ImplementsBackend
  <1>1. Init => Contract!Init
    BY DEF Init, Contract!Init, upView, activeView, goalView, beforeView
  <1>2. TypeOK /\ SerialInv /\ [Next /\ Exclusive']_vars => [Contract!Next]_(Contract!vars)
    BY NextRefines DEF Contract!vars
  <1>3. QED
    BY <1>1, <1>2, SerialCorrect, PTL DEF SerialSpec, ImplementsBackend, Contract!Spec

(***************************************************************************)
(* WireGuardBackend used by one caller at a time uses GoBackend by one     *)
(* thread at a time, so GoBackend's theorems hold inside it; on top of     *)
(* them WInv is inductive.                                                 *)
(***************************************************************************)
LEMMA LocalsTypes ==
  ASSUME WTypeOK, NEW c \in Callers
  PROVE  /\ local[c] \in Locals /\ NoLocals \in Locals /\ wpc[c] \in WLabel
         /\ \A l \in WLabel : WGoto(c, l) => wpc' \in [Callers -> WLabel]
         /\ \A t \in Tunnels \cup {NULL}, x \in Texts \cup {NULL}, g \in Configs \cup {NULL} :
              SetLocals(c, t, x, g) => local' \in [Callers -> Locals]
         /\ \A o : WLeave(c, o) => /\ wpc' \in [Callers -> WLabel]
                                   /\ local' \in [Callers -> Locals]
                                   /\ outcome' = o
  <1>1. local[c] \in Locals /\ wpc[c] \in WLabel
    BY DEF WTypeOK
  <1>2. NoLocals \in Locals
    BY DEF Locals, NoLocals
  <1>3. \A l \in WLabel : WGoto(c, l) => wpc' \in [Callers -> WLabel]
    BY DEF WTypeOK, WGoto
  <1>4. ASSUME NEW t \in Tunnels \cup {NULL}, NEW x \in Texts \cup {NULL},
               NEW g \in Configs \cup {NULL}, SetLocals(c, t, x, g)
        PROVE  local' \in [Callers -> Locals]
    <2>1. [tunnel |-> t, text |-> x, config |-> g] \in Locals
      BY DEF Locals
    <2>2. QED
      BY <1>4, <2>1 DEF WTypeOK, SetLocals
  <1>5. ASSUME NEW o, WLeave(c, o)
        PROVE  wpc' \in [Callers -> WLabel] /\ local' \in [Callers -> Locals] /\ outcome' = o
    BY <1>2, <1>3, <1>5 DEF WTypeOK, WLeave, WLabel
  <1>6. QED
    BY <1>1, <1>2, <1>3, <1>4, <1>5

LEMMA WTypeStep == WTypeOK /\ TypeOK /\ [WNext]_wvars => WTypeOK'
  <1> SUFFICES ASSUME WTypeOK, TypeOK, [WNext]_wvars  PROVE WTypeOK'
    OBVIOUS
  <1>1. CASE UNCHANGED wvars
    BY <1>1 DEF wvars, appVars, WTypeOK
  <1>2. ASSUME NEW c \in Callers, NEW x \in Texts, Connect(c, x)  PROVE WTypeOK'
    BY <1>2, LocalsTypes DEF Connect, WTypeOK, WLabel
  <1>3. ASSUME NEW c \in Callers, Retry(c) \/ Disconnect(c)  PROVE WTypeOK'
    BY <1>3, LocalsTypes DEF Retry, Disconnect, WTypeOK, WLabel
  <1>4. ASSUME NEW c \in Callers, CallerStep(c)  PROVE WTypeOK'
    <2>0. local[c] \in Locals
      BY LocalsTypes
    <2>1. CASE Prepare(c)
      BY <2>0, <2>1, LocalsTypes DEF Prepare, WTypeOK, WLabel, Locals
    <2>2. CASE PickTunnel(c)
      BY <2>0, <2>2, LocalsTypes DEF PickTunnel, WTypeOK, WLabel, Locals
    <2>3. CASE StoreTunnel(c)
      BY <2>0, <2>3, LocalsTypes DEF StoreTunnel, WTypeOK, WLabel, Locals
    <2>4. CASE CallUp(c) \/ CallDown(c)
      BY <2>4, LocalsTypes DEF CallUp, CallDown, WTypeOK, WLabel
    <2>5. CASE InSetState(c)
      <3>1. connected' \in BOOLEAN
        BY <2>5, TypeStep DEF InSetState, Next, TypeOK, StateTypeOK
      <3>2. QED
        BY <2>5, <3>1 DEF InSetState, WTypeOK
    <2>6. CASE UpReturns(c)
      BY <2>6, LocalsTypes DEF UpReturns, WTypeOK
    <2>7. CASE DisconnectNothing(c) \/ DownReturns(c)
      BY <2>7, LocalsTypes DEF DisconnectNothing, DownReturns, WTypeOK
    <2>8. QED
      BY <1>4, <2>1, <2>2, <2>3, <2>4, <2>5, <2>6, <2>7 DEF CallerStep
  <1>5. CASE setPermissionCallback \/ Outside
    BY <1>5 DEF setPermissionCallback, Outside, WTypeOK
  <1>6. QED
    BY <1>1, <1>2, <1>3, <1>4, <1>5 DEF WNext

-----------------------------------------------------------------------------
(* GoBackend inside *)

(* A call is inside GoBackend only while it is inside connect or disconnect, *)
(* so serial use of WireGuardBackend is serial use of GoBackend.             *)
LEMMA Nested ==
  ASSUME WExclusive, \A c \in Callers : NestedInv(c)
  PROVE  Exclusive
  BY DEF WExclusive, NestedInv, Exclusive

(* Every step of WireGuardBackend is a step of GoBackend or leaves it alone. *)
LEMMA InnerStep ==
  ASSUME TypeOK, WTypeOK, WInv, WNext
  PROVE  Next \/ UNCHANGED vars
  <1>1. ASSUME NEW c \in Callers, CallUp(c)  PROVE SetState(c)
    <2>1. local[c].tunnel \in Tunnels /\ local[c].config \in Configs
      BY <1>1, LocalsTypes DEF CallUp, WInv, LocalInv, Locals
    <2>2. QED
      BY <1>1, <2>1 DEF CallUp, SetState
  <1>2. ASSUME NEW c \in Callers, CallDown(c)  PROVE SetState(c)
    <2>1. local[c].tunnel \in Tunnels
      BY <1>2, LocalsTypes DEF CallDown, Locals
    <2>2. QED
      BY <1>2, <2>1 DEF CallDown, SetState
  <1>3. ASSUME NEW c \in Callers, InSetState(c)  PROVE Step(c)
    BY <1>3 DEF InSetState
  <1>4. Outside => Service \/ Platform
    BY DEF Outside
  <1>5. CASE setPermissionCallback
    BY <1>5 DEF setPermissionCallback
  <1>6. ASSUME NEW c \in Callers,
               \/ (\E x \in Texts : Connect(c, x)) \/ Retry(c) \/ Disconnect(c) \/ Prepare(c)
               \/ PickTunnel(c) \/ StoreTunnel(c) \/ UpReturns(c) \/ DisconnectNothing(c)
               \/ DownReturns(c)
        PROVE  UNCHANGED vars
    BY <1>6 DEF Connect, Retry, Disconnect, Prepare, PickTunnel, StoreTunnel, UpReturns,
                DisconnectNothing, DownReturns
  <1>7. QED
    BY <1>1, <1>2, <1>3, <1>4, <1>5, <1>6 DEF WNext, CallerStep, Next

-----------------------------------------------------------------------------
(* WInv is inductive *)

(* Steps that leave GoBackend alone *)
LEMMA AppStepInv ==
  ASSUME TypeOK, WTypeOK, SerialInv, WInv, WExclusive', NEW c \in Callers, UNCHANGED vars,
         \/ (\E x \in Texts : Connect(c, x)) \/ Retry(c) \/ Disconnect(c) \/ Prepare(c)
         \/ PickTunnel(c) \/ StoreTunnel(c) \/ UpReturns(c) \/ DisconnectNothing(c)
         \/ DownReturns(c)
  PROVE  WInv'
  <1>0. /\ UNCHANGED <<currentTunnel, currentConfig, pc, frame, result, connected, service>>
        /\ local[c] \in Locals /\ wpc \in [Callers -> WLabel] /\ local \in [Callers -> Locals]
        /\ tunnel \in Tunnels \cup {NULL} /\ pendingConfig \in Texts \cup {NULL}
    BY LocalsTypes DEF vars, backendVars, serviceVars, callVars, WTypeOK
  <1>1. /\ LocalInv(c) /\ NestedInv(c) /\ (currentTunnel # NULL => tunnel = currentTunnel)
        /\ isConnected => connected
    BY DEF WInv
  <1>2. SUFFICES /\ wpc'[c] \in WLabel /\ LocalInv(c)' /\ NestedInv(c)'
                 /\ \A d \in Callers \ {c} : wpc'[d] = wpc[d] /\ local'[d] = local[d]
                 /\ (tunnel' = tunnel \/ \A d \in Callers \ {c} : wpc[d] = "idle")
                 /\ currentTunnel # NULL => tunnel' = currentTunnel
                 /\ isConnected' => connected
    <2>1. ASSUME NEW d \in Callers \ {c}, wpc'[d] = wpc[d], local'[d] = local[d],
                 tunnel' = tunnel \/ wpc[d] = "idle"
          PROVE  LocalInv(d)' /\ NestedInv(d)'
      <3>1. LocalInv(d) /\ NestedInv(d)
        BY DEF WInv
      <3>2. CASE tunnel' = tunnel
        BY <1>0, <2>1, <3>1, <3>2 DEF LocalInv, NestedInv
      <3>3. CASE wpc[d] = "idle"
        BY <1>0, <2>1, <3>1, <3>3 DEF LocalInv, NestedInv
      <3>4. QED
        BY <2>1, <3>2, <3>3
    <2>2. QED
      BY <1>0, <1>2, <2>1 DEF WInv
  <1>3. wpc[c] # "idle" => \A d \in Callers \ {c} : wpc[d] = "idle"
    BY DEF WInv, WExclusive
  <1>4. ASSUME NEW x \in Texts, Connect(c, x) PROVE
               /\ wpc'[c] = "prepare" /\ local'[c] = [tunnel |-> NULL, text |-> x, config |-> NULL]
               /\ pc[c] = "ready"
    BY <1>0, <1>1, <1>4 DEF Connect, WGoto, SetLocals, NestedInv
  <1>5. CASE \E x \in Texts : Connect(c, x)
    <2>1. PICK x \in Texts : Connect(c, x)
      BY <1>5
    <2>2. x # NULL /\ local'[c].text = x /\ wpc'[c] = "prepare" /\ pc[c] = "ready"
      <3>1. local'[c] = [tunnel |-> NULL, text |-> x, config |-> NULL]
        BY <1>4, <2>1
      <3>2. wpc'[c] = "prepare" /\ pc[c] = "ready"
        BY <1>4, <2>1
      <3>3. x # NULL
        BY TextAssumption
      <3>4. QED
        BY <3>1, <3>2, <3>3, SMT
    <2>3. LocalInv(c)' /\ NestedInv(c)'
      BY <1>0, <2>2 DEF LocalInv, NestedInv
    <2>4. QED
      BY <1>0, <1>1, <2>1, <2>2, <2>3 DEF Connect, WGoto, SetLocals, WLabel
  <1>6. CASE Retry(c)
    BY <1>0, <1>1, <1>6 DEF Retry, WGoto, SetLocals, LocalInv, NestedInv, WLabel
  <1>7. CASE Disconnect(c)
    BY <1>0, <1>1, <1>7 DEF Disconnect, WGoto, SetLocals, LocalInv, NestedInv, WLabel
  <1>8. CASE Prepare(c)
    <2>1. pc[c] = "ready" /\ local[c].text # NULL
      BY <1>1, <1>8 DEF Prepare, LocalInv, NestedInv
    <2>2. CASE \E o : WLeave(c, o)
      <3>1. wpc'[c] = "idle" /\ \A d \in Callers \ {c} : wpc'[d] = wpc[d] /\ local'[d] = local[d]
        BY <1>0, <2>2 DEF WLeave, WGoto
      <3>2. LocalInv(c)' /\ NestedInv(c)'
        BY <1>0, <2>1, <3>1 DEF LocalInv, NestedInv
      <3>3. QED
        BY <1>1, <1>8, <3>1, <3>2 DEF Prepare, WLabel
    <2>3. CASE WGoto(c, "pick") /\ \E g \in Configs : /\ TextOf[g] = local[c].text
                                                      /\ SetLocals(c, NULL, local[c].text, g)
      <3>1. PICK g \in Configs : TextOf[g] = local[c].text /\ SetLocals(c, NULL, local[c].text, g)
        BY <2>3
      <3>2. /\ wpc'[c] = "pick" /\ local'[c].text = local[c].text /\ local'[c].config = g
            /\ \A d \in Callers \ {c} : wpc'[d] = wpc[d] /\ local'[d] = local[d]
        BY <1>0, <2>3, <3>1 DEF WGoto, SetLocals
      <3>3. LocalInv(c)' /\ NestedInv(c)'
        BY <1>0, <2>1, <3>1, <3>2, NullAssumption DEF LocalInv, NestedInv
      <3>4. QED
        BY <1>1, <1>8, <3>2, <3>3 DEF Prepare, WLabel
    <2>4. QED
      BY <1>8, <2>2, <2>3 DEF Prepare
  <1>9. CASE PickTunnel(c)
    <2>1. /\ pc[c] = "ready" /\ local[c].text # NULL /\ local[c].config # NULL
          /\ TextOf[local[c].config] = local[c].text
      BY <1>1, <1>9 DEF PickTunnel, LocalInv, NestedInv
    <2>2. PICK t \in Tunnels : /\ SetLocals(c, t, local[c].text, local[c].config)
                               /\ \/ tunnel = t /\ WGoto(c, "setUp")
                                  \/ tunnel = NULL /\ WGoto(c, "store")
      BY <1>0, <1>9 DEF PickTunnel
    <2>3. /\ local'[c].text = local[c].text /\ local'[c].config = local[c].config
          /\ local'[c].tunnel = t
          /\ \/ tunnel = t /\ wpc'[c] = "setUp"
             \/ tunnel = NULL /\ wpc'[c] = "store"
          /\ \A d \in Callers \ {c} : wpc'[d] = wpc[d] /\ local'[d] = local[d]
      BY <1>0, <2>2 DEF WGoto, SetLocals
    <2>4. UNCHANGED <<tunnel, isConnected>> /\ t # NULL
      BY <1>9, NullAssumption DEF PickTunnel
    <2>5. LocalInv(c)' /\ NestedInv(c)'
      BY <1>0, <2>1, <2>3, <2>4 DEF LocalInv, NestedInv
    <2>6. QED
      BY <1>1, <2>3, <2>4, <2>5 DEF WLabel
  <1>10. CASE StoreTunnel(c)
    BY <1>0, <1>1, <1>3, <1>10 DEF StoreTunnel, WGoto, LocalInv, NestedInv, WLabel
  <1>11. CASE UpReturns(c)
    <2>1. result[c] = "ok" => connected
      <3>1. \A d \in Callers : pc[d] = "ready"
        BY <1>3, <1>11 DEF UpReturns, WInv, NestedInv
      <3>2. service # "clear"
        BY <1>11 DEF UpReturns, WInv, WExclusive
      <3>3. result[c] = "ok" => currentTunnel # NULL
        BY <1>1, <1>11 DEF UpReturns, NestedInv, LocalInv
      <3>4. QED
        BY <3>1, <3>2, <3>3 DEF SerialInv, IdleInv, Down
    <2>2. QED
      BY <1>0, <1>1, <1>11, <2>1 DEF UpReturns, WGoto, WLeave, LocalInv, NestedInv, WLabel
  <1>12. CASE DisconnectNothing(c)
    BY <1>0, <1>1, <1>12 DEF DisconnectNothing, WGoto, WLeave, LocalInv, NestedInv, WLabel
  <1>13. CASE DownReturns(c)
    BY <1>0, <1>1, <1>3, <1>13 DEF DownReturns, WGoto, WLeave, LocalInv, NestedInv, WLabel
  <1>14. QED
    BY <1>5, <1>6, <1>7, <1>8, <1>9, <1>10, <1>11, <1>12, <1>13

(* A caller that is outside setState, or whose call the step does not touch, *)
(* keeps its part of the invariant.                                          *)
LEMMA OtherCaller ==
  ASSUME NEW d \in Callers, LocalInv(d), NestedInv(d), wpc'[d] = wpc[d], local'[d] = local[d],
         tunnel' = tunnel, pc'[d] = pc[d], frame'[d] = frame[d], result'[d] = result[d],
         wpc[d] \in {"up", "down"} => UNCHANGED <<currentTunnel, currentConfig>>
  PROVE  LocalInv(d)' /\ NestedInv(d)'
  BY DEF LocalInv, NestedInv

(* permissionCallback and the outcome are not part of the invariant.         *)
LEMMA NothingChanges ==
  ASSUME WInv, UNCHANGED <<vars, tunnel, isConnected, wpc, local>>
  PROVE  WInv'
  <1>1. UNCHANGED <<currentTunnel, currentConfig, connected, service, pc, frame, result>>
    BY DEF vars, backendVars, serviceVars, callVars
  <1>2. ASSUME NEW d \in Callers  PROVE LocalInv(d)' /\ NestedInv(d)'
    BY <1>1, OtherCaller DEF WInv
  <1>3. WExclusive'
    BY <1>1 DEF WInv, WExclusive
  <1>4. QED
    BY <1>1, <1>2, <1>3 DEF WInv

(* Entering setState *)
LEMMA EnterInv ==
  ASSUME TypeOK, WTypeOK, SerialInv, WInv, WExclusive', NEW c \in Callers,
         CallUp(c) \/ CallDown(c)
  PROVE  WInv'
  <1>1. /\ LocalInv(c) /\ NestedInv(c) /\ (currentTunnel # NULL => tunnel = currentTunnel)
        /\ isConnected => connected
    BY DEF WInv
  <1>2. /\ UNCHANGED <<tunnel, isConnected, local, currentTunnel, currentConfig, connected>>
        /\ wpc'[c] = IF CallUp(c) THEN "up" ELSE "down"
        /\ \A d \in Callers \ {c} : wpc'[d] = wpc[d]
    BY DEF CallUp, CallDown, WGoto, WTypeOK, SetStateUp, SetStateDown, SetStateNothing, backendVars
  <1>3. \A d \in Callers \ {c} : pc'[d] = pc[d] /\ frame'[d] = frame[d] /\ result'[d] = result[d]
    BY DEF CallUp, CallDown, SetStateUp, SetStateDown, SetStateNothing, Leave, Goto, TypeOK, CallTypeOK
  <1>4. LocalInv(c)'
    BY <1>1, <1>2 DEF LocalInv, CallUp, CallDown
  <1>5. NestedInv(c)'
    <2>1. CASE CallUp(c)
      <3>1. \E st \in {"switch", "up"} : frame'[c] = Call(local[c].tunnel, local[c].config, st)
        BY <2>1 DEF CallUp, SetStateUp, TypeOK, CallTypeOK
      <3>2. pc'[c] # "ready"
        BY <2>1 DEF CallUp, SetStateUp, Goto, TypeOK, CallTypeOK
      <3>3. local[c].tunnel = tunnel
        BY <1>1, <2>1 DEF LocalInv, CallUp
      <3>4. QED
        BY <1>1, <1>2, <2>1, <3>1, <3>2, <3>3, SMT DEF NestedInv, Call
    <2>2. CASE CallDown(c) /\ SetStateDown(c, local[c].tunnel, "DOWN", NULL)
      <3>1. frame'[c] = Call(local[c].tunnel, NULL, "down") /\ pc'[c] = "close"
        BY <2>2 DEF SetStateDown, Goto, TypeOK, CallTypeOK
      <3>2. wpc'[c] = "down"
        BY <2>2 DEF CallDown, WGoto, WTypeOK
      <3>3. Call(local[c].tunnel, NULL, "down").stage = "down"
        BY DEF Call
      <3>4. frame'[c].stage = "down"
        BY <3>1, <3>3
      <3>5. pc'[c] # "ready" /\ wpc'[c] # "up"
        BY <3>1, <3>2
      <3>6. QED
        BY <3>2, <3>4, <3>5 DEF NestedInv
    <2>3. CASE CallDown(c) /\ SetStateNothing(c, local[c].tunnel, "DOWN", NULL)
      <3>1. currentTunnel # local[c].tunnel /\ pc'[c] = "ready"
        BY <2>3 DEF SetStateNothing, NothingToDo, Requested, getState, Leave, Goto, TypeOK, CallTypeOK
      <3>2. currentTunnel = NULL
        BY <1>1, <2>3, <3>1 DEF LocalInv, CallDown
      <3>3. wpc'[c] = "down"
        BY <2>3 DEF CallDown, WGoto, WTypeOK
      <3>4. QED
        BY <1>2, <3>1, <3>2, <3>3 DEF NestedInv
    <2>4. QED
      BY <2>1, <2>2, <2>3 DEF CallDown
  <1>6. ASSUME NEW d \in Callers \ {c}  PROVE LocalInv(d)' /\ NestedInv(d)'
    BY <1>2, <1>3, OtherCaller DEF WInv
  <1>7. QED
    BY <1>1, <1>2, <1>4, <1>5, <1>6 DEF WInv

(* Inside setState: its locals stay as connect or disconnect gave them, and  *)
(* what it publishes is the tunnel in the field.                             *)
LEMMA InsideInv ==
  ASSUME TypeOK, WTypeOK, SerialInv, WInv, WExclusive', Exclusive', NEW c \in Callers, InSetState(c)
  PROVE  WInv'
  <1>1. /\ LocalInv(c) /\ NestedInv(c) /\ (currentTunnel # NULL => tunnel = currentTunnel)
        /\ (isConnected => connected)
        /\ Step(c) /\ wpc[c] \in {"up", "down"} /\ UNCHANGED <<tunnel, wpc, local>>
    BY DEF WInv, InSetState
  <1>2. pc[c] # "ready" /\ CallInv(c) /\ pc[c] \in Label /\ frame[c] \in Frames
    BY <1>1 DEF Step, Authorize, GetService, ServiceTimeout, Attach, Establish, TurnOn, Publish,
           Close, TurnOff, StopSelf, Notify, SerialInv, TypeOK, CallTypeOK
  <1>3. \A d \in Callers \ {c} : wpc[d] = "idle"
    BY <1>1 DEF WInv, WExclusive
  <1>4. (pc[c] # "notify" => connected' = connected) /\ (isConnected' => connected')
    BY <1>1 DEF InSetState, Step, Authorize, GetService, ServiceTimeout, Attach, Establish, TurnOn,
       Publish, Close, TurnOff, StopSelf, Notify
  <1>5. currentTunnel' # NULL => tunnel = currentTunnel'
    <2>1. CASE currentTunnel' \in {currentTunnel, NULL}
      BY <1>1, <2>1
    <2>2. CASE Publish(c) /\ currentTunnel' = InternalTunnel(c)
      BY <1>1, <1>2, <2>2 DEF Publish, CallInv, NestedInv, InternalTunnel
    <2>3. QED
      BY <1>1, <2>1, <2>2 DEF Step, Authorize, GetService, ServiceTimeout, Attach, Establish, TurnOn,
         Publish, Close, TurnOff, StopSelf, Notify, backendVars
  <1>6. ASSUME NEW d \in Callers \ {c}  PROVE LocalInv(d)' /\ NestedInv(d)'
    <2>1. LocalInv(d) /\ NestedInv(d) /\ wpc[d] = "idle" /\ pc[d] = "ready"
      BY <1>3 DEF WInv, NestedInv
    <2>2. pc'[d] = pc[d]
      BY <1>1 DEF Step, Authorize, GetService, ServiceTimeout, Attach, Establish, TurnOn, Publish,
         Close, TurnOff, StopSelf, Notify, Threw, Returned, Leave, Goto, TypeOK, CallTypeOK
    <2>3. QED
      BY <1>1, <2>1, <2>2 DEF LocalInv, NestedInv
  <1>7. LocalInv(c)'
    BY <1>1 DEF LocalInv
  <1>8. CASE pc'[c] # "ready"
    <2>1. ~\E o : Leave(c, o)
      BY <1>8 DEF Leave, Goto, TypeOK, CallTypeOK
    <2>2. \/ UNCHANGED frame
          \/ frame' = [frame EXCEPT ![c].handleToClose = currentTunnelHandle]
          \/ frame[c].stage # "down" /\ \E s \in Stage \ {"down"} : SetStage(c, s)
      <3>1. Threw(c) => frame[c].stage # "down" /\ \E s \in Stage \ {"down"} : SetStage(c, s)
        BY <2>1 DEF Threw, Stage
      <3>2. Returned(c) => frame[c].stage # "down" /\ \E s \in Stage \ {"down"} : SetStage(c, s)
        BY <2>1 DEF Returned, Stage
      <3>3. QED
        BY <1>1, <3>1, <3>2 DEF Step, Authorize, GetService, ServiceTimeout, Attach, Establish,
           TurnOn, Publish, Close, TurnOff, StopSelf, Notify
    <2>3. /\ frame'[c].tunnel = frame[c].tunnel /\ frame'[c].config = frame[c].config
          /\ frame'[c].originalTunnel = frame[c].originalTunnel
          /\ frame'[c].stage = "down" <=> frame[c].stage = "down"
      <3>1. frame \in [Callers -> Frames]
        BY DEF TypeOK, CallTypeOK
      <3>2. CASE UNCHANGED frame
        BY <3>2
      <3>3. CASE frame' = [frame EXCEPT ![c].handleToClose = currentTunnelHandle]
        BY <3>1, <3>3 DEF Frames
      <3>4. CASE frame[c].stage # "down" /\ \E s \in Stage \ {"down"} : SetStage(c, s)
        BY <3>1, <3>4 DEF SetStage, Frames
      <3>5. QED
        BY <2>2, <3>2, <3>3, <3>4
    <2>4. NestedInv(c)'
      BY <1>1, <1>2, <1>8, <2>3 DEF NestedInv
    <2>5. QED
      BY <1>1, <1>4, <1>5, <1>6, <1>7, <2>4 DEF WInv
  <1>9. CASE pc'[c] = "ready"
    <2>1. Outcome(c)
      BY <1>1, <1>2, <1>9, OutcomeStep DEF Next
    <2>2. result'[c] \in {"ok", "exception"}
      BY <2>1 DEF Outcome
    <2>3. NestedInv(c)'
      <3>1. CASE wpc[c] = "up"
        BY <1>1, <1>2, <1>9, <2>1, <2>2, <3>1 DEF NestedInv, Outcome
      <3>2. CASE wpc[c] = "down"
        <4>1. frame[c].stage = "down"
          BY <1>1, <1>2, <3>2 DEF NestedInv
        <4>2. currentTunnel' = NULL
          <5>1. CASE Leave(c, "exception") /\ currentTunnel' = NULL
            BY <5>1
          <5>2. CASE Notify(c)
            BY <1>2, <4>1, <5>2 DEF Notify, CallInv, InternalState, Down, backendVars
          <5>3. QED
            BY <1>1, <1>9, <5>1, <5>2, LastStep
        <4>3. QED
          BY <1>1, <1>9, <3>2, <4>2 DEF NestedInv
      <3>3. QED
        BY <1>1, <3>1, <3>2
    <2>4. QED
      BY <1>1, <1>4, <1>5, <1>6, <1>7, <2>3 DEF WInv
  <1>10. QED
    BY <1>8, <1>9


(* The service and the platform *)
LEMMA OutsideInv ==
  ASSUME TypeOK, WTypeOK, SerialInv, WInv, WExclusive', Outside
  PROVE  WInv'
  <1>1. /\ UNCHANGED <<tunnel, wpc, local, frame, result>>
        /\ (currentTunnel # NULL => tunnel = currentTunnel) /\ (isConnected => connected)
        /\ \A c \in Callers : LocalInv(c) /\ NestedInv(c)
    BY DEF Outside, WInv, Service, OnCreate, OnDestroy, OnDestroyTurnOff, OnDestroyClear,
       OnDestroyReplace, Platform, Revoke, Grant, AlwaysOnStart, callVars
  <1>2. \A c \in Callers : pc'[c] = "ready" <=> pc[c] = "ready"
    BY DEF Outside, Service, OnCreate, OnDestroy, OnDestroyTurnOff, OnDestroyClear,
       OnDestroyReplace, Platform, Revoke, Grant, AlwaysOnStart, callVars
  <1>3. CASE OnDestroyClear
    <2>1. \A c \in Callers : wpc[c] = "idle"
      BY <1>3 DEF OnDestroyClear, WInv, WExclusive
    <2>2. \A c \in Callers : LocalInv(c)' /\ NestedInv(c)'
      BY <1>1, <1>2, <2>1 DEF LocalInv, NestedInv
    <2>3. currentTunnel' = NULL /\ ~isConnected'
      BY <1>3, NullAssumption DEF OnDestroyClear, Outside
    <2>4. QED
      BY <2>2, <2>3 DEF WInv
  <1>4. CASE UNCHANGED <<currentTunnel, currentConfig, connected>>
    <2>1. \A c \in Callers : LocalInv(c)' /\ NestedInv(c)'
      BY <1>1, <1>2, <1>4, SMT DEF LocalInv, NestedInv
    <2>2. isConnected' => connected'
      BY <1>1, <1>4 DEF Outside
    <2>3. QED
      BY <1>1, <1>4, <2>1, <2>2 DEF WInv
  <1>5. QED
    BY <1>3, <1>4 DEF Outside, Service, OnCreate, OnDestroy, OnDestroyTurnOff, OnDestroyReplace,
       Platform, Revoke, Grant, AlwaysOnStart, backendVars

(* The whole invariant: the types, GoBackend's and WireGuardBackend's.       *)
LEMMA WholeInit == WInit => TypeOK /\ WTypeOK /\ SerialInv /\ WInv
  <1> SUFFICES ASSUME WInit  PROVE TypeOK /\ WTypeOK /\ SerialInv /\ WInv
    OBVIOUS
  <1>1. TypeOK /\ SerialInv
    BY TypeInit, SerialInvInit DEF WInit
  <1>2. NoLocals \in Locals
    BY DEF NoLocals, Locals
  <1>3. WTypeOK
    BY <1>2 DEF WInit, WTypeOK, WLabel
  <1>4. WInv
    BY DEF WInit, Init, WInv, WExclusive, LocalInv, NestedInv
  <1>5. QED
    BY <1>1, <1>3, <1>4

(* A call leaves the labels inside setState for "idle" only once setState is *)
(* over.                                                                     *)
LEMMA OutOfUpDown ==
  ASSUME WTypeOK, WNext, NEW c \in Callers, wpc[c] \in {"up", "down"}, pc[c] # "ready"
  PROVE  wpc'[c] # "idle"
  <1>1. ASSUME NEW d \in Callers, NEW l, WGoto(d, l), d # c \/ l # "idle"  PROVE wpc'[c] # "idle"
    BY <1>1 DEF WGoto, WTypeOK
  <1>2. ASSUME NEW d \in Callers, (\E x \in Texts : Connect(d, x)) \/ Retry(d) \/ Disconnect(d)
        PROVE  wpc'[c] # "idle"
    BY <1>1, <1>2 DEF Connect, Retry, Disconnect
  <1>3. ASSUME NEW d \in Callers, PickTunnel(d) \/ StoreTunnel(d) \/ CallUp(d) \/ CallDown(d)
        PROVE  wpc'[c] # "idle"
    <2>1. \E l \in {"store", "setUp", "up", "down"} : WGoto(d, l)
      BY <1>3 DEF PickTunnel, StoreTunnel, CallUp, CallDown
    <2>2. QED
      BY <1>1, <2>1
  <1>4. ASSUME NEW d \in Callers, Prepare(d)  PROVE wpc'[c] # "idle"
    <2>1. d # c
      BY <1>4 DEF Prepare
    <2>2. QED
      BY <1>1, <1>4, <2>1 DEF Prepare, WLeave
  <1>5. ASSUME NEW d \in Callers, UpReturns(d) \/ DisconnectNothing(d) \/ DownReturns(d)
        PROVE  wpc'[c] # "idle"
    <2>1. d # c
      BY <1>5 DEF UpReturns, DisconnectNothing, DownReturns
    <2>2. QED
      BY <1>1, <1>5, <2>1 DEF UpReturns, DisconnectNothing, DownReturns, WLeave
  <1>6. ASSUME NEW d \in Callers, InSetState(d)  PROVE wpc'[c] # "idle"
    BY <1>6 DEF InSetState
  <1>7. CASE setPermissionCallback \/ Outside
    BY <1>7 DEF setPermissionCallback, Outside
  <1>8. QED
    BY <1>2, <1>3, <1>4, <1>5, <1>6, <1>7 DEF WNext, CallerStep

LEMMA WholeStep ==
  TypeOK /\ WTypeOK /\ SerialInv /\ WInv /\ [WNext /\ WExclusive']_wvars
    => (TypeOK /\ WTypeOK /\ SerialInv /\ WInv)' /\ [Next /\ Exclusive']_vars
  <1> SUFFICES ASSUME TypeOK, WTypeOK, SerialInv, WInv, [WNext /\ WExclusive']_wvars
               PROVE  (TypeOK /\ WTypeOK /\ SerialInv /\ WInv)' /\ [Next /\ Exclusive']_vars
    OBVIOUS
  <1>1. WTypeOK'
    BY WTypeStep
  <1>2. CASE UNCHANGED wvars
    <2>1. UNCHANGED vars /\ UNCHANGED appVars
      BY <1>2 DEF wvars
    <2>2. TypeOK' /\ SerialInv'
      BY <2>1, TypeStep, SerialInvStep
    <2>3. WInv'
      BY <2>1, NothingChanges DEF appVars, WInv
    <2>4. QED
      BY <1>1, <2>1, <2>2, <2>3
  <1>3. CASE WNext /\ WExclusive'
    <2>1. Next \/ UNCHANGED vars
      BY <1>3, InnerStep
    <2>2. TypeOK'
      BY <2>1, TypeStep
    <2>3. Exclusive'
      <3>1. ASSUME NEW c \in Callers, pc'[c] # "ready"  PROVE wpc'[c] # "idle"
        <4>1. pc[c] # "ready" => wpc[c] \in {"up", "down"}
          BY DEF WInv, NestedInv
        <4>2. CASE UNCHANGED vars
          <5>1. pc[c] # "ready"
            BY <3>1, <4>2 DEF vars, callVars
          <5>2. QED
            BY <1>3, <4>1, <5>1, OutOfUpDown
        <4>3. ASSUME NEW d \in Callers, CallUp(d) \/ CallDown(d)  PROVE wpc'[c] # "idle"
          BY <3>1, <4>1, <4>3 DEF CallUp, CallDown, WGoto, WTypeOK, SetStateUp, SetStateDown,
             SetStateNothing, Leave, Goto, TypeOK, CallTypeOK
        <4>4. ASSUME NEW d \in Callers, InSetState(d)  PROVE wpc'[c] # "idle"
          <5>1. d = c \/ pc'[c] = pc[c]
            BY <4>4 DEF InSetState, Step, Authorize, GetService, ServiceTimeout, Attach, Establish,
               TurnOn, Publish, Close, TurnOff, StopSelf, Notify, Threw, Returned, Leave, Goto,
               TypeOK, CallTypeOK
          <5>2. QED
            BY <3>1, <4>1, <4>4, <5>1 DEF InSetState
        <4>5. CASE Outside
          <5>1. pc[c] # "ready"
            BY <3>1, <4>5 DEF Outside, Service, OnCreate, OnDestroy, OnDestroyTurnOff,
               OnDestroyClear, OnDestroyReplace, Platform, Revoke, Grant, AlwaysOnStart, callVars
          <5>2. QED
            BY <4>1, <4>5, <5>1 DEF Outside
        <4>6. QED
          BY <1>3, <4>2, <4>3, <4>4, <4>5 DEF WNext, CallerStep, Connect, Retry, Disconnect,
             Prepare, PickTunnel, StoreTunnel, UpReturns, DisconnectNothing, DownReturns,
             setPermissionCallback
      <3>2. QED
        BY <1>3, <3>1 DEF WExclusive, Exclusive
    <2>4. [Next /\ Exclusive']_vars
      BY <2>1, <2>3
    <2>5. SerialInv'
      BY <2>4, SerialInvStep
    <2>6. WInv'
      <3>1. ASSUME NEW c \in Callers,
                   \/ (\E x \in Texts : Connect(c, x)) \/ Retry(c) \/ Disconnect(c) \/ Prepare(c)
                   \/ PickTunnel(c) \/ StoreTunnel(c) \/ UpReturns(c) \/ DisconnectNothing(c)
                   \/ DownReturns(c)
            PROVE  WInv'
        <4>1. UNCHANGED vars
          BY <3>1 DEF Connect, Retry, Disconnect, Prepare, PickTunnel, StoreTunnel, UpReturns,
                      DisconnectNothing, DownReturns
        <4>2. QED
          BY <1>3, <3>1, <4>1, AppStepInv
      <3>2. ASSUME NEW c \in Callers, CallUp(c) \/ CallDown(c)  PROVE WInv'
        BY <1>3, <3>2, EnterInv
      <3>3. ASSUME NEW c \in Callers, InSetState(c)  PROVE WInv'
        BY <1>3, <2>3, <3>3, InsideInv
      <3>4. CASE Outside
        BY <1>3, <3>4, OutsideInv
      <3>5. CASE setPermissionCallback
        BY <3>5, NothingChanges DEF setPermissionCallback
      <3>6. QED
        BY <1>3, <3>1, <3>2, <3>3, <3>4, <3>5 DEF WNext, CallerStep
    <2>7. QED
      BY <1>1, <2>2, <2>4, <2>5, <2>6
  <1>4. QED
    BY <1>2, <1>3

(* WireGuardBackend used by one caller at a time keeps its fields, its       *)
(* callers' locals and GoBackend's calls in step.                            *)
THEOREM WholeCorrect == WSerialSpec => [](TypeOK /\ WTypeOK /\ SerialInv /\ WInv)
  BY WholeInit, WholeStep, PTL DEF WSerialSpec

(* Serial use of WireGuardBackend is serial use of GoBackend, so everything  *)
(* proved of GoBackend holds inside it.                                      *)
THEOREM UsesGoBackendSerially == WSerialSpec => SerialSpec
  <1>1. WInit => Init
    BY DEF WInit
  <1>2. QED
    BY <1>1, WholeCorrect, WholeStep, PTL DEF WSerialSpec, SerialSpec

(* The tunnel that is up is the one disconnect would take down.              *)
THEOREM Owned == WSerialSpec => []TunnelOwned
  <1>1. WInv => TunnelOwned
    BY DEF WInv, TunnelOwned
  <1>2. QED
    BY <1>1, WholeCorrect, PTL

(* isConnected() never reports a tunnel that has no device.                  *)
THEOREM NotStale == WSerialSpec => []ConnectedIsUp
  <1>1. ASSUME TypeOK, SerialInv, WInv  PROVE ConnectedIsUp
    <2>1. SUFFICES ASSUME WQuiet, isConnected  PROVE currentTunnel # NULL /\ Running # {}
      BY DEF ConnectedIsUp
    <2>2. connected /\ IdleInv /\ service # "clear"
      BY <1>1, <2>1 DEF WInv, WQuiet, NestedInv, SerialInv
    <2>3. Up
      BY <2>2 DEF IdleInv
    <2>4. currentTunnelHandle \in Handles
      BY <1>1, <2>3 DEF Up, TypeOK, StateTypeOK
    <2>5. QED
      BY <2>3, <2>4 DEF Up, Running
  <1>2. QED
    BY <1>1, WholeCorrect, PTL


(* How a call of connect or disconnect may end *)
LEMMA CallOutcomeStep ==
  ASSUME TypeOK, WTypeOK, SerialInv, WInv, WNext, NEW c \in Callers,
         wpc[c] # "idle", wpc'[c] = "idle"
  PROVE  CallOutcome(c)
  <1>1. Prepare(c) \/ UpReturns(c) \/ DisconnectNothing(c) \/ DownReturns(c)
    <2>1. ASSUME NEW d \in Callers, NEW l, WGoto(d, l)  PROVE d = c /\ l = "idle"
      BY <2>1 DEF WGoto, WTypeOK
    <2>2. wpc' # wpc
      OBVIOUS
    <2>3. ASSUME NEW d \in Callers, (\E x \in Texts : Connect(d, x)) \/ Retry(d) \/ Disconnect(d)
          PROVE  FALSE
      BY <2>1, <2>3 DEF Connect, Retry, Disconnect
    <2>4. ASSUME NEW d \in Callers, PickTunnel(d) \/ StoreTunnel(d) \/ CallUp(d) \/ CallDown(d)
          PROVE  FALSE
      <3>1. \E l \in {"store", "setUp", "up", "down"} : WGoto(d, l)
        BY <2>4 DEF PickTunnel, StoreTunnel, CallUp, CallDown
      <3>2. QED
        BY <2>1, <3>1
    <2>5. ASSUME NEW d \in Callers, InSetState(d)  PROVE FALSE
      BY <2>2, <2>5 DEF InSetState
    <2>6. ASSUME NEW d \in Callers,
                 Prepare(d) \/ UpReturns(d) \/ DisconnectNothing(d) \/ DownReturns(d)
          PROVE  d = c
      BY <2>1, <2>6 DEF Prepare, UpReturns, DisconnectNothing, DownReturns, WLeave
    <2>7. ~setPermissionCallback /\ ~Outside
      BY <2>2 DEF setPermissionCallback, Outside
    <2>8. QED
      BY <2>3, <2>4, <2>5, <2>6, <2>7 DEF WNext, CallerStep
  <1>2. LocalInv(c) /\ NestedInv(c) /\ (currentTunnel # NULL => tunnel = currentTunnel)
    BY DEF WInv
  <1>3. ASSUME pc[c] = "ready"  PROVE IdleInv /\ service # "clear"
    BY <1>3 DEF WInv, WExclusive, NestedInv, SerialInv
  <1>4. CASE Prepare(c)
    BY <1>4 DEF Prepare, WLeave, WGoto, WTypeOK, CallOutcome
  <1>5. CASE UpReturns(c)
    <2>1. CASE result[c] = "ok" /\ isConnected' = TRUE /\ WLeave(c, "connected")
      <3>1. /\ currentTunnel = tunnel /\ tunnel # NULL /\ currentConfig = local[c].config
            /\ TextOf[currentConfig] = local[c].text
        BY <1>2, <1>5, <2>1 DEF UpReturns, LocalInv, NestedInv
      <3>2. Up
        BY <1>3, <1>5, <3>1 DEF UpReturns, IdleInv, Down
      <3>3. currentTunnelHandle \in Running /\ tunnelHandles[currentTunnelHandle] = currentConfig
        BY <3>2 DEF Up, Running, TypeOK, StateTypeOK
      <3>4. Running' = Running /\ UNCHANGED <<tunnelHandles, currentTunnel, tunnel>>
        BY <1>5 DEF UpReturns, Running, vars, backendVars
      <3>5. QED
        BY <2>1, <3>1, <3>3, <3>4 DEF CallOutcome, WLeave
    <2>2. QED
      BY <1>5, <2>1 DEF UpReturns, WLeave, CallOutcome
  <1>6. CASE DisconnectNothing(c) \/ DownReturns(c)
    <2>1. currentTunnel = NULL /\ pc[c] = "ready"
      BY <1>2, <1>6 DEF DisconnectNothing, DownReturns, LocalInv, NestedInv
    <2>2. Down
      BY <1>3, <2>1 DEF IdleInv, Up
    <2>3. Running' = {} /\ ~isConnected' /\ tunnel' = NULL
      BY <1>2, <1>6, <2>2 DEF DisconnectNothing, DownReturns, LocalInv, vars, Running, Down
    <2>4. outcome' # "connected"
      BY <1>6 DEF DisconnectNothing, DownReturns, WLeave
    <2>5. QED
      BY <2>3, <2>4 DEF CallOutcome
  <1>7. QED
    BY <1>1, <1>4, <1>5, <1>6

(* A connect that returns runs the configuration it was asked for, and a     *)
(* disconnect that returns leaves no device.                                 *)
THEOREM CallsDoAsAsked == WSerialSpec => CallOutcomes
  <1>1. TypeOK /\ WTypeOK /\ SerialInv /\ WInv /\ [WNext /\ WExclusive']_wvars =>
          [\A c \in Callers : wpc[c] # "idle" /\ wpc'[c] = "idle" => CallOutcome(c)]_wvars
    BY CallOutcomeStep
  <1>2. QED
    BY <1>1, WholeCorrect, PTL DEF WSerialSpec, CallOutcomes
=============================================================================

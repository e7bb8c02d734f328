------------------------------- MODULE Backend -------------------------------
(***************************************************************************)
(* What a com.wireguard.android.backend.Backend promises its user: the      *)
(* tunnels that are up, and calls of setState that move them towards a goal *)
(* and end either with the goal reached or with nothing up that was not up  *)
(* before the call.  It says nothing of threads, services or devices.       *)
(***************************************************************************)
CONSTANTS
  Callers,   \* threads that may call setState
  Tunnels,
  Configs,
  NULL,      \* no configuration was passed
  Multiple   \* several tunnels may be up at once

VARIABLES
  up,        \* pairs <<tunnel, configuration>> that are up
  active,    \* callers inside setState
  goal,      \* what each active caller wants up
  before     \* what was up when it called

vars == <<up, active, goal, before>>

Init ==
  /\ up = {}
  /\ active = {}
  /\ goal = [c \in Callers |-> {}]
  /\ before = [c \in Callers |-> {}]

Without(t) == {p \in up : p[1] # t}

Begin(c, wanted) ==
  /\ active = {}
  /\ active' = {c}
  /\ goal' = [goal EXCEPT ![c] = wanted]
  /\ before' = [before EXCEPT ![c] = up]
  /\ UNCHANGED up

BringUp(c, t, g) == Begin(c, (IF Multiple THEN Without(t) ELSE {}) \cup {<<t, g>>})
TakeDown(c, t) == Begin(c, Without(t))

(* Inside a call tunnels come and go, but only those asked for or up before, *)
(* and a tunnel never with two configurations.                               *)
Work(c) ==
  /\ c \in active
  /\ up' \subseteq goal[c] \cup before[c]
  /\ \A p, q \in up' : p[1] = q[1] => p = q
  /\ UNCHANGED <<active, goal, before>>

End(c) ==
  /\ c \in active
  /\ up = goal[c] \/ up \subseteq before[c]
  /\ active' = {}
  /\ goal' = [goal EXCEPT ![c] = {}]
  /\ before' = [before EXCEPT ![c] = {}]
  /\ UNCHANGED up

(* Between calls a tunnel may be lost, never gained or changed. *)
Lose ==
  /\ active = {}
  /\ up' \subseteq up
  /\ UNCHANGED <<active, goal, before>>

Next ==
  \/ \E c \in Callers :
       \/ \E t \in Tunnels, g \in Configs \cup {NULL} : BringUp(c, t, g)
       \/ \E t \in Tunnels : TakeDown(c, t)
       \/ Work(c)
       \/ End(c)
  \/ Lose

Spec == Init /\ [][Next]_vars
=============================================================================

------------------------------ MODULE DeviceIo ------------------------------
(***************************************************************************)
(* What wg relies on when it reads or changes a device in the kernel,      *)
(* whatever the system: the promise of kernel_get_device and               *)
(* kernel_set_device to their callers in ipc.c.                            *)
(*                                                                         *)
(* Reading returns the device as it was at one moment of the call, or an   *)
(* error.  Changing hands the kernel the whole request, once, and says so; *)
(* after an error the kernel has taken nothing.                            *)
(*                                                                         *)
(* A device is [attrs, marks, peers], a peer [attrs, marks, aips]: attrs   *)
(* maps the attributes it has to their values, marks are the flags that    *)
(* say what to do (REPLACE_PEERS, REMOVE_ME ...).                          *)
(***************************************************************************)
EXTENDS Sequences

CONSTANTS
  Kernels,    (* the devices the kernel may have                           *)
  NULL

VARIABLES
  op,         (* "get" or "set"                                            *)
  asked,      (* the device that is to be set                              *)
  kern,       (* the device in the kernel, which others change, too        *)
  held,       (* the moment a reader holds on to                           *)
  taken,      (* the request the kernel has taken                          *)
  answer      (* NULL while the call lasts; then [ret, dev]                *)

(* struct wgpeer, struct wgdevice: the lists are sequences. *)
IsPeer(p) ==
  /\ p = [attrs |-> p.attrs, marks |-> p.marks, aips |-> p.aips]
  /\ p.aips \in Seq({p.aips[k] : k \in DOMAIN p.aips})

IsDevice(d) ==
  /\ d = [attrs |-> d.attrs, marks |-> d.marks, peers |-> d.peers]
  /\ d.peers \in Seq({d.peers[k] : k \in DOMAIN d.peers})
  /\ \A k \in DOMAIN d.peers : IsPeer(d.peers[k])

(* What callers ask for are devices; those of the kernel have no marks. *)
Described(requests) ==
  /\ NULL \notin Kernels
  /\ \A d \in Kernels : IsDevice(d) /\ d.marks = {} /\ \A k \in DOMAIN d.peers : d.peers[k].marks = {}
  /\ \A d \in requests : IsDevice(d)

Error == [ret |-> "error", dev |-> NULL]

IoInit(requests) ==
  /\ \/ op = "get" /\ asked = NULL
     \/ op = "set" /\ asked \in requests
  /\ kern \in Kernels
  /\ held = NULL /\ taken = NULL /\ answer = NULL

Change ==
  /\ kern' \in Kernels
  /\ UNCHANGED <<op, asked, held, taken, answer>>

Look ==
  /\ op = "get" /\ answer = NULL
  /\ held' = kern
  /\ UNCHANGED <<op, asked, kern, taken, answer>>

Return ==
  /\ op = "get" /\ answer = NULL /\ held # NULL
  /\ answer' = [ret |-> "ok", dev |-> held]
  /\ UNCHANGED <<op, asked, kern, held, taken>>

Accept ==
  /\ op = "set" /\ answer = NULL
  /\ taken' = asked
  /\ answer' = [ret |-> "ok", dev |-> NULL]
  /\ UNCHANGED <<op, asked, kern, held>>

Fail ==
  /\ answer = NULL
  /\ answer' = Error
  /\ UNCHANGED <<op, asked, kern, held, taken>>

IoNext == Change \/ Look \/ Return \/ Accept \/ Fail

IoVars == <<op, asked, kern, held, taken, answer>>
=============================================================================

-------------------------- MODULE WindowsInterfaces --------------------------
(***************************************************************************)
(* How wg finds the adapters of the WireGuard driver on Windows            *)
(* (ipc-windows.h): kernel_get_wireguard_interfaces lists them and caches  *)
(* the instance id of each; kernel_interface_handle opens one by its name, *)
(* with the cached id or, if its name is not cached, by looking again.     *)
(*                                                                         *)
(* `wg show all' lists and then opens every name of the list; other        *)
(* commands open a name at once.  Adapters come and go meanwhile; one that *)
(* is made again under its old name is another instance.                   *)
(***************************************************************************)
EXTENDS Integers, Sequences, FiniteSets

CONSTANTS
  Instances,     (* instances of adapters                                  *)
  Foreign,       (* a network interface of another driver                  *)
  NameOf,        (* the name of every instance                             *)
  MaxChanges,    (* bound on the adapters that come and go                 *)
  NULL

Names == {NameOf[x] : x \in Instances}

(* NULL is no instance, and neither is an interface of another driver. *)
InstancesApart == NULL \notin Instances /\ Foreign \notin Instances /\ Foreign # NULL

VARIABLES
  present,   (* the instances that are there, one for a name               *)
  stayed,    (* those that have been there since the command began         *)
  pc,
  todo,      (* the instances of the dev_info set not yet looked at        *)
  list,      (* the names listed and not opened                            *)
  cache,     (* cached_kernel_interfaces: names to instances, or NULL      *)
  cached,    (* have_cached_kernel_interfaces                              *)
  iface,     (* the name that is being opened                              *)
  handle,    (* what was opened                                            *)
  missed,    (* whether an instance id could not be read, or access failed *)
  changes

vars == <<present, stayed, pc, todo, list, cache, cached, iface, handle, missed, changes>>

Init ==
  /\ present \in {s \in SUBSET Instances : \A x, y \in s : NameOf[x] = NameOf[y] => x = y}
  /\ stayed = present
  /\ pc \in {"start", "next"} /\ todo = {} /\ cached = FALSE
  /\ list \in (IF pc = "start" THEN {{}} ELSE {{n} : n \in Names})
  /\ cache = [n \in {} |-> NULL] /\ iface = NULL /\ handle = NULL /\ missed = FALSE /\ changes = 0

Moves ==
  /\ changes < MaxChanges /\ changes' = changes + 1
  /\ \E x \in Instances :
       \/ /\ x \notin present /\ \A y \in present : NameOf[y] # NameOf[x]
          /\ present' = present \cup {x} /\ stayed' = stayed
       \/ /\ x \in present
          /\ present' = present \ {x} /\ stayed' = stayed \ {x}
  /\ UNCHANGED <<pc, todo, list, cache, cached, iface, handle, missed>>

(***************************************************************************)
(* kernel_get_wireguard_interfaces                                         *)
(***************************************************************************)
GetClassDevs ==
  /\ pc = "start"
  /\ todo' = present /\ pc' = "list"
  /\ UNCHANGED <<present, stayed, list, cache, cached, iface, handle, missed, changes>>

WithEntry(n, v) == [m \in DOMAIN cache \cup {n} |-> IF m = n THEN v ELSE cache[m]]

(* The entry of a name that was there is kept: find, and not insert. *)
Entry(n) == IF n \in DOMAIN cache THEN cache[n] ELSE NULL

(* One adapter.  One that is gone has no name any more.  An entry is made for the
   name before its instance id is read.                                      *)
ListAdapter ==
  /\ pc = "list"
  /\ \E x \in todo :
       /\ todo' = todo \ {x}
       /\ IF x \in present
          THEN /\ list' \in {list, list \cup {NameOf[x]}}          (* whether it is started *)
               /\ \/ cache' = WithEntry(NameOf[x], x) /\ UNCHANGED missed
                  \/ cache' = WithEntry(NameOf[x], Entry(NameOf[x])) /\ missed' = TRUE
          ELSE UNCHANGED <<list, cache, missed>>
  /\ UNCHANGED <<present, stayed, pc, cached, iface, handle, changes>>

ListEnds ==
  /\ pc = "list" /\ todo = {}
  /\ cached' = TRUE /\ pc' = "next"
  /\ UNCHANGED <<present, stayed, todo, list, cache, iface, handle, missed, changes>>

(***************************************************************************)
(* kernel_interface_handle                                                 *)
(***************************************************************************)
NextName ==
  /\ pc = "next"
  /\ \E n \in list : iface' = n /\ list' = list \ {n}
  /\ pc' = "open" /\ handle' = NULL
  /\ UNCHANGED <<present, stayed, todo, cache, cached, missed, changes>>

(* CM_Get_Device_Interface_ListW of an instance id; of all interfaces if there
   is none.                                                                  *)
InterfacesOf(id) ==
  IF id = NULL THEN present \cup {Foreign} ELSE present \cap {id}

OpenCached ==
  /\ pc = "open" /\ cached /\ iface \in DOMAIN cache
  /\ \/ \E x \in InterfacesOf(cache[iface]) : handle' = x
     \/ handle' = NULL                                         (* EACCES *)
  /\ pc' = "opened"
  /\ UNCHANGED <<present, stayed, todo, list, cache, cached, iface, missed, changes>>

LookAgain ==
  /\ pc = "open" /\ ~(cached /\ iface \in DOMAIN cache)
  /\ todo' = present /\ pc' = "look"
  /\ UNCHANGED <<present, stayed, list, cache, cached, iface, handle, missed, changes>>

(* The first adapter is taken without comparing its name. *)
LookAtAny ==
  /\ pc = "look" /\ handle = NULL
  /\ \E x \in todo :
       /\ todo' = todo \ {x}
       /\ handle' = IF x \in present THEN x ELSE NULL
  /\ UNCHANGED <<present, stayed, pc, list, cache, cached, iface, missed, changes>>

(* One adapter; only with the name that is wanted is its instance id read, and
   its interface.                                                            *)
LookAt ==
  /\ pc = "look" /\ handle = NULL
  /\ \E x \in todo :
       /\ todo' = todo \ {x}
       /\ \/ x \in present /\ NameOf[x] = iface /\ handle' = x /\ UNCHANGED missed
          \/ x \in present /\ NameOf[x] = iface /\ missed' = TRUE /\ UNCHANGED handle
          \/ (x \notin present \/ NameOf[x] # iface) /\ UNCHANGED <<handle, missed>>
  /\ UNCHANGED <<present, stayed, pc, list, cache, cached, iface, changes>>

(* CreateFileW, on what was found. *)
LookEnds ==
  /\ pc = "look" /\ (todo = {} \/ handle # NULL)
  /\ pc' = "opened"
  /\ \/ handle' = (IF handle \in present THEN handle ELSE NULL) /\ UNCHANGED missed
     \/ handle' = NULL /\ missed' = TRUE                         (* EACCES *)
  /\ UNCHANGED <<present, stayed, todo, list, cache, cached, iface, changes>>

Used ==
  /\ pc = "opened"
  /\ pc' = "next"
  /\ UNCHANGED <<present, stayed, todo, list, cache, cached, iface, handle, missed, changes>>

Next ==
  \/ Moves \/ GetClassDevs \/ ListAdapter \/ ListEnds \/ NextName
  \/ OpenCached \/ LookAgain \/ LookAt \/ LookEnds \/ Used

Spec == Init /\ [][Next]_vars

-----------------------------------------------------------------------------
(* The handle is one of an adapter with the name that was asked for, although
   adapters were made and removed since they were listed (wg(8), show:
   "information of specified <interface>").                                  *)
OpensTheInterface ==
  pc = "opened" /\ handle # NULL => handle # Foreign /\ NameOf[handle] = iface

(* So it is whenever all instance ids could be read (kernel_interface_handle). *)
OpensWhatIsKnown == ~missed => OpensTheInterface

(* An adapter that has been there all the time is found by its name when the
   command did not list first: the walk over the adapters ends without it only
   if its instance id could not be read or access to it is refused.          *)
FindsWhatStays ==
  pc = "opened" /\ ~cached /\ handle = NULL /\ ~missed => \A x \in stayed : NameOf[x] # iface

(* Both: although adapters are made and removed after they were listed, the handle
   is one of an adapter with the name that was asked for, whenever all instance ids
   could be read; and a command that did not list the adapters first, so that there
   is no cache to look in, finds an adapter that stays (kernel_interface_handle,
   kernel_get_wireguard_interfaces).                                         *)
FindsTheAdapter == OpensWhatIsKnown /\ FindsWhatStays
=============================================================================

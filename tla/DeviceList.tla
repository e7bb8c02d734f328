----------------------------- MODULE DeviceList -----------------------------
(***************************************************************************)
(* Listing the WireGuard interfaces and showing them: ipc_list_devices,    *)
(* ipc_get_device (ipc.c), the dump of the links of the kernel             *)
(* (ipc-linux.h), the sockets of userspace daemons (ipc-uapi-unix.h) and   *)
(* `wg show all' (show.c).  Links and daemons come and go meanwhile.  The  *)
(* buffer that holds the list is a specification of its own, at the end.   *)
(*                                                                         *)
(* A name under the socket directory is "none", "stale" (the file of a     *)
(* daemon that is gone), "bound" (a daemon that does not listen yet) or    *)
(* "live".  Names of kernel links and of daemons are different, for a      *)
(* daemon has a tun device of that name.                                   *)
(***************************************************************************)
EXTENDS Integers, Sequences, Functions

CONSTANTS
    Kernel,     \* names of kernel WireGuard links
    Daemons,    \* names of interfaces of userspace daemons
    NoName,
    MaxEvents   \* bound: changes of links and daemons

Names == Kernel \cup Daemons

(* A daemon's interface is no kernel WireGuard link.                       *)
NamesApart == Kernel \cap Daemons = {} /\ NoName \notin Names

VARIABLES
    links,      \* the kernel links there are
    sock,       \* [Daemons -> "none", "stale", "bound", "live"]
    events,
    pc,
    todo,       \* links or directory entries still to come
    probe,      \* the socket has_wireguard_interface looks at
    back,       \* what asked: "list" or "get"
    list,       \* the names listed
    shown, failed, status,
    partial,    \* the dump was interrupted
    unsure,     \* daemons probed in vain: socket() failed, or connect() in another way than refused
    always,     \* ghost: interfaces there without a break since the start
    ever        \* ghost: interfaces there at some time since the start

lvars == <<links, sock, events, pc, todo, probe, back, list, shown, failed, status, partial, unsure, always, ever>>

(* The interfaces that can be used.  A socket that is only bound refuses.  *)
There == links \cup {d \in Daemons : sock[d] = "live"}

LInit ==
    /\ links \in SUBSET Kernel
    /\ sock \in [Daemons -> {"none", "stale", "live"}]
    /\ events = 0
    /\ pc = "start" /\ todo = {} /\ probe = NoName /\ back = "list"
    /\ list = <<>> /\ shown = {} /\ failed = {} /\ status = 0 /\ partial = FALSE /\ unsure = {}
    /\ always = {} /\ ever = {}

Follows == always' = always \cap There' /\ ever' = ever \cup There'
Still == UNCHANGED <<links, sock, events, always, ever>>

(***************************************************************************)
(* The kernel and the daemons                                              *)
(***************************************************************************)
LinkChanges(k) ==
    /\ events < MaxEvents /\ events' = events + 1
    /\ links' = IF k \in links THEN links \ {k} ELSE links \cup {k}
    /\ UNCHANGED <<sock, pc, todo, probe, back, list, shown, failed, status, partial, unsure>>
    /\ Follows

(* A daemon removes what is at its path and binds, listens, or dies.       *)
DaemonMoves(d) ==
    /\ events < MaxEvents /\ events' = events + 1
    /\ \/ sock[d] \in {"none", "stale"} /\ sock' = [sock EXCEPT ![d] = "bound"]
       \/ sock[d] = "bound" /\ sock' = [sock EXCEPT ![d] = "live"]
       \/ sock[d] \in {"bound", "live"} /\ sock' = [sock EXCEPT ![d] = "stale"]
    /\ UNCHANGED <<links, pc, todo, probe, back, list, shown, failed, status, partial, unsure>>
    /\ Follows

(***************************************************************************)
(* kernel_get_wireguard_interfaces                                         *)
(***************************************************************************)
Start ==
    /\ pc = "start"
    /\ pc' = "dump" /\ todo' = links
    /\ always' = There /\ ever' = There
    /\ UNCHANGED <<links, sock, events, probe, back, list, shown, failed, status, partial, unsure>>

(* read_devices_cb: a message of the dump; a link that is gone has none.   *)
ReadDevice(k) ==
    /\ pc = "dump" /\ k \in todo
    /\ todo' = todo \ {k}
    /\ list' = IF k \in links THEN Append(list, k) ELSE list
    /\ UNCHANGED <<pc, probe, back, shown, failed, status, partial, unsure>>
    /\ Still

MutDumpEnds ==
    /\ pc = "dump"
    /\ IF todo = {} THEN pc' = "opendir" /\ UNCHANGED todo
       ELSE events > 0 /\ todo' = links /\ UNCHANGED pc
    /\ UNCHANGED <<probe, back, list, shown, failed, status, partial, unsure>>
    /\ Still

(* The end of the dump, or EINTR, which is no error: what was read stays.  *)
DumpEnds ==
    /\ pc = "dump"
    /\ IF todo = {} THEN UNCHANGED partial ELSE events > 0 /\ partial' = TRUE
    /\ pc' = "opendir" /\ todo' = {}
    /\ UNCHANGED <<probe, back, list, shown, failed, status, unsure>>
    /\ Still

(* Any other error of the dump or of opendir, or no memory for a link or,  *)
(* once it was probed, a daemon: ipc_list_devices returns NULL, show 1.    *)
ListFails ==
    /\ pc \in {"dump", "opendir"} \/ (pc = "connect" /\ back = "list")
    /\ pc' = "failed" /\ status' = 1 /\ list' = <<>>
    /\ UNCHANGED <<todo, probe, back, shown, failed, partial, unsure>>
    /\ Still

(***************************************************************************)
(* userspace_get_wireguard_interfaces and the probe of a socket            *)
(***************************************************************************)
OpenDir ==
    /\ pc = "opendir"
    /\ todo' = {d \in Daemons : sock[d] # "none"}
    /\ pc' = "readdir"
    /\ UNCHANGED <<probe, back, list, shown, failed, status, partial, unsure>>
    /\ Still

ReadDir(d) ==
    /\ pc = "readdir" /\ d \in todo
    /\ todo' = todo \ {d} /\ probe' = d /\ back' = "list" /\ pc' = "stat"
    /\ UNCHANGED <<list, shown, failed, status, partial, unsure>>
    /\ Still

DirEnds ==
    /\ pc = "readdir" /\ todo = {}
    /\ pc' = "walk" /\ status' = IF list = <<>> THEN 0 ELSE 1
    /\ UNCHANGED <<todo, probe, back, list, shown, failed, partial, unsure>>
    /\ Still

(* has_wireguard_interface returns true or false.                          *)
Has == pc' = (IF back = "list" THEN "readdir" ELSE "userspace")
       /\ list' = IF back = "list" THEN Append(list, probe) ELSE list
HasNot == pc' = (IF back = "list" THEN "readdir" ELSE "kernel") /\ UNCHANGED list

(* No socket at the path, or socket() fails: there is no such interface.   *)
Stat ==
    /\ pc = "stat"
    /\ IF probe \in Daemons /\ sock[probe] # "none"
       THEN \/ pc' = "connect" /\ UNCHANGED <<list, unsure>>
            \/ HasNot /\ unsure' = unsure \cup {probe}
       ELSE HasNot /\ UNCHANGED unsure
    /\ UNCHANGED <<todo, probe, back, shown, failed, status, partial>>
    /\ Still

(* Refused: the socket is to be removed.  Other failures, which may happen *)
(* to any socket, count as there.                                          *)
Connect ==
    /\ pc = "connect"
    /\ \/ sock[probe] \in {"stale", "bound"} /\ pc' = "unlink" /\ UNCHANGED <<list, unsure>>
       \/ sock[probe] = "live" /\ Has /\ UNCHANGED unsure
       \/ Has /\ unsure' = unsure \cup {probe}
    /\ UNCHANGED <<todo, probe, back, shown, failed, status, partial>>
    /\ Still

Unlink ==
    /\ pc = "unlink"
    /\ sock' = [sock EXCEPT ![probe] = "none"]
    /\ HasNot
    /\ UNCHANGED <<links, events, todo, probe, back, shown, failed, status, partial, unsure>>
    /\ Follows

(***************************************************************************)
(* show_main: each name of the list in turn                                *)
(***************************************************************************)
Walk ==
    /\ pc = "walk" /\ list # <<>>
    /\ probe' = Head(list) /\ back' = "get" /\ pc' = "stat"
    /\ UNCHANGED <<todo, list, shown, failed, status, partial, unsure>>
    /\ Still

Shows == shown' = shown \cup {probe} /\ status' = 0 /\ UNCHANGED failed
Skips == failed' = failed \cup {probe} /\ UNCHANGED <<shown, status>>

(* ipc_get_device fails for what is gone, and may fail for what is there.  *)
GetDevice ==
    /\ pc \in {"userspace", "kernel"}
    /\ \/ Skips
       \/ probe \in There /\ (probe \in Kernel <=> pc = "kernel") /\ Shows
    /\ list' = Tail(list)
    /\ pc' = "walk"
    /\ UNCHANGED <<todo, probe, back, partial, unsure>>
    /\ Still

WalkEnds ==
    /\ pc = "walk" /\ list = <<>>
    /\ pc' = "done"
    /\ UNCHANGED <<todo, probe, back, list, shown, failed, status, partial, unsure>>
    /\ Still

Show == Start \/ DumpEnds \/ ListFails \/ OpenDir \/ DirEnds \/ Stat \/ Connect \/ Unlink \/ Walk
        \/ GetDevice \/ WalkEnds \/ \E n \in Names : ReadDevice(n) \/ ReadDir(n)

LNext == Show \/ (\E k \in Kernel : LinkChanges(k)) \/ (\E d \in Daemons : DaemonMoves(d))

LSpec == LInit /\ [][LNext]_lvars /\ WF_lvars(Show)

(***************************************************************************)
(* Properties                                                              *)
(***************************************************************************)
(* When the list is complete it has no name twice, only interfaces that    *)
(* were there at some time since the command started, and all that were    *)
(* there all the time.  Two things are excepted: links if the dump of them *)
(* was interrupted, and a daemon whose probe failed, which is left out if  *)
(* there was no socket to be had and listed if it could not be connected   *)
(* to but did not refuse (ipc_list_devices, has_wireguard_interface).      *)
ListIsExact ==
    pc = "walk" /\ shown \cup failed = {} =>
        /\ IsInjective(list)
        /\ Range(list) \ unsure \subseteq ever
        /\ (always \cap Daemons) \ unsure \subseteq Range(list)
        /\ ~partial => always \ unsure \subseteq Range(list)

(* `wg show all' exits with an error exactly if the listing failed, or if  *)
(* something was listed and nothing of it could be shown, whatever order   *)
(* the failures come in (show_main).                                       *)
ExitCode ==
    /\ pc = "failed" => status = 1
    /\ pc = "done" => (status = 1 <=> failed # {} /\ shown = {})

(* Both: what `wg show all' lists, no interface left out that stayed and   *)
(* that could be probed, and what its exit code says of it                 *)
(* (ipc_list_devices, show_main).                                          *)
ListIsHonest == ListIsExact /\ ExitCode

(***************************************************************************)
(* The list of interface names of ipc.c: one buffer that holds the names,  *)
(* each with its terminator, and one more terminator at the end.  Only the *)
(* sizes matter: a name is the number of its characters.  size_t has       *)
(* SizeMod values; the memory of a process has fewer, so that the sums of  *)
(* lengths do not wrap, but the doubling of the capacity may.              *)
(***************************************************************************)
CONSTANTS
    Lengths,  \* lengths of names, the empty name included
    SizeMod,  \* 2^64
    MaxNames  \* bound: names added

ASSUME SizeAssumption ==
    /\ Lengths \subseteq Nat
    /\ SizeMod \in Nat /\ SizeMod > 0
    /\ MaxNames \in Nat
    /\ \A l \in Lengths : l + 2 < SizeMod

VARIABLES
    len, cap,  \* of struct string_list
    bytes,     \* how many bytes the buffer really has
    written,   \* the highest index the last call wrote, plus one
    names,     \* lengths of the names added, in order
    ret        \* what the last call returned

vars == <<len, cap, bytes, written, names, ret>>

Init == len = 0 /\ cap = 0 /\ bytes = 0 /\ written = 0 /\ names = <<>> /\ ret = 0

MutNewCap(l) == LET double == (cap * 2) % SizeMod
                IN  IF double < len + l THEN len + l ELSE double

(* The new capacity: twice the old one, or what is needed.                 *)
NewCap(l) == LET double == (cap * 2) % SizeMod
             IN  IF double < len + l + 1 THEN len + l + 1 ELSE double

Grows(l) == l >= cap - len

(* An empty name is not added.                                             *)
AddEmpty(n) ==
    /\ n = 0
    /\ ret' = 0
    /\ UNCHANGED <<len, cap, bytes, written, names>>

(* memcpy of the name with its terminator, then the second terminator.     *)
Store(n) ==
    /\ len' = len + (n + 1)
    /\ written' = len' + 1
    /\ names' = Append(names, n)
    /\ ret' = 0

AddFits(n) ==
    /\ n # 0 /\ ~Grows(n + 1)
    /\ Store(n)
    /\ UNCHANGED <<cap, bytes>>

AddGrows(n) ==
    /\ n # 0 /\ Grows(n + 1)
    /\ bytes' = NewCap(n + 1)
    /\ cap' = NewCap(n + 1)
    /\ Store(n)

AddFails(n) ==
    /\ n # 0 /\ Grows(n + 1)
    /\ ret' = -1
    /\ UNCHANGED <<len, cap, bytes, written, names>>

(* string_list_add, while all lengths together fit the memory              *)
Add(n) ==
    /\ Len(names) < MaxNames
    /\ len + n + 2 < SizeMod
    /\ AddEmpty(n) \/ AddFits(n) \/ AddGrows(n) \/ AddFails(n)

Next == \E n \in Lengths : Add(n)

Spec == Init /\ [][Next]_vars

(***************************************************************************)
(* Properties                                                              *)
(***************************************************************************)
(* Everything string_list_add writes, the second terminator included, is   *)
(* inside the buffer, and cap - len never wraps around.                    *)
InBounds == written <= bytes /\ len <= cap

(* What makes it so: once a name is in, there is room for the second       *)
(* terminator, and the capacity is that of the buffer.                     *)
Inv ==
    /\ len \in Nat /\ cap \in Nat /\ bytes = cap
    /\ written \in Nat
    /\ cap < SizeMod
    /\ (names = <<>> /\ len = 0 /\ cap = 0 /\ written = 0)
       \/ (len + 1 <= cap /\ written = len + 1)

(* A call that fails leaves the names added before as they are, and no     *)
(* call shortens the list.                                                 *)
KeepsNames ==
    [][/\ len' >= len /\ cap' >= len' /\ written' >= written
       /\ ret' = -1 => len' = len /\ written' = written]_vars
=============================================================================

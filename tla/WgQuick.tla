------------------------------ MODULE WgQuick ------------------------------
(***************************************************************************)
(* wg-quick for Android (wg-quick/android.c): a shell script written in C. *)
(* `up' and `down' run external commands one after another (ip, iptables,  *)
(* wg, ndc) against state that outlives the process: the link, the packet  *)
(* filter, the networks of netd and their ip rules.  Each command may fail *)
(* and exits the program; the exit handler of `up' then takes down what    *)
(* was set up.  The process may be killed between any two commands, and    *)
(* several invocations may run at once.                                    *)
(*                                                                         *)
(* A loop of commands whose effects go away together (addresses, routes,   *)
(* DNS servers, users) is one step.  What the values are is the subject of *)
(* WgQuickConfig.                                                          *)
(***************************************************************************)
EXTENDS Integers, FiniteSets

CONSTANTS
    Procs,      \* the invocations of wg-quick, each of them started once
    Ifaces,     \* names of interfaces
    NetIds,     \* the values `random() & 0xfffe' takes
    Matched,    \* Matched[i]: names that `lookup <i>' finds in a rule
    Commented,  \* Commented[i]: names whose comment in a filter rule the expression made of i matches
    OnePerName, \* whether invocations for one name wait for each other
    MaxRunning, \* bound: invocations running at once
    MaxFail,    \* bound: commands that fail for reasons of their own
    MaxKill     \* bound: invocations killed

(* No two invocations work on one name at once, no interface's name is the *)
(* start of another's, and none has a character (`.', `+') that means      *)
(* something else in the regular expressions it is put into unescaped.     *)
Apart ==
    /\ OnePerName /\ "none" \notin Ifaces
    /\ \A i \in Ifaces : Matched[i] = {i} /\ Commented[i] = {i}

VARIABLES
    link,   \* [Ifaces -> what is set on the link; {} when there is none]
    filter, \* [Ifaces -> how many iptables rules of each kind have the name as comment]
    nets,   \* the networks netd knows
    rules,  \* what `ip rule show' lists, one entry per network with a link
    conf,   \* [NetIds -> what is configured on the network]
    proc,   \* the invocations
    last,   \* the invocation that ended last
    cut,    \* names a del_if of which was cut short or missed something
    fails, kills

sys == <<link, filter, nets, rules, conf>>
vars == <<link, filter, nets, rules, conf, proc, last, cut, fails, kills>>

LinkFacts == {"there", "conf", "up", "addr", "mtu"}
NetFacts == {"dns", "routes", "users"}
V4 == {"out4", "in4"}
V6 == {"out6", "in6"}
FilterRules == V4 \cup V6
NoRules == [f \in FilterRules |-> 0]
NoneListed == [i \in Ifaces |-> NoRules]
Deletes == {"del", "save4", "drop4", "save6", "drop6", "rule", "destroy"}

Idle == [pc |-> "idle", cmd |-> "none", name |-> "none", net |-> 0, old |-> 0,
         port |-> FALSE, todo |-> NoneListed, cleanup |-> FALSE, code |-> "none", at |-> "none"]

Init ==
    /\ link = [i \in Ifaces |-> {}]
    /\ filter = [i \in Ifaces |-> NoRules]
    /\ nets = {}
    /\ rules = {}
    /\ conf = [n \in NetIds |-> {}]
    /\ proc = [q \in Procs |-> Idle]
    /\ last = 0
    /\ cut = {}
    /\ fails = 0
    /\ kills = 0

At(q, s) == proc[q].pc = s
I(q) == proc[q].name
N(q) == proc[q].net
Goes(q, s) == proc' = [proc EXCEPT ![q].pc = s] /\ UNCHANGED <<last, cut, fails, kills>>
Ends(q, c) == /\ proc' = [proc EXCEPT ![q].pc = "done", ![q].code = c, ![q].cleanup = FALSE]
              /\ last' = q
              /\ UNCHANGED <<cut, fails, kills>>
Sets(q, fact) == link' = [link EXCEPT ![I(q)] = @ \cup {fact}]
                 /\ UNCHANGED <<filter, nets, rules, conf>>
Inserts(q, f) == filter' = [filter EXCEPT ![I(q)][f] = @ + 1]
                 /\ UNCHANGED <<link, nets, rules, conf>>

Running == {q \in Procs : proc[q].pc \notin {"idle", "done"}}

(* main: auto_su, then the options (WgQuickConfig), then up or down.       *)
Start(q, c, i) ==
    /\ At(q, "idle")
    /\ Cardinality(Running) < MaxRunning
    /\ \A r \in Procs : r < q => proc[r].pc # "idle"
    /\ OnePerName => \A r \in Running : proc[r].name # i
    /\ proc' = [proc EXCEPT ![q].pc = "parse", ![q].cmd = c, ![q].name = i]
    /\ UNCHANGED <<sys, last, cut, fails, kills>>

ParseOptions(q) ==
    /\ At(q, "parse")
    /\ Goes(q, IF proc[q].cmd = "up" THEN "show" ELSE "list")
    /\ UNCHANGED sys

(* cmd_up refuses a link that is there; else its exit handler is armed.    *)
MutShowUnarmed(q) ==
    /\ At(q, "show") /\ link[I(q)] = {}
    /\ proc' = [proc EXCEPT ![q].pc = "add"]
    /\ UNCHANGED <<sys, last, cut, fails, kills>>

Show(q) ==
    /\ At(q, "show")
    /\ IF link[I(q)] # {}
       THEN Ends(q, "exists")
       ELSE /\ proc' = [proc EXCEPT ![q].pc = "add", ![q].cleanup = TRUE]
            /\ UNCHANGED <<last, cut, fails, kills>>
    /\ UNCHANGED sys

AddIf(q) == At(q, "add") /\ link[I(q)] = {} /\ Sets(q, "there") /\ Goes(q, "setconf")

SetConfig(q) == At(q, "setconf") /\ link[I(q)] # {} /\ Sets(q, "conf") /\ Goes(q, "linkup")

(* determine_listen_port: up, read the port (0 if it cannot), down again.  *)
DetermineListenPort(q) ==
    \/ At(q, "linkup") /\ link[I(q)] # {} /\ Sets(q, "up") /\ Goes(q, "port")
    \/ /\ At(q, "port")
       /\ \E port \in BOOLEAN : proc' = [proc EXCEPT ![q].pc = "linkdown", ![q].port = port]
       /\ UNCHANGED <<sys, last, cut, fails, kills>>
    \/ /\ At(q, "linkdown") /\ link[I(q)] # {}
       /\ link' = [link EXCEPT ![I(q)] = @ \ {"up"}]
       /\ UNCHANGED <<filter, nets, rules, conf>>
       /\ Goes(q, "fwmark")

(* up_if: the mark, the filter rules (for the port only if there is one),  *)
(* the link, the network under a random number and the link in it.         *)
UpIf(q) ==
    \/ At(q, "fwmark") /\ link[I(q)] # {} /\ UNCHANGED sys /\ Goes(q, "out4")
    \/ At(q, "out4") /\ Inserts(q, "out4") /\ Goes(q, "out6")
    \/ At(q, "out6") /\ Inserts(q, "out6") /\ Goes(q, IF proc[q].port THEN "in4" ELSE "up")
    \/ At(q, "in4") /\ Inserts(q, "in4") /\ Goes(q, "in6")
    \/ At(q, "in6") /\ Inserts(q, "in6") /\ Goes(q, "up")
    \/ At(q, "up") /\ link[I(q)] # {} /\ Sets(q, "up") /\ Goes(q, "netid")
    \/ /\ At(q, "netid")
       /\ \E n \in NetIds : proc' = [proc EXCEPT ![q].pc = "create", ![q].net = n]
       /\ UNCHANGED <<sys, last, cut, fails, kills>>
    \/ /\ At(q, "create") /\ N(q) \notin nets
       /\ nets' = nets \cup {N(q)}
       /\ UNCHANGED <<link, filter, rules, conf>>
       /\ Goes(q, "addif")
    \/ /\ At(q, "addif") /\ N(q) \in nets /\ link[I(q)] # {}
       /\ rules' = rules \cup {[net |-> N(q), name |-> I(q)]}
       /\ UNCHANGED <<link, filter, nets, conf>>
       /\ Goes(q, "addr")

SetAddr(q) == At(q, "addr") /\ link[I(q)] # {} /\ Sets(q, "addr") /\ Goes(q, "dns")
SetMtu(q) == At(q, "mtu") /\ link[I(q)] # {} /\ Sets(q, "mtu") /\ Goes(q, "users")

(* set_dnses, set_routes and set_users configure the network.              *)
Configures(q, fact, next) ==
    /\ At(q, fact) /\ N(q) \in nets
    /\ conf' = [conf EXCEPT ![N(q)] = @ \cup {fact}]
    /\ UNCHANGED <<link, filter, nets, rules>>
    /\ Goes(q, next)

SetDnses(q) == Configures(q, "dns", "routes")

(* set_routes adds what `wg show allowed-ips' lists; without the link it   *)
(* lists nothing (ReadsNothing).                                           *)
SetRoutes(q) == At(q, "routes") /\ link[I(q)] # {} /\ Configures(q, "routes", "mtu")
SetUsers(q) == Configures(q, "users", "broadcast")

(* broadcast_change is the last command of both; then exit(EXIT_SUCCESS)   *)
(* with the exit handler disarmed.                                         *)
BroadcastChange(q) == At(q, "broadcast") /\ Ends(q, "success") /\ UNCHANGED sys

(* cmd_down: only a link that wg lists is taken down.                      *)
CmdDown(q) ==
    /\ At(q, "list")
    /\ IF link[I(q)] # {} THEN Goes(q, "del") ELSE Ends(q, "absent")
    /\ UNCHANGED sys

After(q) == IF proc[q].cmd = "up" THEN "exit" ELSE "broadcast"

(* What iptables-save lists of one family with a comment that matches, and *)
(* what is left of it.                                                     *)
Listed(q, v) ==
    [i \in Ifaces |-> [f \in FilterRules |->
        IF i \in Commented[I(q)] /\ f \in v THEN filter[i][f] ELSE 0]]
Left(q) == {x \in Ifaces \X FilterRules : proc[q].todo[x[1]][x[2]] > 0}

Drops(q, x) ==
    /\ x \in Left(q) /\ filter[x[1]][x[2]] > 0
    /\ filter' = [filter EXCEPT ![x[1]][x[2]] = @ - 1]
    /\ UNCHANGED <<link, nets, rules, conf, last, cut, fails, kills>>

MutDropRulesOnce(q, save, drop, v, next) ==
    \/ /\ At(q, save)
       /\ proc' = [proc EXCEPT ![q].pc = drop, ![q].todo = Listed(q, v)]
       /\ UNCHANGED <<sys, last, cut, fails, kills>>
    \/ /\ At(q, drop)
       /\ \E x \in Left(q) : Drops(q, x)
       /\ proc' = [proc EXCEPT ![q].pc = next]
    \/ At(q, drop) /\ Left(q) = {} /\ UNCHANGED sys /\ Goes(q, next)

(* The rules that iptables-save listed when it ran are deleted in turn.    *)
DropRules(q, save, drop, v, next) ==
    \/ /\ At(q, save)
       /\ proc' = [proc EXCEPT ![q].pc = drop, ![q].todo = Listed(q, v)]
       /\ UNCHANGED <<sys, last, cut, fails, kills>>
    \/ /\ At(q, drop)
       /\ \E x \in Left(q) :
            Drops(q, x) /\ proc' = [proc EXCEPT ![q].todo[x[1]][x[2]] = @ - 1]
    \/ At(q, drop) /\ Left(q) = {} /\ UNCHANGED sys /\ Goes(q, next)

Finds(q, found) ==
    IF found = {} THEN Goes(q, After(q))
    ELSE /\ \E r \in found : proc' = [proc EXCEPT ![q].pc = "destroy", ![q].old = r.net]
         /\ UNCHANGED <<last, cut, fails, kills>>

MutFindNetworkAny(q) == Finds(q, rules)

(* The network of a rule whose table matches `lookup <iface>': of several, *)
(* the one that is listed first.                                           *)
FindNetwork(q) == Finds(q, {r \in rules : r.name \in Matched[I(q)]})

(* del_if, the body of `down' and of the exit handler of `up': the link,   *)
(* the IPv4 and the IPv6 rules, then the network an ip rule names.         *)
DelIf(q) ==
    \/ /\ At(q, "del") /\ link[I(q)] # {}
       /\ link' = [link EXCEPT ![I(q)] = {}]
       /\ UNCHANGED <<filter, nets, rules, conf>>
       /\ Goes(q, "save4")
    \/ DropRules(q, "save4", "drop4", V4, "save6")
    \/ DropRules(q, "save6", "drop6", V6, "rule")
    \/ At(q, "rule") /\ FindNetwork(q) /\ UNCHANGED sys
    \/ /\ At(q, "destroy") /\ proc[q].old \in nets
       /\ nets' = nets \ {proc[q].old}
       /\ rules' = {r \in rules : r.net # proc[q].old}
       /\ conf' = [conf EXCEPT ![proc[q].old] = {}]
       /\ UNCHANGED <<link, filter>>
       /\ Goes(q, After(q))

(* cmd_up_cleanup returns and the process exits with the code of the       *)
(* command that failed.                                                    *)
CleanupReturns(q) == At(q, "exit") /\ Ends(q, "error") /\ UNCHANGED sys

(***************************************************************************)
(* A command fails because what it works on is not there (or is there      *)
(* already), or for a reason of its own.                                   *)
(***************************************************************************)
CanRun(q) ==
    /\ proc[q].pc \in {"setconf", "linkup", "linkdown", "fwmark", "up", "addr", "mtu", "del"}
       => link[I(q)] # {}
    /\ proc[q].pc = "add" => link[I(q)] = {}
    /\ proc[q].pc = "create" => N(q) \notin nets
    /\ proc[q].pc = "addif" => N(q) \in nets /\ link[I(q)] # {}
    /\ proc[q].pc \in {"dns", "routes", "users"} => N(q) \in nets
    /\ proc[q].pc = "destroy" => proc[q].old \in nets
    /\ proc[q].pc \in {"drop4", "drop6"} => \E x \in Left(q) : filter[x[1]][x[2]] > 0

Listings == {"show", "port", "routes", "list", "save4", "save6", "rule"}
Commands == {"parse", "add", "setconf", "linkup", "linkdown", "fwmark", "out4", "out6", "in4", "in6",
             "up", "create", "addif", "addr", "dns", "routes", "mtu", "users", "broadcast",
             "del", "drop4", "drop6", "destroy"}

(* In the exit handler cmd() ignores the failure; ndc's exit() ends it.    *)
Ignores(q) ==
    \/ At(q, "del") /\ proc' = [proc EXCEPT ![q].pc = "save4"]
    \/ /\ proc[q].pc \in {"drop4", "drop6"}
       /\ \E x \in Left(q) : proc' = [proc EXCEPT ![q].todo[x[1]][x[2]] = @ - 1]
    \/ At(q, "destroy") /\ proc' = [proc EXCEPT ![q].pc = "exit"]

(* cmd(), cndc(), set_config: exit with an error; exit runs the handler.   *)
Fail(q) ==
    /\ proc[q].pc \in Commands
    /\ proc[q].pc \in {"drop4", "drop6"} => Left(q) # {}
    /\ IF CanRun(q) THEN fails < MaxFail /\ fails' = fails + 1 ELSE UNCHANGED fails
    /\ cut' = IF proc[q].pc \in Deletes THEN cut \cup {I(q)} ELSE cut
    /\ \/ proc[q].cleanup /\ proc[q].pc \in Deletes /\ Ignores(q) /\ UNCHANGED last
       \/ /\ proc[q].cleanup /\ proc[q].pc \notin Deletes
          /\ proc' = [proc EXCEPT ![q].pc = "del", ![q].at = proc[q].pc]
          /\ UNCHANGED last
       \/ /\ ~proc[q].cleanup
          /\ proc' = [proc EXCEPT ![q].pc = "done", ![q].code = "error", ![q].at = proc[q].pc]
          /\ last' = q
    /\ UNCHANGED <<sys, kills>>

First(q) == IF proc[q].at = "none" THEN proc[q].pc ELSE proc[q].at

(* A command that is read fails: its output is empty, its status is not    *)
(* looked at, and the program takes it that there is nothing.  `wg show'   *)
(* fails if there is no link.                                              *)
ReadsNothing(q) ==
    /\ proc[q].pc \in Listings
    /\ IF At(q, "routes") /\ link[I(q)] = {} THEN UNCHANGED fails
       ELSE fails < MaxFail /\ fails' = fails + 1
    /\ cut' = IF proc[q].pc \in Deletes THEN cut \cup {I(q)} ELSE cut
    /\ proc' = CASE At(q, "show") -> [proc EXCEPT ![q].pc = "add", ![q].cleanup = TRUE]
                 [] At(q, "port") -> [proc EXCEPT ![q].pc = "linkdown", ![q].port = FALSE]
                 [] At(q, "routes") -> [proc EXCEPT ![q].pc = "mtu", ![q].at = "routes"]
                 [] At(q, "list") -> [proc EXCEPT ![q].pc = "done", ![q].code = "absent"]
                 [] At(q, "save4") -> [proc EXCEPT ![q].pc = "save6", ![q].at = First(q)]
                 [] At(q, "save6") -> [proc EXCEPT ![q].pc = "rule", ![q].at = First(q)]
                 [] At(q, "rule") -> [proc EXCEPT ![q].pc = After(q), ![q].at = First(q)]
    /\ last' = IF At(q, "list") THEN q ELSE last
    /\ UNCHANGED <<sys, kills>>

(* The process is killed: no exit handler runs.                            *)
Kill(q) ==
    /\ q \in Running /\ kills < MaxKill
    /\ kills' = kills + 1
    /\ cut' = IF proc[q].pc \in Deletes THEN cut \cup {I(q)} ELSE cut
    /\ proc' = [proc EXCEPT ![q].pc = "done", ![q].code = "killed", ![q].at = First(q)]
    /\ last' = q
    /\ UNCHANGED <<sys, fails>>

CmdUp(q) ==
    \/ Show(q) \/ AddIf(q) \/ SetConfig(q) \/ DetermineListenPort(q) \/ UpIf(q) \/ SetAddr(q)
    \/ SetDnses(q) \/ SetRoutes(q) \/ SetMtu(q) \/ SetUsers(q)

Next == \E q \in Procs :
    \/ \E c \in {"up", "down"}, i \in Ifaces : Start(q, c, i)
    \/ ParseOptions(q) \/ CmdUp(q) \/ CmdDown(q) \/ DelIf(q) \/ BroadcastChange(q)
    \/ CleanupReturns(q) \/ Fail(q) \/ ReadsNothing(q) \/ Kill(q)

Spec == Init /\ [][Next]_vars

(***************************************************************************)
(* Properties                                                              *)
(***************************************************************************)
Of(i) == {r \in rules : r.name = i}
Quiet(q) == last = q /\ Running = {}

(* What set_routes left out because it could not list the allowed IPs.     *)
Missed(q) == IF proc[q].at = "routes" THEN {"routes"} ELSE {}

Whole(q) ==
    /\ link[I(q)] = LinkFacts
    /\ filter[I(q)]["out4"] > 0 /\ filter[I(q)]["out6"] > 0
    /\ [net |-> N(q), name |-> I(q)] \in rules
    /\ N(q) \in nets /\ NetFacts \ Missed(q) \subseteq conf[N(q)]

(* An `up' that exited with success has left its interface whole, and it   *)
(* stays whole until some other invocation names the same interface: the   *)
(* link configured, up, with addresses and MTU, its filter rules in place  *)
(* and its network with DNS servers, users and, unless `wg show            *)
(* allowed-ips' failed, the routes.  Nothing tells that this one listing   *)
(* failed: `up' goes on without routes and succeeds (cmd_up, set_routes).  *)
SuccessIsWhole ==
    \A q \in Procs :
        /\ proc[q].cmd = "up" /\ proc[q].code = "success"
        /\ \A r \in Procs \ {q} : proc[r].name # I(q)
        => Whole(q)

(* When an `up' fails at any command, its exit handler leaves no link, no  *)
(* filter rule and no network with the interface in it (cmd_up_cleanup,    *)
(* del_if), unless a command of the handler fails too.  A network that was *)
(* created but that the interface could not be added to stays.             *)
FailedUpCleansUp ==
    \A q \in Procs :
        /\ Quiet(q) /\ proc[q].cmd = "up" /\ proc[q].code = "error" /\ proc[q].at # "parse"
        /\ I(q) \notin cut
        => link[I(q)] = {} /\ filter[I(q)] = NoRules /\ Of(I(q)) = {}

(* Both: an `up' that exited with success has left its interface whole, but *)
(* for the routes if the allowed IPs could not be listed, and it stays so  *)
(* until another invocation names the same interface; an `up' that failed  *)
(* at any command leaves no link, no filter rule and no network with the   *)
(* interface in it, unless a command of its exit handler fails too.  The   *)
(* network stays if it is `network interface add' that failed (cmd_up,     *)
(* set_routes, up_if, cmd_up_cleanup, del_if).                             *)
UpIsWholeOrUndone == SuccessIsWhole /\ FailedUpCleansUp

(* Whatever was killed or failed before, a `down' none of whose listings   *)
(* failed leaves neither link nor filter rule, and no network with the     *)
(* interface in it provided every earlier del_if ran to its end.           *)
DownLeavesNothing ==
    \A q \in Procs :
        /\ Quiet(q) /\ proc[q].cmd = "down" /\ proc[q].code = "success" /\ proc[q].at = "none"
        => /\ link[I(q)] = {} /\ filter[I(q)] = NoRules
           /\ I(q) \notin cut => Of(I(q)) = {}

(* A network is out of reach of del_if, which finds networks by their ip   *)
(* rule, only if some `up' stopped between creating it and adding the      *)
(* interface to it (up_if).                                                *)
NetworksAccounted ==
    \A n \in nets :
        \/ \E r \in rules : r.net = n
        \/ \E q \in Procs : N(q) = n /\ "addif" \in {proc[q].pc, proc[q].at}

(* Both: what a `down' finds it clears, and what no `down' can find is     *)
(* accounted for (cmd_down, del_if, up_if).                                *)
DownClears == DownLeavesNothing /\ NetworksAccounted

(* The link, the rules and the networks of an interface that no running    *)
(* invocation names stay as they are.                                      *)
Untouched ==
    \A i \in Ifaces :
        (\A q \in Running : I(q) # i)
        => link'[i] = link[i] /\ filter'[i] = filter[i] /\ Of(i)' = Of(i)

(* Invocations change the link, the rules and the network of the interface *)
(* they name and of no other, if no two of them work on one name at once   *)
(* (del_if, up_if, set_routes).                                            *)
Isolation == [][Untouched]_vars
============================================================================

--------------------------- MODULE WgQuickProofs ---------------------------
(***************************************************************************)
(* Proofs about wg-quick for Android, for every number of invocations,     *)
(* interfaces, networks, failures and kills.  They need that no two        *)
(* invocations work on one name at once, that no interface's name is the   *)
(* start of another's and that none has a character that means something   *)
(* else in a regular expression.                                           *)
(***************************************************************************)
EXTENDS WgQuick, TLAPS

(* Leaves are for Zenon, and for the SMT solver where they say so.          *)
USE Zenon

(***************************************************************************)
(* The inductive invariant.                                                *)
(***************************************************************************)
Rises == {"add", "setconf", "linkup", "port", "linkdown", "fwmark", "out4", "out6", "in4", "in6", "up",
          "netid", "create", "addif", "addr", "dns", "routes", "mtu", "users"}
Late == {"addr", "dns", "routes", "mtu", "users"}
Places == {"idle", "parse", "show", "list", "broadcast", "exit", "done"} \cup Rises \cup Deletes

Verbs == {"none", "up", "down"}
Codes == {"none", "exists", "success", "absent", "error", "killed"}
Counts == [FilterRules -> Nat]
Lists == [Ifaces -> Counts]
Invocation ==
  [pc : Places, cmd : Verbs, name : Ifaces \cup {"none"}, net : NetIds \cup {0},
   old : NetIds \cup {0}, port : BOOLEAN, todo : Lists, cleanup : BOOLEAN,
   code : Codes, at : Places \cup {"none"}]

TypeOK ==
  /\ link \in [Ifaces -> SUBSET LinkFacts]
  /\ filter \in [Ifaces -> Counts]
  /\ nets \subseteq NetIds
  /\ rules \subseteq [net : NetIds, name : Ifaces]
  /\ conf \in [NetIds -> SUBSET NetFacts]
  /\ proc \in [Procs -> Invocation]
  /\ cut \subseteq Ifaces

\* Where an invocation is says which command it runs, whether its exit handler
\* is armed, and that nothing has failed before but the list of the routes.
Consistent(q) ==
  /\ q \in Running => I(q) \in Ifaces /\ proc[q].cmd \in {"up", "down"} /\ proc[q].code = "none"
  /\ proc[q].pc \in Rises \cup {"show", "exit"} => proc[q].cmd = "up"
  /\ At(q, "list") => proc[q].cmd = "down"
  /\ proc[q].pc \in Rises \cup Deletes \cup {"broadcast", "exit"} =>
       (proc[q].cleanup <=> proc[q].cmd = "up")
  /\ proc[q].pc \in {"idle", "parse", "show", "list"} => ~proc[q].cleanup
  /\ proc[q].pc \in (Rises \ Late) \cup {"idle", "parse", "show", "list"} => proc[q].at = "none"
  /\ proc[q].pc \in Late => proc[q].at \in {"none", "routes"}
  /\ At(q, "broadcast") /\ proc[q].cmd = "up" => proc[q].at \in {"none", "routes"}
  /\ proc[q].at = "addif" => proc[q].cmd = "up"
  /\ At(q, "create") => N(q) \in NetIds
  /\ At(q, "idle") => proc[q].code = "none" /\ proc[q].name = "none"
  /\ proc[q].code # "none" => I(q) \in Ifaces

\* No two invocations work on one name.
Serial == \A q, r \in Running : I(q) = I(r) => q = r

\* A network has one interface; one to which an `up' is about to add its interface
\* has none, and is nobody else's.
Owned ==
  /\ \A r \in rules : r.net \in nets
  /\ \A r, s \in rules : r.net = s.net => r = s
  /\ \A q \in Procs : At(q, "addif") => N(q) \in nets /\ \A r \in rules : r.net # N(q)
  /\ \A q, r \in Procs : At(q, "addif") /\ At(r, "addif") /\ N(q) = N(r) => q = r

\* A network that del_if found, or up_if made, is still that of the interface.
Ours(q) == [net |-> N(q), name |-> I(q)]
Holds(q) ==
  /\ At(q, "destroy") => [net |-> proc[q].old, name |-> I(q)] \in rules
  /\ proc[q].pc \in {"addr", "dns", "routes", "mtu", "users"} => Ours(q) \in rules
  /\ At(q, "broadcast") /\ proc[q].cmd = "up" => Ours(q) \in rules

\* Beyond some steps of del_if.
Past(q, steps) == proc[q].pc \in steps \cup {"exit"} \/ (At(q, "broadcast") /\ proc[q].cmd = "down")

\* The filter rules that del_if is deleting are those of its interface.
OnlyMine(q) ==
  proc[q].pc \in {"drop4", "drop6"} => \A i \in Ifaces \ {I(q)} : proc[q].todo[i] = NoRules

\* What del_if has taken away so far, unless it missed something.
Taken(q) ==
  /\ OnlyMine(q)
  /\ I(q) \notin cut \/ (proc[q].cmd = "down" /\ proc[q].at = "none") =>
       /\ Past(q, Deletes \ {"del"}) => link[I(q)] = {}
       /\ At(q, "drop4") => \A f \in V4 : filter[I(q)][f] = proc[q].todo[I(q)][f]
       /\ At(q, "drop6") => \A f \in V6 : filter[I(q)][f] = proc[q].todo[I(q)][f]
       /\ Past(q, {"save6", "drop6", "rule", "destroy"}) => \A f \in V4 : filter[I(q)][f] = 0
       /\ Past(q, {"rule", "destroy"}) => \A f \in V6 : filter[I(q)][f] = 0

\* An interface whose del_if always ran to its end is in one network at most, and
\* in none before up_if adds it and after del_if has deleted the link, apart from
\* the one that this del_if is going to destroy.
Reached(i) ==
  /\ \A r, s \in Of(i) : r = s
  /\ link[i] = {} /\ Of(i) # {} => \E q \in Running : I(q) = i /\ proc[q].pc \in Deletes \ {"del"}
  /\ \A q \in Running :
       I(q) = i /\ (proc[q].pc \in Rises \ {"add", "addr", "dns", "routes", "mtu", "users"} \/ Past(q, {}))
       => Of(i) = {}

\* What an `up' has set up so far.
SetUp(q) ==
  LET by(fact, places) == proc[q].pc \in places => fact \in link[I(q)]
      configured(fact, places) ==
        proc[q].pc \in places /\ proc[q].cmd = "up" => fact \in conf[N(q)]
      ready == {"netid", "create", "addif", "addr", "dns", "routes", "mtu", "users", "broadcast"}
  IN  proc[q].cmd = "up" =>
        /\ by("there", ready \cup {"setconf", "linkup", "port", "linkdown", "fwmark", "out4", "out6",
                                   "in4", "in6", "up"})
        /\ by("conf", ready \cup {"linkup", "port", "linkdown", "fwmark", "out4", "out6", "in4", "in6",
                                  "up"})
        /\ by("up", ready)
        /\ by("addr", {"dns", "routes", "mtu", "users", "broadcast"})
        /\ by("mtu", {"users", "broadcast"})
        /\ proc[q].pc \in ready \cup {"out6", "in4", "in6", "up"} => filter[I(q)]["out4"] > 0
        /\ proc[q].pc \in ready \cup {"in4", "in6", "up"} => filter[I(q)]["out6"] > 0
        /\ configured("dns", {"routes", "mtu", "users", "broadcast"})
        /\ proc[q].at # "routes" => configured("routes", {"mtu", "users", "broadcast"})
        /\ configured("users", {"broadcast"})

\* The last invocation for a name has ended, and left what it promises.
Over(q) == last = q /\ \A r \in Running : I(r) # I(q)
Cleared(i) == link[i] = {} /\ filter[i] = NoRules
Promised(q) ==
  /\ Over(q) /\ proc[q].cmd = "up" /\ proc[q].code = "error" /\ proc[q].at # "parse" /\ I(q) \notin cut
     => Cleared(I(q)) /\ Of(I(q)) = {}
  /\ Over(q) /\ proc[q].cmd = "down" /\ proc[q].code = "success" /\ proc[q].at = "none"
     => Cleared(I(q)) /\ (I(q) \notin cut => Of(I(q)) = {})

QuickInv ==
  /\ TypeOK /\ Serial /\ Owned /\ SuccessIsWhole /\ NetworksAccounted
  /\ \A i \in Ifaces \ cut : Reached(i)
  /\ \A q \in Procs : Consistent(q) /\ Holds(q) /\ Promised(q)
  /\ \A q \in Running : Taken(q) /\ SetUp(q)

(***************************************************************************)
(* What the assignments to an invocation do.                               *)
(***************************************************************************)
\* Only the invocation q goes on, to s.
Moves(q, s) ==
  /\ proc' \in [Procs -> Invocation]
  /\ \A r \in Procs \ {q} : proc'[r] = proc[r]
  /\ proc'[q].pc = s

\* The assignments of several fields at once.
EndsAs(q, s, c, b) == proc' = [proc EXCEPT ![q].pc = s, ![q].code = c, ![q].cleanup = b]
Reserves(q, s, n) == proc' = [proc EXCEPT ![q].pc = s, ![q].net = n]
TurnsTo(q, s, a) == proc' = [proc EXCEPT ![q].pc = s, ![q].at = a]
StopsAt(q, c, a) == proc' = [proc EXCEPT ![q].pc = "done", ![q].code = c, ![q].at = a]

\* A step that replaces the record of one invocation leaves the others alone.
LEMMA Moved ==
  ASSUME TypeOK, NEW q \in Procs, NEW x \in Invocation, proc' = [proc EXCEPT ![q] = x]
  PROVE  /\ proc' \in [Procs -> Invocation] /\ proc'[q] = x
         /\ \A r \in Procs \ {q} : proc'[r] = proc[r]
  BY DEF TypeOK

\* The invocation goes on to its next step.
LEMMA MovesOn ==
  ASSUME TypeOK, NEW q \in Procs, NEW s \in Places,
         proc' = [proc EXCEPT ![q].pc = s]
  PROVE  /\ Moves(q, s) /\ proc'[q].cmd = proc[q].cmd /\ proc'[q].name = proc[q].name /\ proc'[q].net = proc[q].net
         /\ proc'[q].old = proc[q].old /\ proc'[q].todo = proc[q].todo /\ proc'[q].cleanup = proc[q].cleanup
         /\ proc'[q].code = proc[q].code /\ proc'[q].at = proc[q].at
<1> DEFINE x == [proc[q] EXCEPT !.pc = s]
<1>1. proc[q] \in Invocation  BY DEF TypeOK
<1>2. x \in Invocation  BY <1>1 DEF Invocation
<1>3. proc' = [proc EXCEPT ![q] = x]  OBVIOUS
<1>4. /\ x.pc = s /\ x.cmd = proc[q].cmd /\ x.name = proc[q].name /\ x.net = proc[q].net
      /\ x.old = proc[q].old /\ x.todo = proc[q].todo /\ x.cleanup = proc[q].cleanup
      /\ x.code = proc[q].code /\ x.at = proc[q].at
  BY <1>1, SMT DEF Invocation
<1> HIDE DEF x
<1> QED  BY <1>2, <1>3, <1>4, Moved DEF Moves

\* It ends with a code, its exit handler disarmed.
LEMMA MovesEnds ==
  ASSUME TypeOK, NEW q \in Procs, NEW s \in Places, NEW c \in Codes, NEW b \in BOOLEAN,
         EndsAs(q, s, c, b)
  PROVE  /\ Moves(q, s) /\ proc'[q].cmd = proc[q].cmd /\ proc'[q].name = proc[q].name /\ proc'[q].net = proc[q].net
         /\ proc'[q].old = proc[q].old /\ proc'[q].todo = proc[q].todo /\ proc'[q].cleanup = b
         /\ proc'[q].code = c /\ proc'[q].at = proc[q].at
<1> DEFINE x == [proc[q] EXCEPT !.pc = s, !.code = c, !.cleanup = b]
<1>1. proc[q] \in Invocation  BY DEF TypeOK
<1>2. x \in Invocation  BY <1>1 DEF Invocation
<1>3. proc' = [proc EXCEPT ![q] = x]  BY DEF EndsAs
<1>4. /\ x.pc = s /\ x.cmd = proc[q].cmd /\ x.name = proc[q].name /\ x.net = proc[q].net
      /\ x.old = proc[q].old /\ x.todo = proc[q].todo /\ x.cleanup = b
      /\ x.code = c /\ x.at = proc[q].at
  BY <1>1, SMT DEF Invocation
<1> HIDE DEF x
<1> QED  BY <1>2, <1>3, <1>4, Moved DEF Moves

\* It is started.
LEMMA MovesStarts ==
  ASSUME TypeOK, NEW q \in Procs, NEW c \in Verbs, NEW i \in Ifaces,
         proc' = [proc EXCEPT ![q].pc = "parse", ![q].cmd = c, ![q].name = i]
  PROVE  /\ Moves(q, "parse") /\ proc'[q].cmd = c /\ proc'[q].name = i /\ proc'[q].net = proc[q].net
         /\ proc'[q].old = proc[q].old /\ proc'[q].todo = proc[q].todo /\ proc'[q].cleanup = proc[q].cleanup
         /\ proc'[q].code = proc[q].code /\ proc'[q].at = proc[q].at
<1> DEFINE x == [proc[q] EXCEPT !.pc = "parse", !.cmd = c, !.name = i]
<1>1. proc[q] \in Invocation /\ "parse" \in Places  BY DEF TypeOK, Places
<1>2. x \in Invocation  BY <1>1 DEF Invocation
<1>3. proc' = [proc EXCEPT ![q] = x]  OBVIOUS
<1>4. /\ x.pc = "parse" /\ x.cmd = c /\ x.name = i /\ x.net = proc[q].net
      /\ x.old = proc[q].old /\ x.todo = proc[q].todo /\ x.cleanup = proc[q].cleanup
      /\ x.code = proc[q].code /\ x.at = proc[q].at
  BY <1>1, SMT DEF Invocation
<1> HIDE DEF x
<1> QED  BY <1>2, <1>3, <1>4, Moved DEF Moves

\* Its exit handler is armed.
LEMMA MovesArmed ==
  ASSUME TypeOK, NEW q \in Procs, NEW s \in Places, NEW b \in BOOLEAN,
         proc' = [proc EXCEPT ![q].pc = s, ![q].cleanup = b]
  PROVE  /\ Moves(q, s) /\ proc'[q].cmd = proc[q].cmd /\ proc'[q].name = proc[q].name /\ proc'[q].net = proc[q].net
         /\ proc'[q].old = proc[q].old /\ proc'[q].todo = proc[q].todo /\ proc'[q].cleanup = b
         /\ proc'[q].code = proc[q].code /\ proc'[q].at = proc[q].at
<1> DEFINE x == [proc[q] EXCEPT !.pc = s, !.cleanup = b]
<1>1. proc[q] \in Invocation  BY DEF TypeOK
<1>2. x \in Invocation  BY <1>1 DEF Invocation
<1>3. proc' = [proc EXCEPT ![q] = x]  OBVIOUS
<1>4. /\ x.pc = s /\ x.cmd = proc[q].cmd /\ x.name = proc[q].name /\ x.net = proc[q].net
      /\ x.old = proc[q].old /\ x.todo = proc[q].todo /\ x.cleanup = b
      /\ x.code = proc[q].code /\ x.at = proc[q].at
  BY <1>1, SMT DEF Invocation
<1> HIDE DEF x
<1> QED  BY <1>2, <1>3, <1>4, Moved DEF Moves

\* It has read the port.
LEMMA MovesPort ==
  ASSUME TypeOK, NEW q \in Procs, NEW s \in Places, NEW b \in BOOLEAN,
         proc' = [proc EXCEPT ![q].pc = s, ![q].port = b]
  PROVE  /\ Moves(q, s) /\ proc'[q].cmd = proc[q].cmd /\ proc'[q].name = proc[q].name /\ proc'[q].net = proc[q].net
         /\ proc'[q].old = proc[q].old /\ proc'[q].todo = proc[q].todo /\ proc'[q].cleanup = proc[q].cleanup
         /\ proc'[q].code = proc[q].code /\ proc'[q].at = proc[q].at
<1> DEFINE x == [proc[q] EXCEPT !.pc = s, !.port = b]
<1>1. proc[q] \in Invocation  BY DEF TypeOK
<1>2. x \in Invocation  BY <1>1 DEF Invocation
<1>3. proc' = [proc EXCEPT ![q] = x]  OBVIOUS
<1>4. /\ x.pc = s /\ x.cmd = proc[q].cmd /\ x.name = proc[q].name /\ x.net = proc[q].net
      /\ x.old = proc[q].old /\ x.todo = proc[q].todo /\ x.cleanup = proc[q].cleanup
      /\ x.code = proc[q].code /\ x.at = proc[q].at
  BY <1>1, SMT DEF Invocation
<1> HIDE DEF x
<1> QED  BY <1>2, <1>3, <1>4, Moved DEF Moves

\* It has picked a number.
LEMMA MovesNet ==
  ASSUME TypeOK, NEW q \in Procs, NEW s \in Places, NEW n \in NetIds,
         Reserves(q, s, n)
  PROVE  /\ Moves(q, s) /\ proc'[q].cmd = proc[q].cmd /\ proc'[q].name = proc[q].name /\ proc'[q].net = n
         /\ proc'[q].old = proc[q].old /\ proc'[q].todo = proc[q].todo /\ proc'[q].cleanup = proc[q].cleanup
         /\ proc'[q].code = proc[q].code /\ proc'[q].at = proc[q].at
<1> DEFINE x == [proc[q] EXCEPT !.pc = s, !.net = n]
<1>1. proc[q] \in Invocation  BY DEF TypeOK
<1>2. x \in Invocation  BY <1>1 DEF Invocation
<1>3. proc' = [proc EXCEPT ![q] = x]  BY DEF Reserves
<1>4. /\ x.pc = s /\ x.cmd = proc[q].cmd /\ x.name = proc[q].name /\ x.net = n
      /\ x.old = proc[q].old /\ x.todo = proc[q].todo /\ x.cleanup = proc[q].cleanup
      /\ x.code = proc[q].code /\ x.at = proc[q].at
  BY <1>1, SMT DEF Invocation
<1> HIDE DEF x
<1> QED  BY <1>2, <1>3, <1>4, Moved DEF Moves

\* It has listed rules.
LEMMA MovesTodo ==
  ASSUME TypeOK, NEW q \in Procs, NEW s \in Places, NEW b \in Lists,
         proc' = [proc EXCEPT ![q].pc = s, ![q].todo = b]
  PROVE  /\ Moves(q, s) /\ proc'[q].cmd = proc[q].cmd /\ proc'[q].name = proc[q].name /\ proc'[q].net = proc[q].net
         /\ proc'[q].old = proc[q].old /\ proc'[q].todo = b /\ proc'[q].cleanup = proc[q].cleanup
         /\ proc'[q].code = proc[q].code /\ proc'[q].at = proc[q].at
<1> DEFINE x == [proc[q] EXCEPT !.pc = s, !.todo = b]
<1>1. proc[q] \in Invocation  BY DEF TypeOK
<1>2. x \in Invocation  BY <1>1 DEF Invocation
<1>3. proc' = [proc EXCEPT ![q] = x]  OBVIOUS
<1>4. /\ x.pc = s /\ x.cmd = proc[q].cmd /\ x.name = proc[q].name /\ x.net = proc[q].net
      /\ x.old = proc[q].old /\ x.todo = b /\ x.cleanup = proc[q].cleanup
      /\ x.code = proc[q].code /\ x.at = proc[q].at
  BY <1>1, SMT DEF Invocation
<1> HIDE DEF x
<1> QED  BY <1>2, <1>3, <1>4, Moved DEF Moves

\* It has found a network.
LEMMA MovesOld ==
  ASSUME TypeOK, NEW q \in Procs, NEW s \in Places, NEW n \in NetIds,
         proc' = [proc EXCEPT ![q].pc = s, ![q].old = n]
  PROVE  /\ Moves(q, s) /\ proc'[q].cmd = proc[q].cmd /\ proc'[q].name = proc[q].name /\ proc'[q].net = proc[q].net
         /\ proc'[q].old = n /\ proc'[q].todo = proc[q].todo /\ proc'[q].cleanup = proc[q].cleanup
         /\ proc'[q].code = proc[q].code /\ proc'[q].at = proc[q].at
<1> DEFINE x == [proc[q] EXCEPT !.pc = s, !.old = n]
<1>1. proc[q] \in Invocation  BY DEF TypeOK
<1>2. x \in Invocation  BY <1>1 DEF Invocation
<1>3. proc' = [proc EXCEPT ![q] = x]  OBVIOUS
<1>4. /\ x.pc = s /\ x.cmd = proc[q].cmd /\ x.name = proc[q].name /\ x.net = proc[q].net
      /\ x.old = n /\ x.todo = proc[q].todo /\ x.cleanup = proc[q].cleanup
      /\ x.code = proc[q].code /\ x.at = proc[q].at
  BY <1>1, SMT DEF Invocation
<1> HIDE DEF x
<1> QED  BY <1>2, <1>3, <1>4, Moved DEF Moves

\* It remembers where a command failed.
LEMMA MovesAt ==
  ASSUME TypeOK, NEW q \in Procs, NEW s \in Places, NEW a \in Places,
         TurnsTo(q, s, a)
  PROVE  /\ Moves(q, s) /\ proc'[q].cmd = proc[q].cmd /\ proc'[q].name = proc[q].name /\ proc'[q].net = proc[q].net
         /\ proc'[q].old = proc[q].old /\ proc'[q].todo = proc[q].todo /\ proc'[q].cleanup = proc[q].cleanup
         /\ proc'[q].code = proc[q].code /\ proc'[q].at = a
<1> DEFINE x == [proc[q] EXCEPT !.pc = s, !.at = a]
<1>1. proc[q] \in Invocation  BY DEF TypeOK
<1>2. x \in Invocation  BY <1>1 DEF Invocation
<1>3. proc' = [proc EXCEPT ![q] = x]  BY DEF TurnsTo
<1>4. /\ x.pc = s /\ x.cmd = proc[q].cmd /\ x.name = proc[q].name /\ x.net = proc[q].net
      /\ x.old = proc[q].old /\ x.todo = proc[q].todo /\ x.cleanup = proc[q].cleanup
      /\ x.code = proc[q].code /\ x.at = a
  BY <1>1, SMT DEF Invocation
<1> HIDE DEF x
<1> QED  BY <1>2, <1>3, <1>4, Moved DEF Moves

\* It stops with a code and remembers where.
LEMMA MovesStops ==
  ASSUME TypeOK, NEW q \in Procs, NEW c \in Codes, NEW a \in Places,
         StopsAt(q, c, a)
  PROVE  /\ Moves(q, "done") /\ proc'[q].cmd = proc[q].cmd /\ proc'[q].name = proc[q].name /\ proc'[q].net = proc[q].net
         /\ proc'[q].old = proc[q].old /\ proc'[q].todo = proc[q].todo /\ proc'[q].cleanup = proc[q].cleanup
         /\ proc'[q].code = c /\ proc'[q].at = a
<1> DEFINE x == [proc[q] EXCEPT !.pc = "done", !.code = c, !.at = a]
<1>1. proc[q] \in Invocation /\ "done" \in Places  BY DEF TypeOK, Places
<1>2. x \in Invocation  BY <1>1 DEF Invocation
<1>3. proc' = [proc EXCEPT ![q] = x]  BY DEF StopsAt
<1>4. /\ x.pc = "done" /\ x.cmd = proc[q].cmd /\ x.name = proc[q].name /\ x.net = proc[q].net
      /\ x.old = proc[q].old /\ x.todo = proc[q].todo /\ x.cleanup = proc[q].cleanup
      /\ x.code = c /\ x.at = a
  BY <1>1, SMT DEF Invocation
<1> HIDE DEF x
<1> QED  BY <1>2, <1>3, <1>4, Moved DEF Moves

\* It ends with a code.
LEMMA MovesCode ==
  ASSUME TypeOK, NEW q \in Procs, NEW s \in Places, NEW c \in Codes,
         proc' = [proc EXCEPT ![q].pc = s, ![q].code = c]
  PROVE  /\ Moves(q, s) /\ proc'[q].cmd = proc[q].cmd /\ proc'[q].name = proc[q].name /\ proc'[q].net = proc[q].net
         /\ proc'[q].old = proc[q].old /\ proc'[q].todo = proc[q].todo /\ proc'[q].cleanup = proc[q].cleanup
         /\ proc'[q].code = c /\ proc'[q].at = proc[q].at
<1> DEFINE x == [proc[q] EXCEPT !.pc = s, !.code = c]
<1>1. proc[q] \in Invocation  BY DEF TypeOK
<1>2. x \in Invocation  BY <1>1 DEF Invocation
<1>3. proc' = [proc EXCEPT ![q] = x]  OBVIOUS
<1>4. /\ x.pc = s /\ x.cmd = proc[q].cmd /\ x.name = proc[q].name /\ x.net = proc[q].net
      /\ x.old = proc[q].old /\ x.todo = proc[q].todo /\ x.cleanup = proc[q].cleanup
      /\ x.code = c /\ x.at = proc[q].at
  BY <1>1, SMT DEF Invocation
<1> HIDE DEF x
<1> QED  BY <1>2, <1>3, <1>4, Moved DEF Moves

(***************************************************************************)
(* A step of one invocation and the others.                                *)
(***************************************************************************)
\* A step of q, which works on the name it has then, leaves alone what belongs to
\* other names.
Frame(q) ==
  /\ \A r \in Procs \ {q} : proc'[r] = proc[r]
  /\ \A i \in Ifaces \ {proc'[q].name} : link'[i] = link[i] /\ filter'[i] = filter[i] /\ Of(i)' = Of(i)
  /\ \A r \in rules : r.name # proc'[q].name => conf[r.net] \subseteq conf'[r.net]
  /\ cut \subseteq cut' /\ cut' \subseteq cut \cup {proc'[q].name}
  /\ proc[q].name \in {"none", proc'[q].name}
  /\ \A r \in Running \ {q} : proc[r].name # proc'[q].name
  /\ IF q \in Running' THEN last' = last ELSE last' = q

\* A step of one invocation changes nothing of what another one knows.
LEMMA RunningKept ==
  ASSUME NEW q \in Procs, Frame(q), NEW r \in Procs \ {q}
  PROVE  /\ r \in Running <=> r \in Running'
         /\ I(r)' = I(r) /\ N(r)' = N(r) /\ proc'[r] = proc[r]
  BY DEF Frame, Running, I, N

\* No two invocations work on one name after such a step either.
LEMMA SerialKept ==
  ASSUME QuickInv, NEW q \in Procs, Frame(q)
  PROVE  Serial'
<1> SUFFICES ASSUME NEW r \in Running', NEW s \in Running', I(r)' = I(s)'  PROVE r = s
  BY DEF Serial
<1>0. r \in Procs /\ s \in Procs  BY DEF Running
<1>1. CASE r # q /\ s # q  BY <1>0, <1>1, RunningKept DEF QuickInv, Serial
<1>2. CASE r = q /\ s # q
  <2>1. s \in Running /\ I(s)' = proc[s].name  BY <1>0, <1>2, RunningKept DEF I
  <2> QED  BY <2>1, <1>2 DEF Frame, I
<1>3. CASE r # q /\ s = q
  <2>1. r \in Running /\ I(r)' = proc[r].name  BY <1>0, <1>3, RunningKept DEF I
  <2> QED  BY <2>1, <1>3 DEF Frame, I
<1> QED  BY <1>1, <1>2, <1>3

\* What the others rely on is about other names.
LEMMA RunningOthers ==
  ASSUME QuickInv, Apart, NEW q \in Procs, Frame(q), NEW r \in Running \ {q}
  PROVE  /\ r \in Procs /\ I(r) \in Ifaces /\ I(r) # proc'[q].name
         /\ link'[I(r)] = link[I(r)] /\ filter'[I(r)] = filter[I(r)]
         /\ I(r) \in cut' <=> I(r) \in cut
         /\ \A x \in rules : x.name = I(r) => x \in rules' /\ conf[x.net] \subseteq conf'[x.net]
<1>1. r \in Procs /\ I(r) \in Ifaces  BY DEF Running, QuickInv, Consistent
<1>2. I(r) # proc'[q].name  BY DEF Frame, I
<1>3. {x \in rules' : x.name = I(r)} = {x \in rules : x.name = I(r)}
  BY <1>1, <1>2 DEF Frame, Of
<1>6. \A x \in rules : x.name = I(r) => x \in rules' /\ conf[x.net] \subseteq conf'[x.net]
  BY <1>2, <1>3 DEF Frame
<1> QED  BY <1>1, <1>2, <1>6 DEF Frame

\* Nor does it change what the others have taken and set up so far.
LEMMA OthersGoOn ==
  ASSUME QuickInv, Apart, NEW q \in Procs, Frame(q), NEW r \in Running \ {q}
  PROVE  Taken(r)' /\ SetUp(r)' /\ Holds(r)'
<1>0. /\ r \in Procs /\ I(r) \in Ifaces
      /\ proc'[r] = proc[r] /\ I(r)' = I(r) /\ N(r)' = N(r)
      /\ link'[I(r)] = link[I(r)] /\ filter'[I(r)] = filter[I(r)]
      /\ I(r) \in cut' <=> I(r) \in cut
      /\ \A x \in rules : x.name = I(r) => x \in rules' /\ conf[x.net] \subseteq conf'[x.net]
  <2>1. r \in Procs \ {q}  BY RunningOthers
  <2> QED  BY <2>1, RunningOthers, RunningKept
<1>1. Taken(r) /\ SetUp(r) /\ Holds(r)  BY <1>0 DEF QuickInv
<1>2. Taken(r)'  BY <1>0, <1>1 DEF Taken, OnlyMine, Past, At
<1>3. Holds(r)'
  <2>1. Ours(r)' = Ours(r) /\ Ours(r).name = I(r)  BY <1>0 DEF Ours
  <2>2. [net |-> proc[r].old, name |-> I(r)].name = I(r)  OBVIOUS
  <2> QED  BY <1>0, <1>1, <2>1, <2>2 DEF Holds, At
<1>4. SetUp(r)'
  <2>1. proc[r].pc \in {"routes", "mtu", "users", "broadcast"} /\ proc[r].cmd = "up"
        => conf[N(r)] \subseteq conf'[N(r)]
    <3>1. Ours(r).name = I(r) /\ Ours(r).net = N(r)  BY DEF Ours
    <3> QED  BY <1>0, <1>1, <3>1 DEF Holds, At
  <2> QED  BY <1>0, <1>1, <2>1 DEF SetUp
<1> QED  BY <1>2, <1>3, <1>4

\* Nor what the others promise when they have ended.
LEMMA OthersPromised ==
  ASSUME QuickInv, Apart, NEW q \in Procs, Frame(q), NEW r \in Procs \ {q}
  PROVE  Consistent(r)' /\ Holds(r)' /\ Promised(r)'
<1>0. proc'[r] = proc[r] /\ I(r)' = I(r) /\ (r \in Running <=> r \in Running')
  BY RunningKept
<1>1. Consistent(r) /\ Holds(r) /\ Promised(r)  BY DEF QuickInv
<1>2. Consistent(r)'  BY <1>0, <1>1 DEF Consistent, At, I, N
<1>3. Holds(r)'
  <2>1. CASE r \in Running  BY <2>1, OthersGoOn
  <2>2. CASE r \notin Running  BY <2>2, <1>0 DEF Running, Holds, At
  <2> QED  BY <2>1, <2>2
<1>4. ASSUME Over(r)', proc[r].code # "none"
      PROVE  /\ Over(r) /\ I(r) \in Ifaces
             /\ I(r) \in cut => I(r) \in cut'
             /\ link'[I(r)] = link[I(r)] /\ filter'[I(r)] = filter[I(r)]
             /\ {x \in rules' : x.name = I(r)} = {x \in rules : x.name = I(r)}
  <2>1. q \in Running' /\ last = r  BY <1>4 DEF Frame, Over
  <2>2. I(r) # proc'[q].name  BY <2>1, <1>0, <1>4 DEF Over, I
  <2>3. \A s \in Running : I(s) # I(r)
    <3> SUFFICES ASSUME NEW s \in Running, I(s) = I(r)  PROVE FALSE
      OBVIOUS
    <3>1. CASE s = q
      <4>1. proc[q].name \in Ifaces  BY <3>1 DEF QuickInv, Consistent, I
      <4> QED  BY <4>1, <3>1, <2>2 DEF Frame, Apart, I
    <3>2. CASE s # q
      <4>1. s \in Procs \ {q}  BY <3>2 DEF Running
      <4>2. s \in Running' /\ I(s)' = I(s)  BY <4>1, RunningKept
      <4> QED  BY <4>2, <1>0, <1>4 DEF Over
    <3> QED  BY <3>1, <3>2
  <2>4. I(r) \in Ifaces  BY <1>1, <1>4 DEF Consistent
  <2> QED  BY <2>1, <2>2, <2>3, <2>4 DEF Over, Frame, Of
<1>5. Promised(r)'
  <2>1. Of(I(r)) = {x \in rules : x.name = I(r)} /\ Of(I(r))' = {x \in rules' : x.name = I(r)}
    BY <1>0 DEF Of
  <2> QED  BY <1>0, <1>1, <1>4, <2>1 DEF Promised, Cleared
<1> QED  BY <1>2, <1>3, <1>5

\* Interfaces of other names stay in the one network the invariant allows them.
LEMMA OthersReached ==
  ASSUME QuickInv, Apart, NEW q \in Procs, Frame(q), NEW i \in Ifaces \ cut', i # proc'[q].name
  PROVE  Reached(i)'
<1>1. Reached(i)  BY DEF QuickInv, Frame
<1>2. link'[i] = link[i] /\ Of(i)' = Of(i)  BY DEF Frame
<1>3. I(q) # i /\ I(q)' # i  BY DEF Frame, Apart, I
<1>4. \A r \in Procs \ {q} : /\ r \in Running <=> r \in Running'
                             /\ I(r)' = I(r) /\ proc'[r] = proc[r]
  BY RunningKept
<1>5. Running \subseteq Procs /\ Running' \subseteq Procs  BY DEF Running
<1>6. \A r, s \in Of(i)' : r = s  BY <1>1, <1>2 DEF Reached
<1>7. ASSUME link'[i] = {}, Of(i)' # {}
      PROVE  \E r \in Running' : I(r)' = i /\ proc'[r].pc \in Deletes \ {"del"}
  BY <1>1, <1>2, <1>3, <1>4, <1>5, <1>7 DEF Reached
<1>8. ASSUME NEW r \in Running', I(r)' = i
      PROVE  r \in Running /\ I(r) = i /\ proc'[r] = proc[r]
  BY <1>3, <1>4, <1>5, <1>8
<1>9. ASSUME NEW r \in Running', I(r)' = i,
             proc'[r].pc \in Rises \ {"add", "addr", "dns", "routes", "mtu", "users"} \/ Past(r, {})'
      PROVE  Of(i)' = {}
  <2>1. r \in Running /\ I(r) = i /\ proc'[r] = proc[r]  BY <1>8, <1>9
  <2>2. Past(r, {})' => Past(r, {})  BY <2>1 DEF Past, At
  <2> QED  BY <1>1, <1>2, <1>9, <2>1, <2>2 DEF Reached
<1> QED  BY <1>6, <1>7, <1>9 DEF Reached

\* An interface that another invocation left whole stays whole.
LEMMA OthersWhole ==
  ASSUME QuickInv, Apart, NEW q \in Procs, Frame(q), Owned', TypeOK', NEW r \in Procs \ {q},
         proc'[r].cmd = "up", proc'[r].code = "success",
         \A s \in Procs \ {r} : proc'[s].name # I(r)'
  PROVE  Whole(r)'
<1>0. proc'[r] = proc[r] /\ I(r)' = I(r) /\ N(r)' = N(r)  BY RunningKept
<1>1. I(r) \in Ifaces  BY <1>0 DEF QuickInv, Consistent
<1>2. \A s \in Procs \ {r} : proc[s].name # I(r)
  <2> SUFFICES ASSUME NEW s \in Procs \ {r}  PROVE proc[s].name # I(r)
    OBVIOUS
  <2>1. CASE s = q  BY <2>1, <1>0, <1>1 DEF Frame, Apart
  <2>2. CASE s # q  BY <2>2, <1>0 DEF Frame
  <2> QED  BY <2>1, <2>2
<1>3. Whole(r)  BY <1>0, <1>2 DEF QuickInv, SuccessIsWhole
<1>4. I(r) # proc'[q].name  BY <1>0
<1>5. link'[I(r)] = link[I(r)] /\ filter'[I(r)] = filter[I(r)]  BY <1>1, <1>4 DEF Frame
<1>6. Ours(r) \in rules /\ Ours(r).name = I(r) /\ Ours(r).net = N(r)  BY <1>3 DEF Whole, Ours
<1>7. Ours(r) \in rules'
  <2>1. {x \in rules' : x.name = I(r)} = {x \in rules : x.name = I(r)}  BY <1>1, <1>4 DEF Frame, Of
  <2> QED  BY <2>1, <1>6
<1>8. N(r) \in nets' /\ N(r) \in NetIds  BY <1>6, <1>7 DEF Owned, TypeOK
<1>9. NetFacts \ Missed(r) \subseteq conf'[N(r)] /\ Missed(r)' = Missed(r)
  <2>1. conf[N(r)] \subseteq conf'[N(r)]  BY <1>4, <1>6 DEF Frame
  <2>2. NetFacts \ Missed(r) \subseteq conf[N(r)]  BY <1>3 DEF Whole
  <2> QED  BY <1>0, <2>1, <2>2 DEF Missed
<1> QED  BY <1>0, <1>3, <1>5, <1>7, <1>8, <1>9 DEF Whole, Ours

\* So of the invariant only what it says of the invocation that made the step, and
\* of the interface it works on, has to be looked at.
LEMMA OnlyOwn ==
  ASSUME QuickInv, Apart, NEW q \in Procs, Frame(q),
         TypeOK', Owned', NetworksAccounted', Consistent(q)', Holds(q)', Promised(q)',
         \A i \in Ifaces \ cut' : i = proc'[q].name => Reached(i)',
         q \in Running' => Taken(q)' /\ SetUp(q)',
         proc'[q].code = "success" /\ proc'[q].cmd = "up" => Whole(q)'
  PROVE  QuickInv'
<1>1. Serial'  BY SerialKept
<1>2. \A i \in Ifaces \ cut' : Reached(i)'  BY OthersReached
<1>3. \A r \in Procs : Consistent(r)' /\ Holds(r)' /\ Promised(r)'  BY OthersPromised
<1>4. \A r \in Running' : Taken(r)' /\ SetUp(r)'
  <2> SUFFICES ASSUME NEW r \in Running', r # q  PROVE Taken(r)' /\ SetUp(r)'
    OBVIOUS
  <2>1. r \in Procs \ {q}  BY DEF Running
  <2>2. r \in Running  BY <2>1, RunningKept
  <2> QED  BY <2>2, OthersGoOn
<1>5. SuccessIsWhole'  BY OthersWhole DEF SuccessIsWhole
<1> QED  BY <1>1, <1>2, <1>3, <1>4, <1>5 DEF QuickInv

(***************************************************************************)
(* Steps that run no command, or one that changes nothing.                 *)
(***************************************************************************)
LEMMA Framed ==
  ASSUME QuickInv, NEW q \in Running, NEW s \in Places \ {"idle"}, Moves(q, s),
         proc'[q].name = proc[q].name,
         cut' \in {cut, cut \cup {I(q)}},
         IF s = "done" THEN last' = q ELSE last' = last,
         \A i \in Ifaces \ {I(q)} : link'[i] = link[i] /\ filter'[i] = filter[i] /\ Of(i)' = Of(i),
         \A r \in rules : r.name # I(q) => conf[r.net] \subseteq conf'[r.net]
  PROVE  Frame(q) /\ cut' \subseteq Ifaces
<1>1. q \in Procs /\ I(q) \in Ifaces  BY DEF Running, QuickInv, Consistent
<1>2. q \in Running' <=> s # "done"  BY <1>1 DEF Running, Moves
<1>3. \A r \in Running \ {q} : proc[r].name # proc[q].name  BY DEF QuickInv, Serial, I
<1>4. cut' \subseteq Ifaces  BY <1>1 DEF QuickInv, TypeOK
<1>5. cut \subseteq cut' /\ cut' \subseteq cut \cup {proc'[q].name}  BY DEF I
<1> QED  BY <1>2, <1>3, <1>4, <1>5 DEF Frame, Moves, I

\* A step that leaves the system alone is a step on its own interface only.
LEMMA FramedQuiet ==
  ASSUME QuickInv, NEW q \in Running, NEW s \in Places \ {"idle"}, Moves(q, s),
         proc'[q].name = proc[q].name,
         cut' \in {cut, cut \cup {I(q)}},
         IF s = "done" THEN last' = q ELSE last' = last,
         UNCHANGED sys
  PROVE  Frame(q) /\ cut' \subseteq Ifaces
<1>1. link' = link /\ filter' = filter /\ rules' = rules /\ conf' = conf  BY DEF sys
<1>2. \A i \in Ifaces : Of(i)' = Of(i)  BY <1>1 DEF Of
<1> QED  BY <1>1, <1>2, Framed

\* Rules keep their networks while neither changes.
LEMMA OwnedKept ==
  ASSUME Owned, nets' = nets, rules' = rules,
         \A r \in Procs : At(r, "addif")' => At(r, "addif") /\ N(r)' = N(r)
  PROVE  Owned'
  BY DEF Owned

\* Networks stay accounted for while neither they nor the rules change.
LEMMA AccountedKept ==
  ASSUME NetworksAccounted, nets' = nets, rules' = rules,
         \A r \in Procs : "addif" \in {proc[r].pc, proc[r].at}
                         => "addif" \in {proc'[r].pc, proc'[r].at} /\ N(r)' = N(r)
  PROVE  NetworksAccounted'
  BY DEF NetworksAccounted

\* Types, owners and accounts, over a step that leaves the system alone.
LEMMA QuietTypes ==
  ASSUME QuickInv, NEW q \in Procs, NEW s \in Places \ {"addif"}, Moves(q, s), UNCHANGED sys,
         cut' \subseteq Ifaces,
         "addif" \in {proc[q].pc, proc[q].at} => proc'[q].at = "addif" /\ N(q)' = N(q)
  PROVE  TypeOK' /\ Owned' /\ NetworksAccounted'
<1>1. link' = link /\ filter' = filter /\ nets' = nets /\ rules' = rules /\ conf' = conf
  BY DEF sys
<1>2. TypeOK'  BY <1>1 DEF QuickInv, TypeOK, Moves
<1>3. \A r \in Procs : At(r, "addif")' => At(r, "addif") /\ N(r)' = N(r)
  BY DEF Moves, At, N
<1>4. Owned'  BY <1>1, <1>3, OwnedKept DEF QuickInv
<1>5. \A r \in Procs : "addif" \in {proc[r].pc, proc[r].at}
                       => "addif" \in {proc'[r].pc, proc'[r].at} /\ N(r)' = N(r)
  BY DEF Moves, N
<1>6. NetworksAccounted'  BY <1>1, <1>5, AccountedKept DEF QuickInv
<1> QED  BY <1>2, <1>4, <1>6

\* What the own interface needs, over a step that leaves the system alone.
LEMMA QuietReached ==
  ASSUME QuickInv, Apart, NEW q \in Procs, Frame(q), UNCHANGED sys,
         NEW i \in Ifaces \ cut', i = proc'[q].name,
         q \in Running /\ proc[q].pc \in Deletes \ {"del"} /\ Of(i) # {}
           => q \in Running' /\ proc'[q].pc \in Deletes \ {"del"},
         q \in Running' /\ (\/ proc'[q].pc \in Rises \ {"add", "addr", "dns", "routes", "mtu", "users"}
                            \/ Past(q, {})')
           => Of(i) = {}
  PROVE  Reached(i)'
<1>1. Of(i)' = Of(i) /\ link' = link  BY DEF sys, Of
<1>2. Reached(i)  BY DEF QuickInv, Frame
<1>3. \A r \in Running : I(r) = i => r = q  BY DEF Frame, I
<1>4. \A r \in Running' : I(r)' = i => r = q
  <2> SUFFICES ASSUME NEW r \in Running', I(r)' = i, r # q  PROVE FALSE
    OBVIOUS
  <2>1. r \in Procs \ {q}  BY DEF Running
  <2>2. r \in Running /\ I(r) = i  BY <2>1, RunningKept
  <2> QED  BY <2>2, <1>3
<1>5. \A r, s \in Of(i)' : r = s  BY <1>1, <1>2 DEF Reached
<1>6. ASSUME link'[i] = {}, Of(i)' # {}
      PROVE  \E r \in Running' : I(r)' = i /\ proc'[r].pc \in Deletes \ {"del"}
  <2>1. q \in Running /\ proc[q].pc \in Deletes \ {"del"}  BY <1>1, <1>2, <1>3, <1>6 DEF Reached
  <2>2. q \in Running' /\ proc'[q].pc \in Deletes \ {"del"}  BY <2>1, <1>1, <1>6
  <2> QED  BY <2>2 DEF I
<1>7. ASSUME NEW r \in Running', I(r)' = i,
             proc'[r].pc \in Rises \ {"add", "addr", "dns", "routes", "mtu", "users"} \/ Past(r, {})'
      PROVE  Of(i)' = {}
  <2>1. r = q  BY <1>4, <1>7
  <2> QED  BY <2>1, <1>1, <1>7
<1> QED  BY <1>5, <1>6, <1>7 DEF Reached

\* The invocation ends.
LEMMA Ending ==
  ASSUME QuickInv, Apart, NEW q \in Running, Moves(q, "done"), UNCHANGED sys, last' = q,
         proc'[q].cmd = proc[q].cmd, proc'[q].name = proc[q].name, proc'[q].net = proc[q].net,
         cut' \in {cut, cut \cup {I(q)}},
         proc[q].pc \in Deletes \ {"del"} => I(q) \in cut' \/ Of(I(q)) = {},
         "addif" \in {proc[q].pc, proc[q].at} => proc'[q].at = "addif",
         proc'[q].at = "addif" => proc[q].cmd = "up",
         Promised(q)',
         proc'[q].code = "success" /\ proc[q].cmd = "up" => Whole(q)'
  PROVE  QuickInv'
<1>1. q \in Procs /\ I(q) \in Ifaces /\ N(q)' = N(q) /\ I(q)' = I(q)
  BY DEF Running, QuickInv, Consistent, I, N
<1>2. q \notin Running' /\ proc'[q].pc = "done"  BY DEF Running, Moves
<1>3. "done" \in Places \ {"idle", "addif"}  BY DEF Places
<1>4. Frame(q) /\ cut' \subseteq Ifaces  BY <1>3, FramedQuiet
<1>5. TypeOK' /\ Owned' /\ NetworksAccounted'  BY <1>1, <1>3, <1>4, QuietTypes
<1>6. Consistent(q)'  BY <1>1, <1>2 DEF Consistent, At, Rises, Late, Deletes
<1>7. Holds(q)'  BY <1>2 DEF Holds, At
<1>8. \A i \in Ifaces \ cut' : i = proc'[q].name => Reached(i)'
  <2> SUFFICES ASSUME NEW i \in Ifaces \ cut', i = proc'[q].name  PROVE Reached(i)'
    OBVIOUS
  <2>1. proc[q].pc \in Deletes \ {"del"} => Of(i) = {}  BY DEF I
  <2> QED  BY <1>1, <1>2, <1>4, <2>1, QuietReached
<1> QED  BY <1>1, <1>2, <1>4, <1>5, <1>6, <1>7, <1>8, OnlyOwn

\* An invocation that was killed, or that refused to begin, promises nothing.
LEMMA KilledOrRefused ==
  ASSUME QuickInv, Apart, NEW q \in Running, Moves(q, "done"), UNCHANGED sys, last' = q,
         proc'[q].cmd = proc[q].cmd, proc'[q].name = proc[q].name, proc'[q].net = proc[q].net,
         proc'[q].code \in {"exists", "absent", "killed"},
         proc'[q].at \in {proc[q].at, First(q)}, proc'[q].at = First(q) \/ proc[q].pc \in {"show", "list"},
         cut' \in {cut, cut \cup {I(q)}},
         proc[q].pc \in Deletes \ {"del"} => I(q) \in cut'
  PROVE  QuickInv'
<1>1. q \in Procs /\ Consistent(q)  BY DEF Running, QuickInv
<1>2. Promised(q)'  BY DEF Promised
<1>3. proc[q].pc = "addif" => proc[q].at = "none" /\ proc[q].cmd = "up"
  BY <1>1 DEF Consistent, Rises, Late
<1>4. "addif" \in {proc[q].pc, proc[q].at} => proc'[q].at = "addif"
  BY <1>3 DEF First
<1>5. proc'[q].at = "addif" => proc[q].cmd = "up"
  BY <1>1, <1>3 DEF Consistent, First
<1> QED  BY <1>2, <1>4, <1>5, Ending

\* The action Kill.
LEMMA Killed ==
  ASSUME QuickInv, Apart, NEW q \in Procs, Kill(q)
  PROVE  QuickInv'
<1>1. q \in Running /\ UNCHANGED sys /\ last' = q  BY DEF Kill
<1>2. "done" \in Places /\ "killed" \in Codes /\ First(q) \in Places
  <2>1. proc[q] \in Invocation  BY DEF QuickInv, TypeOK
  <2>2. proc[q].pc \in Places /\ proc[q].at \in Places \cup {"none"}  BY <2>1 DEF Invocation
  <2> QED  BY <2>2 DEF First, Places, Codes
<1>3. /\ Moves(q, "done") /\ proc'[q].code = "killed" /\ proc'[q].at = First(q)
      /\ proc'[q].cmd = proc[q].cmd /\ proc'[q].name = proc[q].name /\ proc'[q].net = proc[q].net
  <2>1. PICK a \in Places : a = First(q)  BY <1>2
  <2>2. StopsAt(q, "killed", a)  BY <2>1 DEF Kill, StopsAt
  <2>3. TypeOK  BY DEF QuickInv
  <2>4. "killed" \in Codes  BY <1>2
  <2>5. /\ Moves(q, "done") /\ proc'[q].code = "killed" /\ proc'[q].at = a
        /\ proc'[q].cmd = proc[q].cmd /\ proc'[q].name = proc[q].name /\ proc'[q].net = proc[q].net
    BY <2>2, <2>3, <2>4, MovesStops
  <2> QED  BY <2>1, <2>5
<1>4. cut' \in {cut, cut \cup {I(q)}} /\ (proc[q].pc \in Deletes \ {"del"} => I(q) \in cut')
  BY DEF Kill
<1> QED  BY <1>1, <1>3, <1>4, KilledOrRefused

\* `up' finds the link there, `down' does not.
LEMMA Refused ==
  ASSUME QuickInv, Apart, NEW q \in Procs, proc[q].pc \in {"show", "list"},
         NEW c \in {"exists", "absent"}, Ends(q, c), UNCHANGED sys
  PROVE  QuickInv'
<1>1. q \in Running  BY DEF Running
<1>2. "done" \in Places /\ c \in Codes /\ FALSE \in BOOLEAN  BY DEF Places, Codes
<1>3. /\ Moves(q, "done") /\ proc'[q].code = c /\ proc'[q].at = proc[q].at
      /\ proc'[q].cmd = proc[q].cmd /\ proc'[q].name = proc[q].name /\ proc'[q].net = proc[q].net
  <2>1. EndsAs(q, "done", c, FALSE)  BY DEF Ends, EndsAs
  <2>2. TypeOK  BY DEF QuickInv
  <2> QED  BY <1>2, <2>1, <2>2, MovesEnds
<1>4. cut' = cut /\ last' = q  BY DEF Ends
<1>5. proc[q].pc \notin Deletes  BY DEF Deletes
<1> QED  BY <1>1, <1>3, <1>4, <1>5, KilledOrRefused

\* The action BroadcastChange: all that up set up is there, all that down took down is gone.
LEMMA Broadcasts ==
  ASSUME QuickInv, Apart, NEW q \in Procs, BroadcastChange(q)
  PROVE  QuickInv'
<1>1. q \in Running /\ proc[q].pc = "broadcast" /\ last' = q /\ cut' = cut /\ UNCHANGED sys
  BY DEF BroadcastChange, At, Running, Ends
<1>2. "done" \in Places /\ "success" \in Codes /\ FALSE \in BOOLEAN  BY DEF Places, Codes
<1>3. /\ Moves(q, "done") /\ proc'[q].code = "success" /\ proc'[q].at = proc[q].at
      /\ proc'[q].cmd = proc[q].cmd /\ proc'[q].name = proc[q].name /\ proc'[q].net = proc[q].net
  <2>1. EndsAs(q, "done", "success", FALSE)  BY DEF Ends, EndsAs, BroadcastChange
  <2>2. TypeOK  BY DEF QuickInv
  <2> QED  BY <1>2, <2>1, <2>2, MovesEnds
<1>4. Consistent(q) /\ Holds(q) /\ Taken(q) /\ SetUp(q) /\ I(q) \in Ifaces
  BY <1>1 DEF QuickInv, Consistent
<1>5. I(q)' = I(q) /\ N(q)' = N(q)  BY <1>3 DEF I, N
<1>6. link' = link /\ filter' = filter /\ nets' = nets /\ rules' = rules /\ conf' = conf
  BY <1>1 DEF sys
<1>7. proc[q].cmd = "up" => Whole(q)'
  <2> SUFFICES ASSUME proc[q].cmd = "up"  PROVE Whole(q)'
    OBVIOUS
  <2>1. Ours(q) \in rules  BY <1>1, <1>4 DEF Holds, At
  <2>2. N(q) \in nets /\ N(q) \in NetIds
    <3>1. Ours(q).net = N(q)  BY DEF Ours
    <3> QED  BY <2>1, <3>1 DEF QuickInv, Owned, TypeOK
  <2>3. link[I(q)] = LinkFacts
    <3>1. link[I(q)] \subseteq LinkFacts  BY <1>4 DEF QuickInv, TypeOK
    <3>2. LinkFacts \subseteq link[I(q)]  BY <1>1, <1>4 DEF SetUp, LinkFacts
    <3> QED  BY <3>1, <3>2
  <2>4. NetFacts \ Missed(q) \subseteq conf[N(q)] /\ Missed(q)' = Missed(q)
    <3>1. "dns" \in conf[N(q)] /\ "users" \in conf[N(q)]  BY <1>1, <1>4 DEF SetUp
    <3>2. proc[q].at # "routes" => "routes" \in conf[N(q)]  BY <1>1, <1>4 DEF SetUp
    <3>3. Missed(q)' = Missed(q)  BY <1>3 DEF Missed
    <3>4. proc[q].at = "routes" => Missed(q) = {"routes"}  BY DEF Missed
    <3> QED  BY <3>1, <3>2, <3>3, <3>4 DEF NetFacts
  <2>5. filter[I(q)]["out4"] > 0 /\ filter[I(q)]["out6"] > 0  BY <1>1, <1>4 DEF SetUp
  <2> QED  BY <1>5, <1>6, <2>1, <2>2, <2>3, <2>4, <2>5 DEF Whole, Ours
<1>8. ASSUME proc[q].cmd = "down", proc[q].at = "none"
      PROVE  link[I(q)] = {} /\ filter[I(q)] = NoRules /\ (I(q) \notin cut => Of(I(q)) = {})
  <2>1. Past(q, Deletes) /\ Past(q, {})  BY <1>1, <1>8 DEF Past, At
  <2>2. link[I(q)] = {} /\ \A f \in FilterRules : filter[I(q)][f] = 0
    BY <1>1, <1>4, <1>8 DEF Taken, OnlyMine, Past, At, FilterRules
  <2>3. filter[I(q)] \in [FilterRules -> Nat]  BY <1>4 DEF QuickInv, TypeOK, Counts
  <2>4. filter[I(q)] = NoRules  BY <2>2, <2>3 DEF NoRules
  <2>5. I(q) \notin cut => Of(I(q)) = {}  BY <1>1, <1>4, <2>1 DEF QuickInv, Reached
  <2> QED  BY <2>2, <2>4, <2>5
<1>9. Promised(q)'
  <2>1. Of(I(q))' = {r \in rules : r.name = I(q)}  BY <1>5, <1>6 DEF Of
  <2> QED  BY <1>1, <1>3, <1>5, <1>6, <1>8, <2>1 DEF Promised, Cleared, Of
<1>10. "addif" \in {proc[q].pc, proc[q].at} => proc'[q].at = "addif"  BY <1>1, <1>3
<1>11. proc'[q].at = "addif" => proc[q].cmd = "up"  BY <1>3, <1>4 DEF Consistent
<1>12. proc[q].pc \notin Deletes  BY <1>1 DEF Deletes
<1> QED  BY <1>1, <1>3, <1>7, <1>9, <1>10, <1>11, <1>12, Ending

\* The action CleanupReturns: the exit handler has taken everything down.
LEMMA Exits ==
  ASSUME QuickInv, Apart, NEW q \in Procs, CleanupReturns(q)
  PROVE  QuickInv'
<1>1. q \in Running /\ proc[q].pc = "exit" /\ last' = q /\ cut' = cut /\ UNCHANGED sys
  BY DEF CleanupReturns, At, Running, Ends
<1>2. "done" \in Places /\ "error" \in Codes /\ FALSE \in BOOLEAN  BY DEF Places, Codes
<1>3. /\ Moves(q, "done") /\ proc'[q].code = "error" /\ proc'[q].at = proc[q].at
      /\ proc'[q].cmd = proc[q].cmd /\ proc'[q].name = proc[q].name /\ proc'[q].net = proc[q].net
  <2>1. EndsAs(q, "done", "error", FALSE)  BY DEF Ends, EndsAs, CleanupReturns
  <2>2. TypeOK  BY DEF QuickInv
  <2> QED  BY <1>2, <2>1, <2>2, MovesEnds
<1>4. Consistent(q) /\ Taken(q) /\ I(q) \in Ifaces /\ proc[q].cmd = "up"
  BY <1>1 DEF QuickInv, Consistent
<1>5. I(q)' = I(q) /\ link' = link /\ filter' = filter /\ rules' = rules  BY <1>1, <1>3 DEF I, sys
<1>6. ASSUME I(q) \notin cut
      PROVE  link[I(q)] = {} /\ filter[I(q)] = NoRules /\ Of(I(q)) = {}
  <2>1. \A steps : Past(q, steps)  BY <1>1 DEF Past
  <2>2. link[I(q)] = {} /\ \A f \in FilterRules : filter[I(q)][f] = 0
    BY <1>4, <1>6, <2>1 DEF Taken, OnlyMine, FilterRules
  <2>3. filter[I(q)] \in [FilterRules -> Nat]  BY <1>4 DEF QuickInv, TypeOK, Counts
  <2>4. filter[I(q)] = NoRules  BY <2>2, <2>3 DEF NoRules
  <2>5. Of(I(q)) = {}  BY <1>1, <1>4, <1>6, <2>1 DEF QuickInv, Reached
  <2> QED  BY <2>2, <2>4, <2>5
<1>7. Promised(q)'
  <2>1. Of(I(q))' = {r \in rules : r.name = I(q)}  BY <1>5 DEF Of
  <2> QED  BY <1>1, <1>3, <1>4, <1>5, <1>6, <2>1 DEF Promised, Cleared, Of
<1>8. "addif" \in {proc[q].pc, proc[q].at} => proc'[q].at = "addif"  BY <1>1, <1>3
<1>9. proc[q].pc \notin Deletes  BY <1>1 DEF Deletes
<1> QED  BY <1>1, <1>3, <1>4, <1>7, <1>8, <1>9, Ending

(***************************************************************************)
(* The invocation goes on.                                                 *)
(***************************************************************************)
LEMMA Going ==
  ASSUME QuickInv, Apart, NEW q \in Running, NEW s \in Places \ {"idle", "done"}, Moves(q, s), Frame(q),
         TypeOK', Owned', NetworksAccounted',
         \A i \in Ifaces \ cut' : i = proc'[q].name => Reached(i)',
         Consistent(q)', Holds(q)', Taken(q)', SetUp(q)'
  PROVE  QuickInv'
<1>1. q \in Procs /\ q \in Running'  BY DEF Running, Moves
<1>2. Promised(q)'  BY <1>1 DEF Promised, Over
<1>3. proc'[q].code = "none"  BY <1>1 DEF Consistent
<1> QED  BY <1>1, <1>2, <1>3, OnlyOwn

\* The same, for a step that leaves the system alone.
LEMMA GoingQuietly ==
  ASSUME QuickInv, Apart, NEW q \in Running, NEW s \in Places \ {"idle", "done", "addif"}, Moves(q, s),
         UNCHANGED sys, last' = last, cut' \in {cut, cut \cup {I(q)}},
         proc'[q].name = proc[q].name,
         "addif" \in {proc[q].pc, proc[q].at} => proc'[q].at = "addif" /\ proc'[q].net = proc[q].net,
         I(q) \notin cut' =>
           /\ proc[q].pc \in Deletes \ {"del"} /\ Of(I(q)) # {} => s \in Deletes \ {"del"}
           /\ s \in Rises \ {"add", "addr", "dns", "routes", "mtu", "users"} \/ Past(q, {})' => Of(I(q)) = {},
         Consistent(q)', Holds(q)', Taken(q)', SetUp(q)'
  PROVE  QuickInv'
<1>1. q \in Procs /\ q \in Running' /\ proc'[q].pc = s  BY DEF Running, Moves
<1>2. Frame(q) /\ cut' \subseteq Ifaces  BY FramedQuiet
<1>3. TypeOK' /\ Owned' /\ NetworksAccounted'  BY <1>1, <1>2, QuietTypes DEF N
<1>4. \A i \in Ifaces \ cut' : i = proc'[q].name => Reached(i)'
  <2> SUFFICES ASSUME NEW i \in Ifaces \ cut', i = proc'[q].name  PROVE Reached(i)'
    OBVIOUS
  <2>1. i = I(q)  BY DEF I
  <2> QED  BY <1>1, <1>2, <2>1, QuietReached
<1> QED  BY <1>2, <1>3, <1>4, Going

\* What is the same when an invocation goes on without a new number, list or name.
Same(q) ==
  /\ proc'[q].cmd = proc[q].cmd /\ proc'[q].name = proc[q].name /\ proc'[q].net = proc[q].net
  /\ proc'[q].code = proc[q].code

\* What the invariant says of one invocation.
LEMMA Types ==
  ASSUME QuickInv, NEW q \in Procs
  PROVE  /\ TypeOK /\ proc[q] \in Invocation /\ Consistent(q) /\ Holds(q)
         /\ q \in Running => /\ I(q) \in Ifaces /\ proc[q].cmd \in {"up", "down"} /\ proc[q].code = "none"
                             /\ Taken(q) /\ SetUp(q)
                             /\ I(q) \notin cut => Reached(I(q))
  BY DEF QuickInv, TypeOK, Consistent

\* The action Start.
LEMMA Starts ==
  ASSUME QuickInv, Apart, NEW q \in Procs, NEW c \in {"up", "down"}, NEW i \in Ifaces, Start(q, c, i)
  PROVE  QuickInv'
<1>1. proc[q].pc = "idle" /\ proc[q].name = "none" /\ proc[q].at = "none" /\ proc[q].code = "none"
  BY Types DEF Start, At, Consistent
<1>2. "parse" \in Places /\ c \in Verbs  BY DEF Places, Verbs
<1>3. /\ Moves(q, "parse") /\ proc'[q].cmd = c /\ proc'[q].name = i /\ proc'[q].cleanup = proc[q].cleanup
      /\ proc'[q].code = proc[q].code /\ proc'[q].at = proc[q].at
  <2>1. proc' = [proc EXCEPT ![q].pc = "parse", ![q].cmd = c, ![q].name = i]  BY DEF Start
  <2>2. TypeOK  BY DEF QuickInv
  <2>3. c \in Verbs  BY <1>2
  <2> QED  BY <2>1, <2>2, <2>3, MovesStarts
<1>4. UNCHANGED sys /\ last' = last /\ cut' = cut  BY DEF Start
<1>5. link' = link /\ filter' = filter /\ rules' = rules /\ conf' = conf  BY <1>4 DEF sys
<1>6. q \in Running' /\ q \notin Running  BY <1>1, <1>3 DEF Running, Moves
<1>7. Frame(q)
  <2>1. \A r \in Running \ {q} : proc[r].name # i  BY DEF Start, Apart
  <2>2. \A j \in Ifaces : Of(j)' = Of(j)  BY <1>5 DEF Of
  <2> QED  BY <1>1, <1>3, <1>4, <1>5, <1>6, <2>1, <2>2 DEF Frame, Moves
<1>8. TypeOK' /\ Owned' /\ NetworksAccounted'
  <2>1. "parse" \in Places \ {"addif"} /\ cut' \subseteq Ifaces  BY <1>2, <1>4, Types DEF TypeOK
  <2>2. "addif" \notin {proc[q].pc, proc[q].at}  BY <1>1
  <2> QED  BY <1>3, <1>4, <2>1, <2>2, QuietTypes
<1>9. proc'[q].pc = "parse"  BY <1>3 DEF Moves
<1>10. Consistent(q)'
  BY <1>1, <1>3, <1>9, Types DEF Consistent, At, I, Rises, Late, Deletes
<1>11. Holds(q)' /\ Promised(q)' /\ Taken(q)' /\ SetUp(q)'
  BY <1>1, <1>3, <1>9 DEF Holds, Promised, Taken, OnlyMine, SetUp, At, Past, Deletes
<1>12. \A j \in Ifaces \ cut' : j = proc'[q].name => Reached(j)'
  <2> SUFFICES ASSUME NEW j \in Ifaces \ cut', j = proc'[q].name  PROVE Reached(j)'
    OBVIOUS
  <2>1. ~Past(q, {})' /\ proc'[q].pc \notin Rises  BY <1>9 DEF Past, At, Rises
  <2> QED  BY <1>4, <1>6, <1>7, <2>1, QuietReached
<1> QED  BY <1>1, <1>3, <1>7, <1>8, <1>10, <1>11, <1>12, OnlyOwn

\* The action ParseOptions.
LEMMA Parses ==
  ASSUME QuickInv, Apart, NEW q \in Procs, ParseOptions(q)
  PROVE  QuickInv'
<1> DEFINE s == IF proc[q].cmd = "up" THEN "show" ELSE "list"
<1>1. proc[q].pc = "parse" /\ q \in Running  BY DEF ParseOptions, At, Running
<1>2. s \in {"show", "list"} /\ s \in Places \ {"idle", "done", "addif"}  BY DEF Places
<1>3. /\ Moves(q, s) /\ Same(q) /\ proc'[q].cleanup = proc[q].cleanup /\ proc'[q].at = proc[q].at
  <2>1. PICK t \in Places : t = s  BY <1>2
  <2>2. TypeOK /\ proc' = [proc EXCEPT ![q].pc = t]  BY <2>1 DEF ParseOptions, Goes, QuickInv
  <2>3. Moves(q, t) /\ Same(q) /\ proc'[q].cleanup = proc[q].cleanup /\ proc'[q].at = proc[q].at
    BY <2>2, MovesOn DEF Same
  <2> QED  BY <2>1, <2>3
<1>4. UNCHANGED sys /\ last' = last /\ cut' = cut  BY DEF ParseOptions, Goes
<1>5. proc'[q].pc = s  BY <1>3 DEF Moves
<1>6. Consistent(q)'
  BY <1>1, <1>2, <1>3, <1>5, Types DEF Consistent, Same, At, I, Rises, Late, Deletes
<1>7. Holds(q)' /\ Taken(q)' /\ SetUp(q)'
  BY <1>2, <1>5 DEF Holds, Taken, OnlyMine, SetUp, At, Past, Deletes
<1>8. "addif" \notin {proc[q].pc, proc[q].at}  BY <1>1, Types DEF Consistent
<1>9. proc[q].pc \notin Deletes /\ s \notin Rises /\ ~Past(q, {})'
  BY <1>1, <1>2, <1>5 DEF Past, At, Rises, Deletes
<1> HIDE DEF s
<1> QED  BY <1>1, <1>2, <1>3, <1>4, <1>6, <1>7, <1>8, <1>9, GoingQuietly DEF Same

\* `up' finds no link, or could not look for one.
LEMMA Arms ==
  ASSUME QuickInv, Apart, NEW q \in Procs, proc[q].pc = "show", UNCHANGED sys, last' = last, cut' = cut,
         proc' = [proc EXCEPT ![q].pc = "add", ![q].cleanup = TRUE]
  PROVE  QuickInv'
<1>1. q \in Running  BY DEF Running
<1>2. "add" \in Places /\ TRUE \in BOOLEAN /\ TypeOK  BY DEF Places, Rises, QuickInv
<1>3. Moves(q, "add") /\ Same(q) /\ proc'[q].cleanup = TRUE /\ proc'[q].at = proc[q].at
  BY <1>2, MovesArmed DEF Same
<1>4. proc'[q].pc = "add"  BY <1>3 DEF Moves
<1>5. Consistent(q)'
  BY <1>1, <1>3, <1>4, Types DEF Consistent, Same, At, I, Rises, Late, Deletes
<1>6. Holds(q)' /\ Taken(q)' /\ SetUp(q)'
  BY <1>4 DEF Holds, Taken, OnlyMine, SetUp, At, Past, Deletes
<1>7. "addif" \notin {proc[q].pc, proc[q].at}  BY Types DEF Consistent
<1>8. proc[q].pc \notin Deletes /\ ~Past(q, {})'  BY <1>4 DEF Past, At, Deletes
<1>9. "add" \in Places \ {"idle", "done", "addif"}  BY <1>2
<1> QED  BY <1>1, <1>3, <1>5, <1>6, <1>7, <1>8, <1>9, GoingQuietly DEF Same

\* cmd_down finds the link and goes on to del_if.
LEMMA TakesDown ==
  ASSUME QuickInv, Apart, NEW q \in Procs, proc[q].pc = "list", UNCHANGED sys, Goes(q, "del")
  PROVE  QuickInv'
<1>1. q \in Running  BY DEF Running
<1>2. "del" \in Places \ {"idle", "done", "addif"} /\ TypeOK  BY DEF Places, QuickInv, Deletes
<1>3. Moves(q, "del") /\ Same(q) /\ proc'[q].cleanup = proc[q].cleanup /\ proc'[q].at = proc[q].at
  BY <1>2, MovesOn DEF Same, Goes
<1>4. proc'[q].pc = "del"  BY <1>3 DEF Moves
<1>5. Consistent(q)'
  BY <1>1, <1>3, <1>4, Types DEF Consistent, Same, At, I, Rises, Late, Deletes
<1>6. Holds(q)' /\ Taken(q)' /\ SetUp(q)'
  BY <1>4 DEF Holds, Taken, OnlyMine, SetUp, At, Past, Deletes
<1>7. "addif" \notin {proc[q].pc, proc[q].at}  BY Types DEF Consistent
<1>8. proc[q].pc \notin Deletes /\ "del" \notin Rises /\ ~Past(q, {})'
  BY <1>4 DEF Past, At, Deletes, Rises
<1>9. last' = last /\ cut' = cut  BY DEF Goes
<1> QED  BY <1>1, <1>2, <1>3, <1>5, <1>6, <1>7, <1>8, <1>9, GoingQuietly DEF Same

(***************************************************************************)
(* `up' sets up the interface.                                             *)
(***************************************************************************)
\* The steps that leave the networks and their interfaces as they are.
LEMMA Rising ==
  ASSUME QuickInv, Apart, NEW q \in Procs, proc[q].pc \in Rises \ {"create", "addif"},
         NEW s \in (Rises \ {"add", "addif", "addr"}) \cup {"broadcast"}, Moves(q, s),
         proc'[q].cmd = proc[q].cmd, proc'[q].name = proc[q].name, proc'[q].code = proc[q].code,
         proc'[q].cleanup = proc[q].cleanup, proc'[q].at = proc[q].at,
         s \in Late \cup {"broadcast"} <=> proc[q].pc \in Late,
         proc[q].pc \in Late => proc'[q].net = proc[q].net,
         nets' = nets, rules' = rules, last' = last, cut' = cut,
         link' \in [Ifaces -> SUBSET LinkFacts], filter' \in [Ifaces -> Counts],
         conf' \in [NetIds -> SUBSET NetFacts],
         \A i \in Ifaces \ {I(q)} : link'[i] = link[i] /\ filter'[i] = filter[i],
         \A n \in NetIds : conf[n] \subseteq conf'[n],
         link' = link \/ link'[I(q)] # {},
         proc[q].pc = "add" => link[I(q)] = {},
         s = "create" => proc'[q].net \in NetIds,
         SetUp(q)'
  PROVE  QuickInv'
<1>1. q \in Running  BY DEF Running, Rises
<1>2. /\ TypeOK /\ proc[q] \in Invocation /\ Consistent(q) /\ Holds(q)
      /\ I(q) \in Ifaces /\ proc[q].cmd = "up" /\ proc[q].code = "none"
      /\ proc[q].at \in {"none", "routes"} /\ (proc[q].pc \notin Late => proc[q].at = "none")
      /\ proc[q].cleanup
      /\ I(q) \notin cut => Reached(I(q))
  BY <1>1, Types DEF Consistent
<1>3. proc'[q].pc = s /\ s # "addif" /\ s \notin Deletes /\ s \notin {"idle", "done", "exit"} /\ s \in Places
  BY DEF Moves, Rises, Deletes, Places
<1>4. \A i \in Ifaces : Of(i)' = Of(i)  BY DEF Of
<1>5. Frame(q)
  <2>1. \A r \in rules : conf[r.net] \subseteq conf'[r.net]  BY <1>2 DEF TypeOK
  <2> QED  BY <1>1, <1>3, <1>4, <2>1, Framed
<1>6. TypeOK'  BY <1>2 DEF TypeOK, Moves
<1>7. \A r \in Procs : At(r, "addif")' => At(r, "addif") /\ N(r)' = N(r)
  BY <1>3 DEF Moves, At, N
<1>8. Owned'  BY <1>7, OwnedKept DEF QuickInv
<1>9. NetworksAccounted'
  <2>1. \A r \in Procs : "addif" \in {proc[r].pc, proc[r].at}
                         => "addif" \in {proc'[r].pc, proc'[r].at} /\ N(r)' = N(r)
    BY <1>2 DEF Moves, N
  <2> QED  BY <2>1, AccountedKept DEF QuickInv
<1>10. Consistent(q)'
  <2>1. s \notin Late \cup {"broadcast"} => proc'[q].at = "none"  BY <1>2
  <2>2. s \notin {"show", "list", "parse", "idle"}  BY DEF Rises
  <2>3. s \in Late => s \in Rises  BY DEF Late, Rises
  <2>4. proc'[q].at \in {"none", "routes"} /\ proc'[q].at # "addif"  BY <1>2
  <2>5. /\ I(q)' \in Ifaces /\ proc'[q].cmd = "up" /\ proc'[q].code = "none" /\ proc'[q].cleanup
        /\ s = "create" => N(q)' \in NetIds
    BY <1>2 DEF I, N
  <2>6. "broadcast" \notin Rises  BY DEF Rises
  <2> QED  BY <1>3, <2>1, <2>2, <2>3, <2>4, <2>5, <2>6 DEF Consistent, At
<1>11. Holds(q)'
  <2>1. s \in Late \cup {"broadcast"} => Ours(q) \in rules' /\ Ours(q)' = Ours(q)
    BY <1>2 DEF Holds, Late, Ours, N, I
  <2> QED  BY <1>3, <2>1 DEF Holds, At, Late, Deletes
<1>12. Taken(q)'
  BY <1>2, <1>3 DEF Taken, OnlyMine, Past, At, Deletes
<1>13. ASSUME NEW i \in Ifaces \ cut', i = proc'[q].name
       PROVE  Reached(i)'
  <2>1. i = I(q) /\ Reached(i)  BY <1>2, <1>13 DEF I
  <2>2. \A r \in Running : I(r) = i => r = q  BY <1>1, <2>1 DEF QuickInv, Serial
  <2>3. Of(i) # {} => link[i] # {}
    <3>1. proc[q].pc \notin Deletes  BY DEF Rises, Deletes
    <3> QED  BY <2>1, <2>2, <3>1 DEF Reached
  <2>4. link'[i] # {} \/ link' = link  BY <2>1
  <2>5. s \notin Late \cup {"broadcast"} => Of(i) = {}
    <3>1. CASE proc[q].pc = "add"  BY <2>1, <2>3, <3>1
    <3>2. CASE proc[q].pc # "add"
      <4> SUFFICES ASSUME proc[q].pc \notin Late  PROVE Of(i) = {}
        OBVIOUS
      <4>1. proc[q].pc \in Rises \ {"add", "addr", "dns", "routes", "mtu", "users"}  BY <3>2 DEF Late
      <4> QED  BY <1>1, <2>1, <4>1 DEF Reached
    <3> QED  BY <3>1, <3>2
  <2>6. \A r \in Running' : I(r)' = i => r = q
    <3>1. Serial'  BY <1>5, SerialKept
    <3>2. q \in Running' /\ I(q)' = i  BY <1>3, <1>13 DEF Running, I
    <3> QED  BY <3>1, <3>2 DEF Serial
  <2>7. ~Past(q, {})'  BY <1>2, <1>3 DEF Past, At
  <2>8. s \in Rises \ {"add", "addr", "dns", "routes", "mtu", "users"} => s \notin Late \cup {"broadcast"}
    BY DEF Late, Rises
  <2>9. \A r, t \in Of(i)' : r = t
    <3>1. Of(i)' = Of(i)  BY <1>4
    <3>2. \A r, t \in Of(i) : r = t  BY <2>1 DEF Reached
    <3> QED  BY <3>1, <3>2
  <2>10. Of(i)' # {} => link'[i] # {}  BY <1>4, <2>3, <2>4
  <2> QED  BY <1>3, <1>4, <2>5, <2>6, <2>7, <2>8, <2>9, <2>10 DEF Reached
<1> QED  BY <1>1, <1>3, <1>5, <1>6, <1>8, <1>9, <1>10, <1>11, <1>12, <1>13, Going

\* A rise from a place of `up' to the next one.
Step(q, s) ==
  /\ proc[q].pc \in Rises \ {"create", "addif"}
  /\ s \in (Rises \ {"add", "create", "addif", "addr"}) \cup {"broadcast"}
  /\ s \in Late \cup {"broadcast"} <=> proc[q].pc \in Late
  /\ proc[q].pc = "add" => link[I(q)] = {}

\* What every command of cmd_up has in common.
LEMMA RaisesAtAll ==
  ASSUME QuickInv, NEW q \in Procs, NEW s, Step(q, s), Goes(q, s)
  PROVE  /\ Moves(q, s) /\ proc'[q].pc = s /\ Same(q) /\ I(q)' = I(q) /\ N(q)' = N(q)
         /\ proc'[q].cleanup = proc[q].cleanup /\ proc'[q].at = proc[q].at
         /\ last' = last /\ cut' = cut
<1>1. TypeOK /\ s \in Places  BY DEF QuickInv, Step, Places
<1> QED  BY <1>1, MovesOn DEF Goes, Same, Moves, I, N

\* A command of cmd_up that sets a property of the link.
LEMMA SetsLink ==
  ASSUME QuickInv, Apart, NEW q \in Procs, NEW s, NEW fact \in LinkFacts, Step(q, s),
         Sets(q, fact), Goes(q, s),
         /\ proc'[q].pc = s /\ Same(q) /\ I(q)' = I(q) /\ N(q)' = N(q) /\ proc'[q].at = proc[q].at
         /\ link'[I(q)] = link[I(q)] \cup {fact} /\ filter' = filter /\ conf' = conf
         => SetUp(q)'
  PROVE  QuickInv'
<1>1. q \in Running  BY DEF Running, Rises, Step
<1>2. TypeOK /\ I(q) \in Ifaces  BY <1>1, Types
<1>3. link' = [link EXCEPT ![I(q)] = @ \cup {fact}] /\ filter' = filter /\ nets' = nets /\ rules' = rules
      /\ conf' = conf
  BY DEF Sets
<1>4. /\ link' \in [Ifaces -> SUBSET LinkFacts] /\ link'[I(q)] = link[I(q)] \cup {fact}
      /\ \A i \in Ifaces \ {I(q)} : link'[i] = link[i]
  BY <1>2, <1>3 DEF TypeOK
<1>5. filter' \in [Ifaces -> Counts] /\ conf' \in [NetIds -> SUBSET NetFacts]  BY <1>2, <1>3 DEF TypeOK
<1>6. /\ Moves(q, s) /\ proc'[q].pc = s /\ Same(q) /\ I(q)' = I(q) /\ N(q)' = N(q)
      /\ proc'[q].cleanup = proc[q].cleanup /\ proc'[q].at = proc[q].at
      /\ last' = last /\ cut' = cut
  BY RaisesAtAll
<1>7. link'[I(q)] # {}  BY <1>4
<1>8. SetUp(q)'  BY <1>3, <1>4, <1>6
<1> QED  BY <1>3, <1>4, <1>5, <1>6, <1>7, <1>8, Rising DEF Step, Same

\* A command of cmd_up that inserts a filter rule.
LEMMA InsertsRule ==
  ASSUME QuickInv, Apart, NEW q \in Procs, NEW s, NEW f \in FilterRules, Step(q, s),
         Inserts(q, f), Goes(q, s),
         /\ proc'[q].pc = s /\ Same(q) /\ I(q)' = I(q) /\ N(q)' = N(q)
         /\ link' = link /\ conf' = conf
         /\ \A g \in FilterRules : filter'[I(q)][g] > 0 <=> (g = f \/ filter[I(q)][g] > 0)
         => SetUp(q)'
  PROVE  QuickInv'
<1>1. q \in Running  BY DEF Running, Rises, Step
<1>2. TypeOK /\ I(q) \in Ifaces  BY <1>1, Types
<1>3. filter' = [filter EXCEPT ![I(q)] = [filter[I(q)] EXCEPT ![f] = @ + 1]]
      /\ link' = link /\ nets' = nets /\ rules' = rules /\ conf' = conf
  BY DEF Inserts
<1>4. filter \in [Ifaces -> Counts] /\ filter[I(q)] \in [FilterRules -> Nat]  BY <1>2 DEF TypeOK, Counts
<1>5. /\ [filter[I(q)] EXCEPT ![f] = @ + 1] \in [FilterRules -> Nat]
      /\ \A g \in FilterRules : [filter[I(q)] EXCEPT ![f] = @ + 1][g] > 0 <=> (g = f \/ filter[I(q)][g] > 0)
  BY <1>4, SMT
<1>6. /\ filter' \in [Ifaces -> Counts] /\ filter'[I(q)] = [filter[I(q)] EXCEPT ![f] = @ + 1]
      /\ \A i \in Ifaces \ {I(q)} : filter'[i] = filter[i]
  BY <1>2, <1>3, <1>4, <1>5 DEF Counts
<1>7. link' \in [Ifaces -> SUBSET LinkFacts] /\ conf' \in [NetIds -> SUBSET NetFacts]
  BY <1>2, <1>3 DEF TypeOK
<1>8. /\ Moves(q, s) /\ proc'[q].pc = s /\ Same(q) /\ I(q)' = I(q) /\ N(q)' = N(q)
      /\ proc'[q].cleanup = proc[q].cleanup /\ proc'[q].at = proc[q].at
      /\ last' = last /\ cut' = cut
  BY RaisesAtAll
<1>9. SetUp(q)'  BY <1>3, <1>5, <1>6, <1>8
<1> QED  BY <1>3, <1>6, <1>7, <1>8, <1>9, Rising DEF Step, Same

\* A command of cmd_up that configures the network.
LEMMA ConfiguresNet ==
  ASSUME QuickInv, Apart, NEW q \in Procs, NEW s, NEW fact \in NetFacts, Step(q, s), Configures(q, fact, s),
         /\ proc'[q].pc = s /\ Same(q) /\ I(q)' = I(q) /\ N(q)' = N(q) /\ proc'[q].at = proc[q].at
         /\ link' = link /\ filter' = filter /\ conf'[N(q)] = conf[N(q)] \cup {fact}
         => SetUp(q)'
  PROVE  QuickInv'
<1>1. q \in Running  BY DEF Running, Rises, Step
<1>2. TypeOK /\ I(q) \in Ifaces  BY <1>1, Types
<1>3. /\ link' = link /\ filter' = filter /\ nets' = nets /\ rules' = rules
      /\ conf' = [conf EXCEPT ![N(q)] = @ \cup {fact}] /\ Goes(q, s) /\ N(q) \in nets
  BY DEF Configures
<1>4. N(q) \in NetIds  BY <1>2, <1>3 DEF TypeOK
<1>5. /\ conf' \in [NetIds -> SUBSET NetFacts] /\ conf'[N(q)] = conf[N(q)] \cup {fact}
      /\ \A n \in NetIds : conf[n] \subseteq conf'[n]
  BY <1>2, <1>3, <1>4 DEF TypeOK
<1>6. link' \in [Ifaces -> SUBSET LinkFacts] /\ filter' \in [Ifaces -> Counts]  BY <1>2, <1>3 DEF TypeOK
<1>7. /\ Moves(q, s) /\ proc'[q].pc = s /\ Same(q) /\ I(q)' = I(q) /\ N(q)' = N(q)
      /\ proc'[q].cleanup = proc[q].cleanup /\ proc'[q].at = proc[q].at
      /\ last' = last /\ cut' = cut
  BY <1>3, RaisesAtAll
<1>8. SetUp(q)'  BY <1>3, <1>5, <1>7
<1> QED  BY <1>3, <1>5, <1>6, <1>7, <1>8, Rising DEF Step, Same

\* The actions AddIf, SetConfig, SetAddr and SetMtu, and the steps that raise the link.
LEMMA UpSetsLink ==
  ASSUME QuickInv, Apart, NEW q \in Procs,
         \/ AddIf(q) \/ SetConfig(q) \/ SetAddr(q) \/ SetMtu(q)
         \/ At(q, "linkup") /\ Sets(q, "up") /\ Goes(q, "port")
         \/ At(q, "up") /\ Sets(q, "up") /\ Goes(q, "netid")
  PROVE  QuickInv'
<1>1. proc[q].pc \in Rises => SetUp(q) /\ proc[q].cmd = "up"
  <2>1. proc[q].pc \in Rises => q \in Running  BY DEF Rises, Running
  <2> QED  BY <2>1, Types DEF Consistent
<1>2. CASE AddIf(q)
  <2>1. Step(q, "setconf") /\ "there" \in LinkFacts  BY <1>2 DEF AddIf, At, Step, Rises, Late, LinkFacts
  <2>2. ASSUME proc'[q].pc = "setconf", I(q)' = I(q), link'[I(q)] = link[I(q)] \cup {"there"}
        PROVE  SetUp(q)'
    BY <2>2 DEF SetUp
  <2> QED  BY <1>2, <2>1, <2>2, SetsLink DEF AddIf
<1>3. CASE SetConfig(q)
  <2>1. Step(q, "linkup") /\ "conf" \in LinkFacts  BY <1>3 DEF SetConfig, At, Step, Rises, Late, LinkFacts
  <2>2. proc[q].pc = "setconf" /\ proc[q].pc \in Rises  BY <1>3 DEF SetConfig, At, Rises
  <2>3. ASSUME proc'[q].pc = "linkup", I(q)' = I(q), link'[I(q)] = link[I(q)] \cup {"conf"}
        PROVE  SetUp(q)'
    BY <1>1, <2>2, <2>3 DEF SetUp
  <2> QED  BY <1>3, <2>1, <2>3, SetsLink DEF SetConfig
<1>4. CASE At(q, "linkup") /\ Sets(q, "up") /\ Goes(q, "port")
  <2>1. Step(q, "port") /\ "up" \in LinkFacts  BY <1>4 DEF At, Step, Rises, Late, LinkFacts
  <2>2. proc[q].pc = "linkup" /\ proc[q].pc \in Rises  BY <1>4 DEF At, Rises
  <2>3. ASSUME proc'[q].pc = "port", I(q)' = I(q), link'[I(q)] = link[I(q)] \cup {"up"}
        PROVE  SetUp(q)'
    BY <1>1, <2>2, <2>3 DEF SetUp
  <2> QED  BY <1>4, <2>1, <2>3, SetsLink
<1>5. CASE At(q, "up") /\ Sets(q, "up") /\ Goes(q, "netid")
  <2>1. Step(q, "netid") /\ "up" \in LinkFacts  BY <1>5 DEF At, Step, Rises, Late, LinkFacts
  <2>2. proc[q].pc = "up" /\ proc[q].pc \in Rises  BY <1>5 DEF At, Rises
  <2>3. ASSUME proc'[q].pc = "netid", I(q)' = I(q), link'[I(q)] = link[I(q)] \cup {"up"}, filter' = filter
        PROVE  SetUp(q)'
    BY <1>1, <2>2, <2>3 DEF SetUp
  <2> QED  BY <1>5, <2>1, <2>3, SetsLink
<1>6. CASE SetAddr(q)
  <2>1. Step(q, "dns") /\ "addr" \in LinkFacts  BY <1>6 DEF SetAddr, At, Step, Rises, Late, LinkFacts
  <2>2. proc[q].pc = "addr" /\ proc[q].pc \in Rises  BY <1>6 DEF SetAddr, At, Rises
  <2>3. ASSUME proc'[q].pc = "dns", I(q)' = I(q), link'[I(q)] = link[I(q)] \cup {"addr"}, filter' = filter
        PROVE  SetUp(q)'
    BY <1>1, <2>2, <2>3 DEF SetUp
  <2> QED  BY <1>6, <2>1, <2>3, SetsLink DEF SetAddr
<1>7. CASE SetMtu(q)
  <2>1. Step(q, "users") /\ "mtu" \in LinkFacts  BY <1>7 DEF SetMtu, At, Step, Rises, Late, LinkFacts
  <2>2. proc[q].pc = "mtu" /\ proc[q].pc \in Rises  BY <1>7 DEF SetMtu, At, Rises
  <2>3. ASSUME proc'[q].pc = "users", I(q)' = I(q), link'[I(q)] = link[I(q)] \cup {"mtu"}, filter' = filter,
               conf' = conf, N(q)' = N(q), proc'[q].at = proc[q].at
        PROVE  SetUp(q)'
    BY <1>1, <2>2, <2>3 DEF SetUp
  <2> QED  BY <1>7, <2>1, <2>3, SetsLink DEF SetMtu
<1> QED  BY <1>2, <1>3, <1>4, <1>5, <1>6, <1>7

\* The steps of UpIf that insert filter rules.
LEMMA UpInsertsRules ==
  ASSUME QuickInv, Apart, NEW q \in Procs, NEW f \in FilterRules, NEW s, proc[q].pc = f,
         \/ f = "out4" /\ s = "out6"
         \/ f = "out6" /\ s \in {"in4", "up"}
         \/ f = "in4" /\ s = "in6"
         \/ f = "in6" /\ s = "up",
         Inserts(q, f), Goes(q, s)
  PROVE  QuickInv'
<1>1. Step(q, s)  BY DEF Step, Rises, Late
<1>2. SetUp(q) /\ proc[q].cmd = "up"
  <2>1. q \in Running  BY DEF Running
  <2>2. proc[q].pc \in Rises  BY DEF Rises
  <2> QED  BY <2>1, <2>2, Types DEF Consistent
<1>3. "out4" \in FilterRules /\ "out6" \in FilterRules  BY DEF FilterRules, V4, V6
<1>4. ASSUME proc'[q].pc = s, I(q)' = I(q), link' = link,
             \A g \in FilterRules : filter'[I(q)][g] > 0 <=> (g = f \/ filter[I(q)][g] > 0)
      PROVE  SetUp(q)'
  BY <1>2, <1>3, <1>4 DEF SetUp
<1> QED  BY <1>1, <1>4, InsertsRule

\* The actions SetDnses, SetRoutes and SetUsers.
LEMMA UpConfigures ==
  ASSUME QuickInv, Apart, NEW q \in Procs, SetDnses(q) \/ SetRoutes(q) \/ SetUsers(q)
  PROVE  QuickInv'
<1>1. proc[q].pc \in {"dns", "routes", "users"}
      => SetUp(q) /\ proc[q].cmd = "up"
  <2>1. proc[q].pc \in {"dns", "routes", "users"} => q \in Running /\ proc[q].pc \in Rises
    BY DEF Rises, Running
  <2> QED  BY <2>1, Types DEF Consistent
<1>2. CASE SetDnses(q)
  <2>1. Step(q, "routes") /\ "dns" \in NetFacts /\ proc[q].pc = "dns"
    BY <1>2 DEF SetDnses, Configures, At, Step, Rises, Late, NetFacts
  <2>2. ASSUME proc'[q].pc = "routes", I(q)' = I(q), link' = link, filter' = filter, N(q)' = N(q),
               conf'[N(q)] = conf[N(q)] \cup {"dns"}
        PROVE  SetUp(q)'
    BY <1>1, <2>1, <2>2 DEF SetUp
  <2> QED  BY <1>2, <2>1, <2>2, ConfiguresNet DEF SetDnses
<1>3. CASE SetRoutes(q)
  <2>1. Step(q, "mtu") /\ "routes" \in NetFacts /\ proc[q].pc = "routes"
    BY <1>3 DEF SetRoutes, Configures, At, Step, Rises, Late, NetFacts
  <2>2. ASSUME proc'[q].pc = "mtu", I(q)' = I(q), link' = link, filter' = filter, N(q)' = N(q),
               conf'[N(q)] = conf[N(q)] \cup {"routes"}
        PROVE  SetUp(q)'
    BY <1>1, <2>1, <2>2 DEF SetUp
  <2> QED  BY <1>3, <2>1, <2>2, ConfiguresNet DEF SetRoutes
<1>4. CASE SetUsers(q)
  <2>1. Step(q, "broadcast") /\ "users" \in NetFacts /\ proc[q].pc = "users"
    BY <1>4 DEF SetUsers, Configures, At, Step, Rises, Late, NetFacts
  <2>2. ASSUME proc'[q].pc = "broadcast", I(q)' = I(q), link' = link, filter' = filter, N(q)' = N(q),
               conf'[N(q)] = conf[N(q)] \cup {"users"}, proc'[q].at = proc[q].at
        PROVE  SetUp(q)'
    BY <1>1, <2>1, <2>2 DEF SetUp
  <2> QED  BY <1>4, <2>1, <2>2, ConfiguresNet DEF SetUsers
<1> QED  BY <1>2, <1>3, <1>4

\* The steps of `up' that change nothing.
LEMMA UpReads ==
  ASSUME QuickInv, Apart, NEW q \in Procs, UNCHANGED sys, last' = last, cut' = cut,
         \/ /\ proc[q].pc = "port"
            /\ \E b \in BOOLEAN : proc' = [proc EXCEPT ![q].pc = "linkdown", ![q].port = b]
         \/ proc[q].pc = "fwmark" /\ proc' = [proc EXCEPT ![q].pc = "out4"]
         \/ /\ proc[q].pc = "netid"
            /\ \E n \in NetIds : proc' = [proc EXCEPT ![q].pc = "create", ![q].net = n]
  PROVE  QuickInv'
<1>1. TypeOK /\ "linkdown" \in Places /\ "out4" \in Places /\ "create" \in Places
  BY DEF QuickInv, Places, Rises
<1>2. PICK s : /\ Moves(q, s) /\ proc'[q].pc = s
               /\ proc'[q].cmd = proc[q].cmd /\ proc'[q].name = proc[q].name /\ proc'[q].code = proc[q].code
               /\ proc'[q].cleanup = proc[q].cleanup /\ proc'[q].at = proc[q].at
               /\ \/ proc[q].pc = "port" /\ s = "linkdown"
                  \/ proc[q].pc = "fwmark" /\ s = "out4"
                  \/ proc[q].pc = "netid" /\ s = "create" /\ proc'[q].net \in NetIds
  <2>1. ASSUME proc[q].pc = "port", NEW b \in BOOLEAN,
               proc' = [proc EXCEPT ![q].pc = "linkdown", ![q].port = b]
        PROVE  /\ Moves(q, "linkdown") /\ proc'[q].cmd = proc[q].cmd /\ proc'[q].name = proc[q].name
               /\ proc'[q].code = proc[q].code /\ proc'[q].cleanup = proc[q].cleanup /\ proc'[q].at = proc[q].at
    BY <1>1, <2>1, MovesPort
  <2>2. ASSUME proc[q].pc = "fwmark", proc' = [proc EXCEPT ![q].pc = "out4"]
        PROVE  /\ Moves(q, "out4") /\ proc'[q].cmd = proc[q].cmd /\ proc'[q].name = proc[q].name
               /\ proc'[q].code = proc[q].code /\ proc'[q].cleanup = proc[q].cleanup /\ proc'[q].at = proc[q].at
    BY <1>1, <2>2, MovesOn
  <2>3. ASSUME proc[q].pc = "netid", NEW n \in NetIds,
               proc' = [proc EXCEPT ![q].pc = "create", ![q].net = n]
        PROVE  /\ Moves(q, "create") /\ proc'[q].cmd = proc[q].cmd /\ proc'[q].name = proc[q].name
               /\ proc'[q].code = proc[q].code /\ proc'[q].cleanup = proc[q].cleanup /\ proc'[q].at = proc[q].at
               /\ proc'[q].net \in NetIds
    <3>1. Reserves(q, "create", n)  BY <2>3 DEF Reserves
    <3>2. n \in NetIds  BY <2>3
    <3> QED  BY <1>1, <3>1, <3>2, MovesNet
  <2> QED  BY <2>1, <2>2, <2>3 DEF Moves
<1>3. /\ proc[q].pc \in Rises \ {"create", "addif", "add"} /\ proc[q].pc \notin Late
      /\ s \in Rises \ {"add", "addif", "addr"} /\ s \notin Late \cup {"broadcast"}
  BY <1>2 DEF Rises, Late
<1>4. link' = link /\ filter' = filter /\ nets' = nets /\ rules' = rules /\ conf' = conf  BY DEF sys
<1>5. SetUp(q)'
  <2>1. q \in Running /\ proc[q].pc \in Rises  BY <1>2 DEF Running, Rises
  <2>2. SetUp(q) /\ proc[q].cmd = "up"  BY <2>1, Types DEF Consistent
  <2> QED  BY <1>2, <1>4, <2>2 DEF SetUp, I
<1>6. /\ link' \in [Ifaces -> SUBSET LinkFacts] /\ filter' \in [Ifaces -> Counts]
      /\ conf' \in [NetIds -> SUBSET NetFacts]
  BY <1>1, <1>4 DEF TypeOK
<1> QED  BY <1>2, <1>3, <1>4, <1>5, <1>6, Rising

\* The step of DetermineListenPort that takes the link down again.
LEMMA UpSetsLinkDown ==
  ASSUME QuickInv, Apart, NEW q \in Procs, At(q, "linkdown"),
         link' = [link EXCEPT ![I(q)] = @ \ {"up"}], UNCHANGED <<filter, nets, rules, conf>>,
         Goes(q, "fwmark")
  PROVE  QuickInv'
<1>1. Step(q, "fwmark") /\ proc[q].pc \notin Late  BY DEF Step, Rises, Late, At
<1>2. q \in Running /\ proc[q].pc = "linkdown" /\ proc[q].pc \in Rises  BY DEF Running, Rises, At
<1>3. SetUp(q) /\ proc[q].cmd = "up" /\ I(q) \in Ifaces /\ TypeOK  BY <1>2, Types DEF Consistent
<1>4. /\ link' \in [Ifaces -> SUBSET LinkFacts] /\ link'[I(q)] = link[I(q)] \ {"up"}
      /\ \A i \in Ifaces \ {I(q)} : link'[i] = link[i]
  BY <1>3 DEF TypeOK
<1>5. /\ Moves(q, "fwmark") /\ proc'[q].pc = "fwmark" /\ Same(q) /\ I(q)' = I(q)
      /\ proc'[q].cleanup = proc[q].cleanup /\ proc'[q].at = proc[q].at
      /\ last' = last /\ cut' = cut
  BY <1>1, RaisesAtAll
<1>6. "there" \in link'[I(q)] /\ "conf" \in link'[I(q)]  BY <1>2, <1>3, <1>4 DEF SetUp
<1>7. SetUp(q)'  BY <1>5, <1>6 DEF SetUp
<1>8. filter' \in [Ifaces -> Counts] /\ conf' \in [NetIds -> SUBSET NetFacts]  BY <1>3 DEF TypeOK
<1>9. link'[I(q)] # {}  BY <1>6
<1> QED  BY <1>1, <1>4, <1>5, <1>7, <1>8, <1>9, Rising DEF Step, Same

\* netd makes a network under a number it did not know.
LEMMA UpCreates ==
  ASSUME QuickInv, Apart, NEW q \in Procs, At(q, "create"), N(q) \notin nets, nets' = nets \cup {N(q)},
         UNCHANGED <<link, filter, rules, conf>>, Goes(q, "addif")
  PROVE  QuickInv'
<1>1. q \in Running /\ proc[q].pc = "create" /\ proc[q].pc \in Rises  BY DEF Running, Rises, At
<1>2. /\ SetUp(q) /\ proc[q].cmd = "up" /\ I(q) \in Ifaces /\ TypeOK /\ proc[q].at = "none"
      /\ proc[q].cleanup /\ proc[q].code = "none" /\ (I(q) \notin cut => Reached(I(q)))
  BY <1>1, Types DEF Consistent, Late
<1>3. "addif" \in Places \ {"idle", "done"}  BY DEF Places, Rises
<1>4. /\ Moves(q, "addif") /\ Same(q)
      /\ proc'[q].cleanup = proc[q].cleanup /\ proc'[q].at = proc[q].at
  BY <1>2, <1>3, MovesOn DEF Same, Goes
<1>5. proc'[q].pc = "addif" /\ I(q)' = I(q) /\ N(q)' = N(q) /\ last' = last /\ cut' = cut
  BY <1>4 DEF Moves, Same, I, N, Goes
<1>6. \A i \in Ifaces : Of(i)' = Of(i)  BY DEF Of
<1>7. Frame(q)  BY <1>1, <1>3, <1>4, <1>5, <1>6, Framed DEF Same
<1>8. TypeOK'
  <2>1. nets' \subseteq NetIds  BY <1>1, <1>2, Types DEF TypeOK, Consistent, At
  <2> QED  BY <1>2, <1>4, <1>5, <2>1 DEF TypeOK, Moves
<1>9. Owned'
  <2>1. \A r \in rules' : r.net \in nets' /\ r.net # N(q)  BY DEF QuickInv, Owned
  <2>2. \A r, t \in rules' : r.net = t.net => r = t  BY DEF QuickInv, Owned
  <2>3. \A r \in Procs \ {q} : At(r, "addif")' => At(r, "addif") /\ N(r)' = N(r) /\ N(r) \in nets
    BY <1>4 DEF Moves, At, N, QuickInv, Owned
  <2>4. \A r \in Procs : At(r, "addif")' => N(r)' \in nets' /\ \A t \in rules' : t.net # N(r)'
    BY <1>5, <2>1, <2>3 DEF QuickInv, Owned
  <2>5. \A r, t \in Procs : At(r, "addif")' /\ At(t, "addif")' /\ N(r)' = N(t)' => r = t
    BY <1>5, <2>3 DEF QuickInv, Owned
  <2> QED  BY <2>1, <2>2, <2>4, <2>5 DEF Owned
<1>10. NetworksAccounted'
  <2>1. \A r \in Procs : "addif" \in {proc[r].pc, proc[r].at}
                         => "addif" \in {proc'[r].pc, proc'[r].at} /\ N(r)' = N(r)
    BY <1>4, <1>5 DEF Moves, N
  <2> QED  BY <1>5, <2>1 DEF QuickInv, NetworksAccounted
<1>11. Consistent(q)'
  BY <1>2, <1>4, <1>5 DEF Consistent, Same, At, Deletes, Rises, Late
<1>12. Holds(q)' /\ Taken(q)'  BY <1>5 DEF Holds, Taken, OnlyMine, Past, At, Deletes
<1>13. SetUp(q)'  BY <1>1, <1>2, <1>5 DEF SetUp
<1>14. ASSUME NEW i \in Ifaces \ cut', i = proc'[q].name
       PROVE  Reached(i)'
  <2>1. i = I(q) /\ Reached(i) /\ i \notin cut  BY <1>2, <1>5, <1>14 DEF I
  <2>2. Of(i) = {}  BY <1>1, <2>1 DEF Reached
  <2> QED  BY <1>6, <2>2 DEF Reached
<1> QED  BY <1>1, <1>3, <1>4, <1>7, <1>8, <1>9, <1>10, <1>11, <1>12, <1>13, <1>14, Going

\* The interface is added to the network that was made for it.
LEMMA UpAddsToNet ==
  ASSUME QuickInv, Apart, NEW q \in Procs, At(q, "addif"), link[I(q)] # {},
         rules' = rules \cup {[net |-> N(q), name |-> I(q)]},
         UNCHANGED <<link, filter, nets, conf>>, Goes(q, "addr")
  PROVE  QuickInv'
<1>1. q \in Running /\ proc[q].pc = "addif" /\ proc[q].pc \in Rises  BY DEF Running, Rises, At
<1>2. /\ SetUp(q) /\ proc[q].cmd = "up" /\ I(q) \in Ifaces /\ TypeOK /\ proc[q].at = "none"
      /\ proc[q].cleanup /\ proc[q].code = "none" /\ (I(q) \notin cut => Reached(I(q)))
  BY <1>1, Types DEF Consistent, Late
<1>3. "addr" \in Places \ {"idle", "done"}  BY DEF Places, Rises
<1>4. /\ Moves(q, "addr") /\ Same(q)
      /\ proc'[q].cleanup = proc[q].cleanup /\ proc'[q].at = proc[q].at
  BY <1>2, <1>3, MovesOn DEF Same, Goes
<1>5. proc'[q].pc = "addr" /\ I(q)' = I(q) /\ N(q)' = N(q) /\ last' = last /\ cut' = cut
  BY <1>4 DEF Moves, Same, I, N, Goes
<1>6. /\ rules' = rules \cup {Ours(q)} /\ Ours(q).net = N(q) /\ Ours(q).name = I(q)
      /\ Ours(q)' = Ours(q)
  BY <1>5 DEF Ours
<1>7. N(q) \in nets /\ N(q) \in NetIds /\ \A r \in rules : r.net # N(q)
  BY <1>2 DEF QuickInv, Owned, TypeOK
<1>8. \A i \in Ifaces \ {I(q)} : Of(i)' = Of(i)  BY <1>6 DEF Of
<1>9. Frame(q)  BY <1>1, <1>3, <1>4, <1>5, <1>8, Framed DEF Same
<1>10. TypeOK'
  <2>0. [net |-> N(q), name |-> I(q)] \in [net : NetIds, name : Ifaces]  BY <1>2, <1>7
  <2>1. rules' \subseteq [net : NetIds, name : Ifaces]  BY <1>2, <2>0 DEF TypeOK
  <2> QED  BY <1>2, <1>4, <1>5, <2>1 DEF TypeOK, Moves
<1>11. \A r \in Procs : At(r, "addif")' => r # q /\ At(r, "addif") /\ N(r)' = N(r)
  BY <1>4, <1>5 DEF Moves, At, N
<1>12. Owned'
  <2>1. \A r \in rules' : r.net \in nets'  BY <1>6, <1>7 DEF QuickInv, Owned
  <2>2. \A r, t \in rules' : r.net = t.net => r = t  BY <1>6, <1>7 DEF QuickInv, Owned
  <2>3. \A r \in Procs : At(r, "addif")' => N(r)' \in nets' /\ \A t \in rules' : t.net # N(r)'
    <3> SUFFICES ASSUME NEW r \in Procs, At(r, "addif")'
                 PROVE  N(r)' \in nets' /\ \A t \in rules' : t.net # N(r)'
      OBVIOUS
    <3>1. r # q /\ At(r, "addif") /\ N(r)' = N(r)  BY <1>11
    <3>2. N(r) \in nets /\ (\A t \in rules : t.net # N(r)) /\ N(r) # N(q)
      BY <3>1 DEF QuickInv, Owned
    <3> QED  BY <1>6, <3>1, <3>2
  <2>4. \A r, t \in Procs : At(r, "addif")' /\ At(t, "addif")' /\ N(r)' = N(t)' => r = t
    BY <1>11 DEF QuickInv, Owned
  <2> QED  BY <2>1, <2>2, <2>3, <2>4 DEF Owned
<1>13. NetworksAccounted'
  <2>1. \A r \in Procs \ {q} : proc'[r] = proc[r] /\ N(r)' = N(r)  BY <1>4 DEF Moves, N
  <2>2. NetworksAccounted  BY DEF QuickInv
  <2> SUFFICES ASSUME NEW n \in nets
               PROVE  \/ \E r \in rules' : r.net = n
                      \/ \E r \in Procs : N(r)' = n /\ "addif" \in {proc'[r].pc, proc'[r].at}
    BY DEF NetworksAccounted
  <2>3. CASE \E r \in rules : r.net = n  BY <2>3
  <2>4. CASE \E r \in Procs : N(r) = n /\ "addif" \in {proc[r].pc, proc[r].at}  BY <1>6, <2>1, <2>4
  <2> QED  BY <2>2, <2>3, <2>4 DEF NetworksAccounted
<1>14. Consistent(q)'
  BY <1>2, <1>4, <1>5 DEF Consistent, Same, At, Deletes, Rises, Late
<1>15. Holds(q)' /\ Taken(q)'  BY <1>5, <1>6 DEF Holds, Taken, OnlyMine, Past, At, Deletes
<1>16. SetUp(q)'  BY <1>1, <1>2, <1>5 DEF SetUp
<1>17. ASSUME NEW i \in Ifaces \ cut', i = proc'[q].name
       PROVE  Reached(i)'
  <2>1. i = I(q) /\ Reached(i) /\ i \notin cut  BY <1>2, <1>5, <1>17 DEF I
  <2>2. Of(i) = {}  BY <1>1, <2>1 DEF Reached
  <2>3. Of(i)' = {Ours(q)}  BY <1>6, <2>1, <2>2 DEF Of
  <2>4. \A r \in Running' : I(r)' = i => r = q
    <3>1. Serial'  BY <1>9, SerialKept
    <3>2. q \in Running' /\ I(q)' = i  BY <1>5, <1>17 DEF Running, I
    <3> QED  BY <3>1, <3>2 DEF Serial
  <2>5. ~Past(q, {})'  BY <1>5 DEF Past, At
  <2>6. link'[i] # {}  BY <2>1
  <2> QED  BY <1>5, <2>3, <2>4, <2>5, <2>6 DEF Reached
<1> QED  BY <1>1, <1>3, <1>4, <1>9, <1>10, <1>12, <1>13, <1>14, <1>15, <1>16, <1>17, Going

\* The action CmdUp.
LEMMA UpGoesUp ==
  ASSUME QuickInv, Apart, NEW q \in Procs, CmdUp(q)
  PROVE  QuickInv'
<1>1. CASE Show(q)
  <2>1. proc[q].pc = "show" /\ UNCHANGED sys  BY <1>1 DEF Show, At
  <2>2. CASE link[I(q)] # {}
    BY <1>1, <2>1, <2>2, Refused DEF Show
  <2>3. CASE link[I(q)] = {}
    BY <1>1, <2>1, <2>3, Arms DEF Show
  <2> QED  BY <2>2, <2>3
<1>2. CASE AddIf(q) \/ SetConfig(q) \/ SetAddr(q) \/ SetMtu(q)  BY <1>2, UpSetsLink
<1>3. CASE SetDnses(q) \/ SetRoutes(q) \/ SetUsers(q)  BY <1>3, UpConfigures
<1>4. CASE DetermineListenPort(q)
  <2>1. CASE At(q, "linkup") /\ link[I(q)] # {} /\ Sets(q, "up") /\ Goes(q, "port")
    BY <2>1, UpSetsLink
  <2>2. CASE /\ At(q, "port")
             /\ \E port \in BOOLEAN : proc' = [proc EXCEPT ![q].pc = "linkdown", ![q].port = port]
             /\ UNCHANGED <<sys, last, cut, fails, kills>>
    BY <2>2, UpReads DEF At
  <2>3. CASE /\ At(q, "linkdown") /\ link[I(q)] # {}
             /\ link' = [link EXCEPT ![I(q)] = @ \ {"up"}]
             /\ UNCHANGED <<filter, nets, rules, conf>>
             /\ Goes(q, "fwmark")
    BY <2>3, UpSetsLinkDown
  <2> QED  BY <1>4, <2>1, <2>2, <2>3 DEF DetermineListenPort
<1>5. CASE UpIf(q)
  <2>0. "out4" \in FilterRules /\ "out6" \in FilterRules /\ "in4" \in FilterRules /\ "in6" \in FilterRules
    BY DEF FilterRules, V4, V6
  <2>1. CASE At(q, "fwmark") /\ link[I(q)] # {} /\ UNCHANGED sys /\ Goes(q, "out4")
    BY <2>1, UpReads DEF At, Goes
  <2>2. CASE At(q, "out4") /\ Inserts(q, "out4") /\ Goes(q, "out6")
    BY <2>0, <2>2, UpInsertsRules DEF At
  <2>3. CASE At(q, "out6") /\ Inserts(q, "out6") /\ Goes(q, IF proc[q].port THEN "in4" ELSE "up")
    <3>1. CASE proc[q].port  BY <2>0, <2>3, <3>1, UpInsertsRules DEF At
    <3>2. CASE ~proc[q].port  BY <2>0, <2>3, <3>2, UpInsertsRules DEF At
    <3> QED  BY <3>1, <3>2
  <2>4. CASE At(q, "in4") /\ Inserts(q, "in4") /\ Goes(q, "in6")
    BY <2>0, <2>4, UpInsertsRules DEF At
  <2>5. CASE At(q, "in6") /\ Inserts(q, "in6") /\ Goes(q, "up")
    BY <2>0, <2>5, UpInsertsRules DEF At
  <2>6. CASE At(q, "up") /\ link[I(q)] # {} /\ Sets(q, "up") /\ Goes(q, "netid")
    BY <2>6, UpSetsLink
  <2>7. CASE /\ At(q, "netid")
             /\ \E n \in NetIds : proc' = [proc EXCEPT ![q].pc = "create", ![q].net = n]
             /\ UNCHANGED <<sys, last, cut, fails, kills>>
    BY <2>7, UpReads DEF At
  <2>8. CASE /\ At(q, "create") /\ N(q) \notin nets
             /\ nets' = nets \cup {N(q)}
             /\ UNCHANGED <<link, filter, rules, conf>>
             /\ Goes(q, "addif")
    BY <2>8, UpCreates
  <2>9. CASE /\ At(q, "addif") /\ N(q) \in nets /\ link[I(q)] # {}
             /\ rules' = rules \cup {[net |-> N(q), name |-> I(q)]}
             /\ UNCHANGED <<link, filter, nets, conf>>
             /\ Goes(q, "addr")
    BY <2>9, UpAddsToNet
  <2> QED
    BY <1>5, <2>1, <2>2, <2>3, <2>4, <2>5, <2>6, <2>7, <2>8, <2>9 DEF UpIf
<1> QED  BY <1>1, <1>2, <1>3, <1>4, <1>5 DEF CmdUp

(***************************************************************************)
(* del_if takes the interface down.                                        *)
(***************************************************************************)
LEMMA Deleting ==
  ASSUME QuickInv, Apart, NEW q \in Procs, proc[q].pc \in Deletes,
         NEW s \in (Deletes \ {"del"}) \cup {"exit", "broadcast"}, Moves(q, s), Same(q),
         proc'[q].cleanup = proc[q].cleanup, proc'[q].at = "addif" <=> proc[q].at = "addif",
         UNCHANGED sys, last' = last, cut' \in {cut, cut \cup {I(q)}},
         s = "exit" => proc[q].cmd = "up",
         s = "broadcast" => proc[q].cmd = "down",
         s \notin Deletes => I(q) \in cut' \/ Of(I(q)) = {},
         s = "destroy" => Holds(q)',
         Taken(q)'
  PROVE  QuickInv'
<1>1. q \in Running /\ proc[q].pc # "addif"  BY DEF Running, Deletes
<1>2. Consistent(q) /\ I(q) \in Ifaces /\ proc[q].cmd \in {"up", "down"} /\ proc[q].code = "none"
  BY <1>1, Types
<1>3. s \in Places \ {"idle", "done", "addif"} /\ s \notin Rises /\ proc'[q].pc = s
  BY DEF Places, Deletes, Rises, Moves
<1>4. Consistent(q)'
  BY <1>1, <1>2, <1>3 DEF Consistent, Same, At, I, Deletes, Rises, Late
<1>5. Holds(q)'  BY <1>2, <1>3 DEF Holds, At, Same, Deletes
<1>6. SetUp(q)'  BY <1>3 DEF SetUp, Same, Deletes
<1>7. Past(q, {})' => s \notin Deletes  BY <1>3 DEF Past, At, Deletes
<1> QED  BY <1>1, <1>3, <1>4, <1>5, <1>6, <1>7, GoingQuietly DEF Same

\* del_if deletes the link.
LEMMA DelLink ==
  ASSUME QuickInv, Apart, NEW q \in Procs, At(q, "del"),
         link' = [link EXCEPT ![I(q)] = {}], UNCHANGED <<filter, nets, rules, conf>>, Goes(q, "save4")
  PROVE  QuickInv'
<1>1. q \in Running /\ proc[q].pc = "del"  BY DEF Running, At
<1>2. /\ TypeOK /\ Consistent(q) /\ I(q) \in Ifaces /\ proc[q].cmd \in {"up", "down"} /\ proc[q].code = "none"
      /\ (I(q) \notin cut => Reached(I(q)))
  BY <1>1, Types
<1>3. "save4" \in Places \ {"idle", "done"}  BY DEF Places, Deletes
<1>4. Moves(q, "save4") /\ Same(q) /\ proc'[q].cleanup = proc[q].cleanup /\ proc'[q].at = proc[q].at
  BY <1>2, <1>3, MovesOn DEF Same, Goes
<1>5. proc'[q].pc = "save4" /\ I(q)' = I(q) /\ N(q)' = N(q) /\ last' = last /\ cut' = cut
  BY <1>4 DEF Moves, Same, I, N, Goes
<1>6. /\ link' \in [Ifaces -> SUBSET LinkFacts] /\ link'[I(q)] = {}
      /\ \A i \in Ifaces \ {I(q)} : link'[i] = link[i]
  BY <1>2 DEF TypeOK
<1>7. \A i \in Ifaces : Of(i)' = Of(i)  BY DEF Of
<1>8. Frame(q)  BY <1>1, <1>3, <1>4, <1>5, <1>6, <1>7, Framed DEF Same
<1>9. TypeOK'  BY <1>2, <1>4, <1>5, <1>6 DEF TypeOK, Moves
<1>10. \A r \in Procs : /\ At(r, "addif")' => At(r, "addif") /\ N(r)' = N(r)
                        /\ "addif" \in {proc[r].pc, proc[r].at}
                           => "addif" \in {proc'[r].pc, proc'[r].at} /\ N(r)' = N(r)
  BY <1>1, <1>4, <1>5 DEF Moves, At, N
<1>11. Owned'  BY <1>10, OwnedKept DEF QuickInv
<1>12. NetworksAccounted'  BY <1>10, AccountedKept DEF QuickInv
<1>13. Consistent(q)'
  BY <1>1, <1>2, <1>4, <1>5 DEF Consistent, Same, At, I, Deletes, Rises, Late
<1>14. Holds(q)' /\ SetUp(q)'  BY <1>5 DEF Holds, SetUp, At
<1>15. Taken(q)'  BY <1>5, <1>6 DEF Taken, OnlyMine, At, Past
<1>16. ASSUME NEW i \in Ifaces \ cut', i = proc'[q].name
       PROVE  Reached(i)'
  <2>1. i = I(q) /\ Reached(i) /\ i \notin cut  BY <1>2, <1>5, <1>16 DEF I
  <2>2. q \in Running' /\ I(q)' = i /\ proc'[q].pc \in Deletes \ {"del"}
    BY <1>5, <2>1 DEF Running, Deletes
  <2>3. \A r \in Running' : I(r)' = i => r = q
    <3>1. Serial'  BY <1>8, SerialKept
    <3> QED  BY <2>2, <3>1 DEF Serial
  <2>4. ~Past(q, {})' /\ proc'[q].pc \notin Rises  BY <1>5 DEF Past, At, Rises
  <2>5. \A r, t \in Of(i)' : r = t  BY <1>7, <2>1 DEF Reached
  <2> QED  BY <2>2, <2>3, <2>4, <2>5 DEF Reached
<1> QED  BY <1>1, <1>3, <1>4, <1>8, <1>9, <1>11, <1>12, <1>13, <1>14, <1>15, <1>16, Going

\* The two rounds over the filter rules.
Round(save, drop, v, next) ==
  \/ save = "save4" /\ drop = "drop4" /\ v = V4 /\ next = "save6"
  \/ save = "save6" /\ drop = "drop6" /\ v = V6 /\ next = "rule"

\* del_if lists the filter rules: what becomes of the invocation.
LEMMA DelSavesMoves ==
  ASSUME TypeOK, NEW q \in Procs, NEW drop \in Places, NEW v, Listed(q, v) \in Lists,
         proc' = [proc EXCEPT ![q].pc = drop, ![q].todo = Listed(q, v)]
  PROVE  /\ Moves(q, drop) /\ Same(q) /\ proc'[q].todo = Listed(q, v)
         /\ proc'[q].cleanup = proc[q].cleanup /\ proc'[q].at = proc[q].at
  BY MovesTodo DEF Same

\* del_if lists the filter rules.
LEMMA DelSaves ==
  ASSUME QuickInv, Apart, NEW q \in Procs, NEW save, NEW drop, NEW v, NEW next, Round(save, drop, v, next),
         At(q, save), proc' = [proc EXCEPT ![q].pc = drop, ![q].todo = Listed(q, v)],
         UNCHANGED <<sys, last, cut>>
  PROVE  QuickInv'
<1>1. q \in Running /\ proc[q].pc = save /\ proc[q].pc \in Deletes
  BY DEF Running, At, Round, Deletes
<1>2. TypeOK /\ Taken(q) /\ I(q) \in Ifaces  BY <1>1, Types
<1>3. /\ drop \in Deletes \ {"del"} /\ drop \notin {"exit", "broadcast", "destroy"}
      /\ drop \in Places
  BY DEF Round, Deletes, Places
<1>4. filter[I(q)] \in [FilterRules -> Nat]  BY <1>2 DEF TypeOK, Counts
<1>5. /\ Listed(q, v) \in Lists
      /\ \A f \in v : f \in FilterRules => Listed(q, v)[I(q)][f] = filter[I(q)][f]
      /\ \A i \in Ifaces \ {I(q)} : Listed(q, v)[i] = NoRules
  <2>1. filter \in [Ifaces -> [FilterRules -> Nat]]  BY <1>2 DEF TypeOK, Counts
  <2>2. Commented[I(q)] = {I(q)}  BY <1>2 DEF Apart
  <2>3. Listed(q, v) \in Lists  BY <2>1, SMT DEF Listed, Lists, Counts
  <2>4. \A f \in v : f \in FilterRules => Listed(q, v)[I(q)][f] = filter[I(q)][f]
    BY <1>2, <2>2, SMT DEF Listed
  <2>5. \A i \in Ifaces \ {I(q)} : Listed(q, v)[i] = NoRules
    BY <2>2, SMT DEF Listed, NoRules
  <2> QED  BY <2>3, <2>4, <2>5
<1>6. OnlyMine(q)'
  <2>1. proc'[q].todo = Listed(q, v) /\ I(q)' = I(q)
    BY <1>2, <1>3, <1>5, DelSavesMoves DEF Same, I
  <2> QED  BY <1>5, <2>1 DEF OnlyMine
<1>7. /\ Moves(q, drop) /\ Same(q) /\ proc'[q].todo = Listed(q, v)
      /\ proc'[q].cleanup = proc[q].cleanup /\ proc'[q].at = proc[q].at
  BY <1>2, <1>3, <1>5, DelSavesMoves
<1>8. proc'[q].pc = drop /\ I(q)' = I(q) /\ link' = link /\ filter' = filter /\ cut' = cut /\ last' = last
  BY <1>7 DEF Moves, Same, I, sys
<1>9. Taken(q)'
  <2>1. \A f \in v : filter[I(q)][f] = proc'[q].todo[I(q)][f]
    <3>1. v \subseteq FilterRules  BY DEF Round, FilterRules
    <3> QED  BY <1>5, <1>7, <3>1
  <2>2. CASE save = "save4" /\ drop = "drop4" /\ v = V4
    <3>1. /\ Past(q, Deletes \ {"del"}) /\ ~At(q, "drop6")'
          /\ ~Past(q, {"save6", "drop6", "rule", "destroy"})' /\ ~Past(q, {"rule", "destroy"})'
      BY <1>1, <1>8, <2>2 DEF Past, At, Deletes
    <3> QED  BY <1>2, <1>6, <1>7, <1>8, <2>1, <2>2, <3>1 DEF Taken, Same
  <2>3. CASE save = "save6" /\ drop = "drop6" /\ v = V6
    <3>1. /\ Past(q, Deletes \ {"del"}) /\ ~At(q, "drop4")'
          /\ Past(q, {"save6", "drop6", "rule", "destroy"}) /\ ~Past(q, {"rule", "destroy"})'
      BY <1>1, <1>8, <2>3 DEF Past, At, Deletes
    <3> QED  BY <1>2, <1>6, <1>7, <1>8, <2>1, <2>3, <3>1 DEF Taken, Same
  <2> QED  BY <2>2, <2>3 DEF Round
<1> QED  BY <1>1, <1>3, <1>7, <1>8, <1>9, Deleting

\* del_if has deleted all rules that were listed.
LEMMA DelNext ==
  ASSUME QuickInv, Apart, NEW q \in Procs, NEW save, NEW drop, NEW v, NEW next, Round(save, drop, v, next),
         At(q, drop), Left(q) = {}, UNCHANGED sys, Goes(q, next)
  PROVE  QuickInv'
<1>1. q \in Running /\ proc[q].pc = drop /\ proc[q].pc \in Deletes
  BY DEF Running, At, Round, Deletes
<1>2. TypeOK /\ Taken(q) /\ proc[q] \in Invocation /\ I(q) \in Ifaces  BY <1>1, Types
<1>3. /\ next \in Deletes \ {"del"} /\ next \notin {"exit", "broadcast", "destroy"}
      /\ next \in Places
  BY DEF Round, Deletes, Places
<1>4. /\ Moves(q, next) /\ Same(q)
      /\ proc'[q].cleanup = proc[q].cleanup /\ proc'[q].at = proc[q].at
  BY <1>2, <1>3, MovesOn DEF Same, Goes
<1>5. proc'[q].pc = next /\ I(q)' = I(q) /\ link' = link /\ filter' = filter /\ cut' = cut /\ last' = last
  BY <1>4 DEF Moves, Same, I, sys, Goes
<1>6. \A f \in FilterRules : proc[q].todo[I(q)][f] = 0
  <2>1. proc[q].todo[I(q)] \in [FilterRules -> Nat]  BY <1>2 DEF Invocation, Lists, Counts
  <2>2. ASSUME NEW f \in FilterRules  PROVE ~(proc[q].todo[I(q)][f] > 0)
    <3>1. <<I(q), f>> \in Ifaces \X FilterRules  BY <1>2
    <3> QED  BY <3>1, SMT DEF Left
  <2> QED  BY <2>1, <2>2, SMT
<1>7. Taken(q)'
  <2>1. V4 \subseteq FilterRules /\ V6 \subseteq FilterRules  BY DEF FilterRules
  <2> QED  BY <1>1, <1>2, <1>4, <1>5, <1>6, <2>1 DEF Taken, OnlyMine, Past, At, Round, Same, Deletes
<1> QED  BY <1>1, <1>3, <1>4, <1>5, <1>7, Deleting

Ticks(q, x) == proc' = [proc EXCEPT ![q].todo[x[1]][x[2]] = @ - 1]
Less(l, x) == [l EXCEPT ![x[1]][x[2]] = @ - 1]

\* A rule that is left to delete is one of the interface.
LEMMA LeftIsMine ==
  ASSUME QuickInv, NEW q \in Running, proc[q].pc \in {"drop4", "drop6"}, NEW x \in Left(q)
  PROVE  /\ x \in Ifaces \X FilterRules /\ x[1] = I(q) /\ x[2] \in FilterRules
         /\ proc[q].todo[x[1]][x[2]] > 0
<1>1. x \in Ifaces \X FilterRules /\ proc[q].todo[x[1]][x[2]] > 0  BY DEF Left
<1>2. x[1] \in Ifaces /\ x[2] \in FilterRules  BY <1>1, SMT
<1>3. q \in Procs  BY DEF Running
<1>4. \A i \in Ifaces \ {I(q)} : proc[q].todo[i] = NoRules  BY <1>3, Types DEF Taken, OnlyMine
<1>5. proc[q].todo[x[1]] # NoRules  BY <1>1, <1>2, SMT DEF NoRules
<1> QED  BY <1>1, <1>2, <1>4, <1>5

\* del_if deletes one listed rule: what becomes of the invocation.
LEMMA DelDropsMoves ==
  ASSUME TypeOK, NEW q \in Procs, NEW z \in Ifaces \X FilterRules, proc[q].todo[z[1]][z[2]] > 0, Ticks(q, z)
  PROVE  /\ Moves(q, proc[q].pc) /\ Same(q) /\ proc'[q].todo = Less(proc[q].todo, z)
         /\ proc'[q].cleanup = proc[q].cleanup /\ proc'[q].at = proc[q].at /\ proc'[q].old = proc[q].old
<1> DEFINE b == Less(proc[q].todo, z)
           x == [proc[q] EXCEPT !.todo = b]
<1>1. proc[q] \in Invocation /\ proc[q].todo \in [Ifaces -> [FilterRules -> Nat]]
  BY DEF TypeOK, Invocation, Lists, Counts
<1>2. b \in Lists
  <2>1. z[1] \in Ifaces /\ z[2] \in FilterRules  BY SMT
  <2>2. proc[q].todo[z[1]] \in [FilterRules -> Nat]  BY <1>1, <2>1
  <2>3. [proc[q].todo[z[1]] EXCEPT ![z[2]] = @ - 1] \in [FilterRules -> Nat]  BY <2>1, <2>2, SMT
  <2> QED  BY <1>1, <2>1, <2>3 DEF Less, Lists, Counts
<1>3. proc' = [proc EXCEPT ![q] = x]  BY DEF Ticks, Less
<1> HIDE DEF b
<1>4. x \in Invocation  BY <1>1, <1>2 DEF Invocation
<1>5. /\ x.pc = proc[q].pc /\ x.cmd = proc[q].cmd /\ x.name = proc[q].name /\ x.net = proc[q].net
      /\ x.code = proc[q].code /\ x.cleanup = proc[q].cleanup /\ x.at = proc[q].at /\ x.old = proc[q].old
      /\ x.todo = b
  BY <1>1, SMT DEF Invocation
<1> HIDE DEF x
<1>6. proc'[q] = x /\ proc' \in [Procs -> Invocation] /\ \A r \in Procs \ {q} : proc'[r] = proc[r]
  BY <1>3, <1>4, Moved
<1> QED  BY <1>5, <1>6 DEF Moves, Same, b

\* del_if deletes one listed rule.
LEMMA DelDrops ==
  ASSUME QuickInv, Apart, NEW q \in Procs, proc[q].pc \in {"drop4", "drop6"}, NEW x \in Left(q),
         Drops(q, x), Ticks(q, x)
  PROVE  QuickInv'
<1> DEFINE f == x[2]
<1>1. q \in Running /\ proc[q].pc \in Deletes  BY DEF Running, Deletes
<1>0. /\ x \in Ifaces \X FilterRules /\ x[1] = I(q) /\ f \in FilterRules
      /\ proc[q].todo[x[1]][x[2]] > 0
  BY <1>1, LeftIsMine
<1>2. /\ TypeOK /\ Consistent(q) /\ I(q) \in Ifaces /\ Taken(q) /\ proc[q] \in Invocation
      /\ proc[q].cmd \in {"up", "down"} /\ proc[q].code = "none"
      /\ (I(q) \notin cut => Reached(I(q)))
  BY <1>1, Types
<1>3. proc[q].pc \in Places \ {"idle", "done"}  BY DEF Places, Deletes
<1>4. /\ Moves(q, proc[q].pc) /\ Same(q)
      /\ proc'[q].todo = [proc[q].todo EXCEPT ![I(q)] = [proc[q].todo[I(q)] EXCEPT ![f] = @ - 1]]
      /\ proc'[q].cleanup = proc[q].cleanup /\ proc'[q].at = proc[q].at
  BY <1>0, <1>2, DelDropsMoves DEF Less
<1>5. /\ proc'[q].pc = proc[q].pc /\ I(q)' = I(q) /\ N(q)' = N(q) /\ last' = last /\ cut' = cut
      /\ link' = link /\ nets' = nets /\ rules' = rules /\ conf' = conf
  BY <1>4 DEF Moves, Same, I, N, Drops
<1>6. /\ filter[I(q)] \in [FilterRules -> Nat] /\ filter[I(q)][f] > 0
      /\ filter' = [filter EXCEPT ![I(q)] = [filter[I(q)] EXCEPT ![f] = @ - 1]]
  BY <1>0, <1>2 DEF TypeOK, Counts, Drops
<1> HIDE DEF f
<1>7. [filter[I(q)] EXCEPT ![f] = @ - 1] \in [FilterRules -> Nat]  BY <1>0, <1>6, SMT
<1>8. /\ filter' \in [Ifaces -> Counts] /\ filter'[I(q)] = [filter[I(q)] EXCEPT ![f] = @ - 1]
      /\ \A i \in Ifaces \ {I(q)} : filter'[i] = filter[i]
  BY <1>2, <1>6, <1>7 DEF TypeOK, Counts
<1>9. \A i \in Ifaces : Of(i)' = Of(i)  BY <1>5 DEF Of
<1>10. Frame(q)  BY <1>1, <1>3, <1>4, <1>5, <1>8, <1>9, Framed DEF Same
<1>11. TypeOK'  BY <1>2, <1>4, <1>5, <1>8 DEF TypeOK, Moves
<1>12. \A r \in Procs : /\ At(r, "addif")' => At(r, "addif") /\ N(r)' = N(r)
                        /\ "addif" \in {proc[r].pc, proc[r].at}
                           => "addif" \in {proc'[r].pc, proc'[r].at} /\ N(r)' = N(r)
  BY <1>4, <1>5 DEF Moves, At, N
<1>13. Owned'  BY <1>5, <1>12, OwnedKept DEF QuickInv
<1>14. NetworksAccounted'  BY <1>5, <1>12, AccountedKept DEF QuickInv
<1>15. Consistent(q)'
  BY <1>1, <1>2, <1>4, <1>5 DEF Consistent, Same, At, I, Rises, Late
<1>16. Holds(q)' /\ SetUp(q)'  BY <1>5 DEF Holds, SetUp, At
<1>17. Taken(q)'
  <2>1. V4 \subseteq FilterRules /\ V6 \subseteq FilterRules  BY DEF FilterRules
  <2>2. proc[q].todo \in Lists /\ proc[q].todo[I(q)] \in [FilterRules -> Nat]
    BY <1>2 DEF Invocation, Lists, Counts
  <2>7. /\ proc'[q].todo[I(q)] = [proc[q].todo[I(q)] EXCEPT ![f] = @ - 1]
        /\ \A i \in Ifaces \ {I(q)} : proc'[q].todo[i] = proc[q].todo[i]
    BY <1>2, <1>4, <2>2 DEF Lists
  <2>8. OnlyMine(q)'
    <3>1. \A i \in Ifaces \ {I(q)} : proc[q].todo[i] = NoRules  BY <1>2 DEF Taken, OnlyMine
    <3> QED  BY <1>5, <2>7, <3>1 DEF OnlyMine
  <2>3. \A g \in FilterRules :
          /\ filter[I(q)][g] = proc[q].todo[I(q)][g] => filter'[I(q)][g] = proc'[q].todo[I(q)][g]
          /\ filter[I(q)][g] = 0 => filter'[I(q)][g] = 0
    BY <1>0, <1>6, <1>8, <2>2, <2>7, SMT
  <2>4. Past(q, Deletes \ {"del"}) /\ ~Past(q, {"rule", "destroy"})'
    BY <1>5 DEF Past, At, Deletes
  <2>5. CASE proc[q].pc = "drop4"
    <3>1. /\ At(q, "drop4") /\ ~At(q, "drop6")'
          /\ ~Past(q, {"save6", "drop6", "rule", "destroy"})'
      BY <1>5, <2>5 DEF Past, At
    <3> QED  BY <1>2, <1>4, <1>5, <2>1, <2>3, <2>4, <2>8, <3>1 DEF Taken, Same
  <2>6. CASE proc[q].pc = "drop6"
    <3>1. /\ At(q, "drop6") /\ ~At(q, "drop4")'
          /\ Past(q, {"save6", "drop6", "rule", "destroy"})
      BY <1>5, <2>6 DEF Past, At
    <3>2. \A g \in V6 : filter[I(q)][g] = proc[q].todo[I(q)][g] => filter'[I(q)][g] = proc'[q].todo[I(q)][g]
      BY <2>1, <2>3
    <3>3. \A g \in V4 : filter[I(q)][g] = 0 => filter'[I(q)][g] = 0
      BY <2>1, <2>3
    <3> QED  BY <1>2, <1>4, <1>5, <2>4, <2>8, <3>1, <3>2, <3>3 DEF Taken, Same
  <2> QED  BY <2>5, <2>6
<1>18. ASSUME NEW i \in Ifaces \ cut', i = proc'[q].name
       PROVE  Reached(i)'
  <2>1. i = I(q) /\ Reached(i) /\ i \notin cut  BY <1>2, <1>5, <1>18 DEF I
  <2>2. q \in Running' /\ I(q)' = i /\ proc'[q].pc \in Deletes \ {"del"}
    BY <1>5, <2>1 DEF Running, Deletes
  <2>3. \A r \in Running' : I(r)' = i => r = q
    <3>1. Serial'  BY <1>10, SerialKept
    <3> QED  BY <2>2, <3>1 DEF Serial
  <2>4. ~Past(q, {})' /\ proc'[q].pc \notin Rises  BY <1>5 DEF Past, At, Rises
  <2>5. \A r, t \in Of(i)' : r = t  BY <1>9, <2>1 DEF Reached
  <2> QED  BY <2>2, <2>3, <2>4, <2>5 DEF Reached
<1> QED  BY <1>1, <1>3, <1>4, <1>10, <1>11, <1>13, <1>14, <1>15, <1>16, <1>17, <1>18, Going

\* `ip rule show' names no network of the interface, or one.
LEMMA DelFinds ==
  ASSUME QuickInv, Apart, NEW q \in Procs, At(q, "rule"), FindNetwork(q), UNCHANGED sys
  PROVE  QuickInv'
<1>1. q \in Running /\ proc[q].pc = "rule" /\ proc[q].pc \in Deletes  BY DEF Running, At, Deletes
<1>2. /\ TypeOK /\ Taken(q) /\ I(q) \in Ifaces /\ proc[q].cmd \in {"up", "down"}
  BY <1>1, Types
<1>3. Finds(q, Of(I(q)))
  <2>1. {r \in rules : r.name \in Matched[I(q)]} = Of(I(q))  BY <1>2 DEF Apart, Of
  <2> QED  BY <2>1 DEF FindNetwork
<1>4. last' = last /\ cut' = cut  BY <1>3 DEF Finds, Goes
<1>5. CASE Of(I(q)) = {}
  <2>1. After(q) \in {"exit", "broadcast"} /\ After(q) \in Places /\ After(q) \notin Deletes \cup {"destroy"}
    BY DEF After, Places, Deletes
  <2>2. After(q) = "exit" => proc[q].cmd = "up"  BY DEF After
  <2>3. After(q) = "broadcast" => proc[q].cmd = "down"  BY <1>2 DEF After
  <2>4. PICK s \in Places : s = After(q)  BY <2>1
  <2>5. Goes(q, s)  BY <1>3, <1>5, <2>4 DEF Finds
  <2>6. /\ Moves(q, s) /\ Same(q) /\ proc'[q].cleanup = proc[q].cleanup /\ proc'[q].at = proc[q].at
    BY <1>2, <2>5, MovesOn DEF Same, Goes
  <2>7. proc'[q].pc = s /\ I(q)' = I(q) /\ link' = link /\ filter' = filter
    BY <2>6 DEF Moves, Same, I, sys
  <2>8. Taken(q)'
    <3>1. s \in {"exit", "broadcast"}  BY <2>1, <2>4
    <3> QED  BY <1>1, <1>2, <1>4, <2>6, <2>7, <3>1 DEF Taken, OnlyMine, Past, At, Same, Deletes
  <2> QED  BY <1>1, <1>4, <1>5, <2>1, <2>2, <2>3, <2>4, <2>6, <2>8, Deleting
<1>6. CASE Of(I(q)) # {}
  <2>1. PICK r \in Of(I(q)) : proc' = [proc EXCEPT ![q].pc = "destroy", ![q].old = r.net]
    BY <1>3, <1>6 DEF Finds
  <2>2. r \in rules /\ r.name = I(q) /\ r.net \in NetIds /\ r = [net |-> r.net, name |-> I(q)]
    BY <1>2, <2>1, SMT DEF Of, TypeOK
  <2>3. "destroy" \in Places /\ "destroy" \in Deletes \ {"del"}  BY DEF Places, Deletes
  <2>4. PICK n \in NetIds : n = r.net  BY <2>2
  <2>5. /\ Moves(q, "destroy") /\ Same(q) /\ proc'[q].old = n
        /\ proc'[q].cleanup = proc[q].cleanup /\ proc'[q].at = proc[q].at
    <3>1. proc' = [proc EXCEPT ![q].pc = "destroy", ![q].old = n]  BY <2>1, <2>4
    <3>2. TypeOK /\ "destroy" \in Places  BY <1>2, <2>3
    <3> HIDE <2>1, <2>4
    <3> QED  BY <3>1, <3>2, MovesOld DEF Same
  <2>6. proc'[q].pc = "destroy" /\ I(q)' = I(q) /\ link' = link /\ filter' = filter /\ rules' = rules
    BY <2>5 DEF Moves, Same, I, sys
  <2>7. Holds(q)'  BY <2>2, <2>4, <2>5, <2>6 DEF Holds, At
  <2>8. Taken(q)'  BY <1>1, <1>2, <1>4, <2>5, <2>6 DEF Taken, OnlyMine, Past, At, Same, Deletes
  <2> QED  BY <1>1, <1>4, <2>3, <2>5, <2>7, <2>8, Deleting
<1> QED  BY <1>5, <1>6

\* netd forgets the network, which had this interface and no other.
LEMMA DelDestroys ==
  ASSUME QuickInv, Apart, NEW q \in Procs, At(q, "destroy"), nets' = nets \ {proc[q].old},
         rules' = {r \in rules : r.net # proc[q].old}, conf' = [conf EXCEPT ![proc[q].old] = {}],
         UNCHANGED <<link, filter>>, Goes(q, After(q))
  PROVE  QuickInv'
<1>1. q \in Running /\ proc[q].pc = "destroy" /\ proc[q].pc \in Deletes  BY DEF Running, At, Deletes
<1>2. /\ TypeOK /\ Consistent(q) /\ Holds(q) /\ Taken(q) /\ I(q) \in Ifaces
      /\ proc[q].cmd \in {"up", "down"} /\ proc[q].code = "none"
      /\ (I(q) \notin cut => Reached(I(q)))
  BY <1>1, Types
<1>3. PICK s \in Places : s = After(q)  BY DEF After, Places
<1>4. /\ s \in {"exit", "broadcast"} /\ (s = "exit" <=> proc[q].cmd = "up")
      /\ s \in Places \ {"idle", "done"}
  BY <1>2, <1>3 DEF After
<1>5. Moves(q, s) /\ Same(q) /\ proc'[q].cleanup = proc[q].cleanup /\ proc'[q].at = proc[q].at
  <2>1. proc' = [proc EXCEPT ![q].pc = s]  BY <1>3 DEF Goes
  <2> QED  BY <1>2, <2>1, MovesOn DEF Same
<1>6. proc'[q].pc = s /\ I(q)' = I(q) /\ N(q)' = N(q) /\ last' = last /\ cut' = cut
  BY <1>5 DEF Moves, Same, I, N, Goes
<1>7. PICK x \in rules : x.net = proc[q].old /\ x.name = I(q)
  <2>1. [net |-> proc[q].old, name |-> I(q)] \in rules  BY <1>1, <1>2 DEF Holds, At
  <2> QED  BY <2>1
<1>8. rules' = rules \ {x}  BY <1>7 DEF QuickInv, Owned
<1>9. \A r \in rules' : r.net # proc[q].old  OBVIOUS
<1>10. proc[q].old \in NetIds  BY <1>2, <1>7 DEF TypeOK
<1>11. /\ conf' \in [NetIds -> SUBSET NetFacts]
       /\ \A n \in NetIds \ {proc[q].old} : conf'[n] = conf[n]
  BY <1>2, <1>10 DEF TypeOK
<1>12. \A i \in Ifaces \ {I(q)} : Of(i)' = Of(i)  BY <1>7, <1>8 DEF Of
<1>13. Frame(q)
  <2>1. \A r \in rules : r.name # I(q) => conf[r.net] \subseteq conf'[r.net]
    BY <1>2, <1>7, <1>8, <1>9, <1>11 DEF TypeOK
  <2> QED  BY <1>1, <1>4, <1>5, <1>6, <1>12, <2>1, Framed DEF Same
<1>14. TypeOK'
  <2>1. rules' \subseteq [net : NetIds, name : Ifaces] /\ nets' \subseteq NetIds  BY <1>2, <1>8 DEF TypeOK
  <2> QED  BY <1>2, <1>5, <1>6, <1>11, <2>1 DEF TypeOK, Moves
<1>15. \A r \in Procs : At(r, "addif")' => At(r, "addif") /\ N(r)' = N(r)
  BY <1>4, <1>5, <1>6 DEF Moves, At, N
<1>16. Owned'
  <2>1. \A r \in rules' : r.net \in nets'  BY <1>8, <1>9 DEF QuickInv, Owned
  <2>2. \A r, t \in rules' : r.net = t.net => r = t  BY <1>8 DEF QuickInv, Owned
  <2>3. \A r \in Procs : At(r, "addif")' => N(r)' \in nets' /\ \A t \in rules' : t.net # N(r)'
    BY <1>7, <1>8, <1>15 DEF QuickInv, Owned
  <2>4. \A r, t \in Procs : At(r, "addif")' /\ At(t, "addif")' /\ N(r)' = N(t)' => r = t
    BY <1>15 DEF QuickInv, Owned
  <2> QED  BY <2>1, <2>2, <2>3, <2>4 DEF Owned
<1>17. NetworksAccounted'
  <2>1. \A r \in Procs : "addif" \in {proc[r].pc, proc[r].at}
                         => "addif" \in {proc'[r].pc, proc'[r].at} /\ N(r)' = N(r)
    BY <1>1, <1>5, <1>6 DEF Moves, N
  <2>2. NetworksAccounted  BY DEF QuickInv
  <2> SUFFICES ASSUME NEW n \in nets', n # proc[q].old, n \in nets
               PROVE  \/ \E r \in rules' : r.net = n
                      \/ \E r \in Procs : N(r)' = n /\ "addif" \in {proc'[r].pc, proc'[r].at}
    BY DEF NetworksAccounted
  <2>3. CASE \E r \in rules : r.net = n  BY <2>3
  <2>4. CASE \E r \in Procs : N(r) = n /\ "addif" \in {proc[r].pc, proc[r].at}  BY <2>1, <2>4
  <2> QED  BY <2>2, <2>3, <2>4 DEF NetworksAccounted
<1>18. Consistent(q)'
  BY <1>1, <1>2, <1>4, <1>5, <1>6 DEF Consistent, Same, At, I, Deletes, Rises, Late
<1>19. Holds(q)' /\ SetUp(q)'
  <2>1. Holds(q)'  BY <1>4, <1>5, <1>6 DEF Holds, At, Same
  <2>2. SetUp(q)'  BY <1>4, <1>5, <1>6 DEF SetUp, Same
  <2> QED  BY <2>1, <2>2
<1>20. Taken(q)'  BY <1>1, <1>2, <1>4, <1>5, <1>6 DEF Taken, OnlyMine, Past, At, Same, Deletes
<1>21. ASSUME NEW i \in Ifaces \ cut', i = proc'[q].name
       PROVE  Reached(i)'
  <2>1. i = I(q) /\ Reached(i) /\ i \notin cut  BY <1>2, <1>6, <1>21 DEF I
  <2>2. Of(i)' = {}  BY <1>7, <1>8, <2>1 DEF Of, Reached
  <2> QED  BY <2>2 DEF Reached
<1> QED  BY <1>1, <1>4, <1>5, <1>13, <1>14, <1>16, <1>17, <1>18, <1>19, <1>20, <1>21, Going

\* The action DelIf.
LEMMA DelDeletes ==
  ASSUME QuickInv, Apart, NEW q \in Procs, DelIf(q)
  PROVE  QuickInv'
<1>1. CASE /\ At(q, "del") /\ link[I(q)] # {}
           /\ link' = [link EXCEPT ![I(q)] = {}]
           /\ UNCHANGED <<filter, nets, rules, conf>>
           /\ Goes(q, "save4")
  BY <1>1, DelLink
<1>2. ASSUME NEW save, NEW drop, NEW v, NEW next, Round(save, drop, v, next),
             DropRules(q, save, drop, v, next)
      PROVE  QuickInv'
  <2>1. CASE /\ At(q, save)
             /\ proc' = [proc EXCEPT ![q].pc = drop, ![q].todo = Listed(q, v)]
             /\ UNCHANGED <<sys, last, cut, fails, kills>>
    BY <1>2, <2>1, DelSaves
  <2>2. CASE /\ At(q, drop)
             /\ \E x \in Left(q) :
                  Drops(q, x) /\ proc' = [proc EXCEPT ![q].todo[x[1]][x[2]] = @ - 1]
    <3>1. proc[q].pc \in {"drop4", "drop6"}  BY <1>2, <2>2 DEF Round, At
    <3> QED  BY <2>2, <3>1, DelDrops DEF Ticks
  <2>3. CASE At(q, drop) /\ Left(q) = {} /\ UNCHANGED sys /\ Goes(q, next)
    BY <1>2, <2>3, DelNext
  <2> QED  BY <1>2, <2>1, <2>2, <2>3 DEF DropRules
<1>3. CASE DropRules(q, "save4", "drop4", V4, "save6")  BY <1>2, <1>3 DEF Round
<1>4. CASE DropRules(q, "save6", "drop6", V6, "rule")  BY <1>2, <1>4 DEF Round
<1>5. CASE At(q, "rule") /\ FindNetwork(q) /\ UNCHANGED sys  BY <1>5, DelFinds
<1>6. CASE /\ At(q, "destroy") /\ proc[q].old \in nets
           /\ nets' = nets \ {proc[q].old}
           /\ rules' = {r \in rules : r.net # proc[q].old}
           /\ conf' = [conf EXCEPT ![proc[q].old] = {}]
           /\ UNCHANGED <<link, filter>>
           /\ Goes(q, After(q))
  BY <1>6, DelDestroys
<1> QED  BY <1>1, <1>3, <1>4, <1>5, <1>6 DEF DelIf

(***************************************************************************)
(* Commands that fail.                                                     *)
(***************************************************************************)
LEMMA FailsInHandler ==
  ASSUME QuickInv, Apart, NEW q \in Procs, proc[q].cleanup, proc[q].pc \in Deletes, Ignores(q),
         UNCHANGED sys, last' = last, cut' = cut \cup {I(q)}
  PROVE  QuickInv'
<1>1. q \in Running  BY DEF Running, Deletes
<1>2. TypeOK /\ Consistent(q) /\ proc[q].cmd = "up" /\ proc[q] \in Invocation
  BY <1>1, Types DEF Consistent
<1>3. PICK s : /\ s \in (Deletes \ {"del"}) \cup {"exit"} /\ s # "destroy"
               /\ Moves(q, s) /\ Same(q) /\ proc'[q].cleanup = proc[q].cleanup /\ proc'[q].at = proc[q].at
               /\ OnlyMine(q)'
  <2>0. "save4" \in Places /\ "exit" \in Places  BY DEF Places, Deletes
  <2>1. CASE At(q, "del") /\ proc' = [proc EXCEPT ![q].pc = "save4"]
    <3>1. Moves(q, "save4") /\ Same(q) /\ proc'[q].cleanup = proc[q].cleanup /\ proc'[q].at = proc[q].at
      BY <1>2, <2>0, <2>1, MovesOn DEF Same
    <3>2. "save4" \in Deletes \ {"del"}  BY DEF Deletes
    <3>3. OnlyMine(q)'  BY <3>1 DEF OnlyMine, Moves
    <3> QED  BY <3>1, <3>2, <3>3
  <2>2. CASE /\ proc[q].pc \in {"drop4", "drop6"}
             /\ \E x \in Left(q) : proc' = [proc EXCEPT ![q].todo[x[1]][x[2]] = @ - 1]
    <3>0. PICK x \in Left(q) : Ticks(q, x)  BY <2>2 DEF Ticks
    <3>1. x \in Ifaces \X FilterRules /\ x[1] = I(q) /\ proc[q].todo[x[1]][x[2]] > 0
      BY <1>1, <2>2, LeftIsMine
    <3>2. /\ Moves(q, proc[q].pc) /\ Same(q) /\ proc'[q].todo = Less(proc[q].todo, x)
          /\ proc'[q].cleanup = proc[q].cleanup /\ proc'[q].at = proc[q].at
      BY <1>2, <3>0, <3>1, DelDropsMoves
    <3>3. proc[q].pc \in Deletes \ {"del"} /\ proc[q].pc # "destroy"  BY <2>2 DEF Deletes
    <3>4. OnlyMine(q)'
      <4>1. proc[q].todo \in Lists /\ I(q)' = I(q)  BY <1>2, <3>2 DEF Invocation, Same, I
      <4>2. \A i \in Ifaces \ {I(q)} : proc'[q].todo[i] = proc[q].todo[i]
        BY <3>1, <3>2, <4>1 DEF Lists, Less
      <4>3. \A i \in Ifaces \ {I(q)} : proc[q].todo[i] = NoRules
        BY <1>1, <2>2, Types DEF Taken, OnlyMine
      <4> QED  BY <4>1, <4>2, <4>3 DEF OnlyMine
    <3> QED  BY <3>2, <3>3, <3>4
  <2>3. CASE At(q, "destroy") /\ proc' = [proc EXCEPT ![q].pc = "exit"]
    <3>1. Moves(q, "exit") /\ Same(q) /\ proc'[q].cleanup = proc[q].cleanup /\ proc'[q].at = proc[q].at
      BY <1>2, <2>0, <2>3, MovesOn DEF Same
    <3>2. OnlyMine(q)'  BY <3>1 DEF OnlyMine, Moves
    <3> QED  BY <3>1, <3>2
  <2> QED  BY <2>1, <2>2, <2>3 DEF Ignores
<1>4. I(q) \in cut' /\ I(q)' = I(q) /\ proc'[q].cmd = "up"  BY <1>2, <1>3 DEF Same, I
<1>5. Taken(q)'  BY <1>3, <1>4 DEF Taken
<1>6. s # "broadcast"  BY <1>3 DEF Deletes
<1> QED  BY <1>2, <1>3, <1>4, <1>5, <1>6, Deleting

\* A command of up fails and exit runs the handler.
LEMMA FailsAndCleansUp ==
  ASSUME QuickInv, Apart, NEW q \in Procs, proc[q].cleanup, proc[q].pc \in Commands \ Deletes,
         Moves(q, "del"), Same(q), proc'[q].cleanup = proc[q].cleanup, proc'[q].at = proc[q].pc,
         UNCHANGED sys, last' = last, cut' = cut
  PROVE  QuickInv'
<1>1. q \in Running  BY DEF Running, Commands
<1>2. /\ Consistent(q) /\ I(q) \in Ifaces /\ proc[q].cmd = "up" /\ proc[q].code = "none"
      /\ proc[q].at \in {"none", "routes"}
  <2>1. /\ Consistent(q) /\ I(q) \in Ifaces /\ proc[q].code = "none"
    BY <1>1, Types
  <2>2. proc[q].pc \in Rises \cup {"broadcast", "parse"}  BY DEF Commands, Deletes, Rises
  <2>3. proc[q].cmd = "up"  BY <2>1, <2>2 DEF Consistent
  <2> QED  BY <2>1, <2>2, <2>3 DEF Consistent, At
<1>3. proc'[q].pc = "del" /\ "del" \in Places \ {"idle", "done", "addif"} /\ "del" \notin Rises
  BY DEF Moves, Places, Deletes, Rises
<1>4. Consistent(q)'  BY <1>2, <1>3 DEF Consistent, Same, At, I, Deletes, Rises, Late
<1>5. Holds(q)' /\ Taken(q)' /\ SetUp(q)'
  BY <1>3 DEF Holds, Taken, OnlyMine, SetUp, At, Past, Deletes
<1>6. ~Past(q, {})'  BY <1>3 DEF Past, At
<1>7. "addif" \in {proc[q].pc, proc[q].at} => proc'[q].at = "addif"  BY <1>2
<1> QED  BY <1>1, <1>3, <1>4, <1>5, <1>6, <1>7, GoingQuietly DEF Same

\* A command fails where no handler is armed.
LEMMA FailsAtOnce ==
  ASSUME QuickInv, Apart, NEW q \in Procs, ~proc[q].cleanup, proc[q].pc \in Commands,
         Moves(q, "done"), proc'[q].cmd = proc[q].cmd, proc'[q].name = proc[q].name,
         proc'[q].net = proc[q].net, proc'[q].code = "error", proc'[q].at = proc[q].pc,
         UNCHANGED sys, last' = q, cut' = IF proc[q].pc \in Deletes THEN cut \cup {I(q)} ELSE cut
  PROVE  QuickInv'
<1>1. q \in Running  BY DEF Running, Commands
<1>2. Consistent(q)  BY Types
<1>3. proc[q].cmd = "up" => proc[q].pc = "parse"
  <2>1. proc[q].pc \in Rises \cup Deletes \cup {"broadcast", "parse"}  BY DEF Commands, Deletes, Rises
  <2> QED  BY <1>2, <2>1 DEF Consistent
<1>4. "addif" \notin {proc[q].pc, proc[q].at}  BY <1>2, <1>3 DEF Consistent, Rises, Late
<1>5. Promised(q)'  BY <1>3 DEF Promised
<1>6. cut' \in {cut, cut \cup {I(q)}} /\ (proc[q].pc \in Deletes => I(q) \in cut')  OBVIOUS
<1> QED  BY <1>1, <1>4, <1>5, <1>6, Ending

\* The action Fail.
LEMMA Fails ==
  ASSUME QuickInv, Apart, NEW q \in Procs, Fail(q)
  PROVE  QuickInv'
<1>1. /\ TypeOK /\ proc[q] \in Invocation /\ UNCHANGED sys /\ proc[q].pc \in Commands
      /\ cut' = IF proc[q].pc \in Deletes THEN cut \cup {I(q)} ELSE cut
  BY Types DEF Fail
<1>2. proc[q].pc \in Places /\ "del" \in Places /\ "error" \in Codes
  BY <1>1 DEF Invocation, Places, Deletes, Codes
<1>3. CASE proc[q].cleanup /\ proc[q].pc \in Deletes /\ Ignores(q) /\ UNCHANGED last
  BY <1>1, <1>3, FailsInHandler
<1>4. CASE /\ proc[q].cleanup /\ proc[q].pc \notin Deletes
           /\ proc' = [proc EXCEPT ![q].pc = "del", ![q].at = proc[q].pc]
           /\ UNCHANGED last
  <2>1. Moves(q, "del") /\ Same(q) /\ proc'[q].cleanup = proc[q].cleanup /\ proc'[q].at = proc[q].pc
    <3>1. PICK a \in Places : a = proc[q].pc  BY <1>2
    <3>2. TurnsTo(q, "del", a)  BY <1>4, <3>1 DEF TurnsTo
    <3> QED  BY <1>1, <1>2, <3>1, <3>2, MovesAt DEF Same
  <2> QED  BY <1>1, <1>4, <2>1, FailsAndCleansUp
<1>5. CASE /\ ~proc[q].cleanup
           /\ proc' = [proc EXCEPT ![q].pc = "done", ![q].code = "error", ![q].at = proc[q].pc]
           /\ last' = q
  <2>1. /\ Moves(q, "done") /\ proc'[q].cmd = proc[q].cmd /\ proc'[q].name = proc[q].name
        /\ proc'[q].net = proc[q].net /\ proc'[q].code = "error" /\ proc'[q].at = proc[q].pc
    <3>1. PICK a \in Places : a = proc[q].pc  BY <1>2
    <3>2. StopsAt(q, "error", a)  BY <1>5, <3>1 DEF StopsAt
    <3>3. TypeOK /\ "error" \in Codes  BY <1>1, <1>2
    <3>4. /\ Moves(q, "done") /\ proc'[q].cmd = proc[q].cmd /\ proc'[q].name = proc[q].name
          /\ proc'[q].net = proc[q].net /\ proc'[q].code = "error" /\ proc'[q].at = a
      BY <3>2, <3>3, MovesStops
    <3> QED  BY <3>1, <3>4
  <2> QED  BY <1>1, <1>5, <2>1, FailsAtOnce
<1> QED  BY <1>3, <1>4, <1>5 DEF Fail

\* A list of del_if comes out empty because its command failed.
LEMMA ListsNothing ==
  ASSUME QuickInv, Apart, NEW q \in Procs, proc[q].pc \in {"save4", "save6", "rule"},
         NEW s, \/ proc[q].pc = "save4" /\ s = "save6"
                \/ proc[q].pc = "save6" /\ s = "rule"
                \/ proc[q].pc = "rule" /\ s = After(q),
         Moves(q, s), Same(q), proc'[q].cleanup = proc[q].cleanup, proc'[q].at = First(q),
         UNCHANGED sys, last' = last, cut' = cut \cup {I(q)}
  PROVE  QuickInv'
<1>1. q \in Running /\ proc[q].pc \in Deletes  BY DEF Running, Deletes
<1>2. proc[q].cmd \in {"up", "down"}  BY <1>1, Types
<1>3. /\ s \in (Deletes \ {"del"}) \cup {"exit", "broadcast"} /\ s # "destroy"
      /\ s = "exit" => proc[q].cmd = "up"
      /\ s = "broadcast" => proc[q].cmd = "down"
  BY <1>2 DEF After, Deletes
<1>4. proc'[q].at # "none" /\ (proc'[q].at = "addif" <=> proc[q].at = "addif")  BY DEF First
<1>5. I(q) \in cut' /\ I(q)' = I(q)  BY DEF Same, I
<1>6. Taken(q)'
  <2>1. s \notin {"drop4", "drop6"} /\ proc'[q].pc = s  BY DEF After, Moves
  <2> QED  BY <1>4, <1>5, <2>1 DEF Taken, OnlyMine
<1> QED  BY <1>1, <1>3, <1>4, <1>5, <1>6, Deleting

\* set_routes finds no allowed IP because its command failed.
LEMMA GoesWithoutRoutes ==
  ASSUME QuickInv, Apart, NEW q \in Procs, proc[q].pc = "routes",
         Moves(q, "mtu"), Same(q), proc'[q].cleanup = proc[q].cleanup, proc'[q].at = "routes",
         UNCHANGED sys, last' = last, cut' = cut
  PROVE  QuickInv'
<1>1. q \in Running /\ proc[q].pc \in Rises /\ proc[q].pc \in Late  BY DEF Running, Rises, Late
<1>2. /\ Consistent(q) /\ I(q) \in Ifaces /\ proc[q].code = "none" /\ Holds(q) /\ SetUp(q)
      /\ proc[q].cmd = "up" /\ proc[q].cleanup /\ proc[q].at \in {"none", "routes"}
  BY <1>1, Types DEF Consistent
<1>3. /\ proc'[q].pc = "mtu" /\ "mtu" \in Places \ {"idle", "done", "addif"} /\ "mtu" \in Late
      /\ "mtu" \in Rises /\ "mtu" \notin Deletes
  BY DEF Moves, Places, Deletes, Rises, Late
<1>4. I(q)' = I(q) /\ N(q)' = N(q) /\ link' = link /\ filter' = filter /\ rules' = rules /\ conf' = conf
  BY DEF Same, I, N, sys
<1>5. Consistent(q)'  BY <1>2, <1>3, <1>4 DEF Consistent, Same, At
<1>6. Holds(q)'  BY <1>2, <1>3, <1>4 DEF Holds, At, Ours
<1>7. Taken(q)'  BY <1>2, <1>3 DEF Taken, OnlyMine, At, Past, Deletes, Same
<1>8. SetUp(q)'  BY <1>2, <1>3, <1>4 DEF SetUp
<1>9. ~Past(q, {})' /\ proc[q].pc \notin Deletes  BY <1>3 DEF Past, At, Deletes
<1>10. "addif" \notin {proc[q].pc, proc[q].at}  BY <1>2
<1> QED  BY <1>1, <1>3, <1>5, <1>6, <1>7, <1>8, <1>9, <1>10, GoingQuietly DEF Same

\* The action ReadsNothing.
LEMMA Reads ==
  ASSUME QuickInv, Apart, NEW q \in Procs, ReadsNothing(q)
  PROVE  QuickInv'
<1>1. /\ TypeOK /\ proc[q] \in Invocation /\ UNCHANGED sys
      /\ proc[q].pc \in {"show", "port", "routes", "list", "save4", "save6", "rule"}
      /\ cut' = IF proc[q].pc \in Deletes THEN cut \cup {I(q)} ELSE cut
  BY Types DEF ReadsNothing, Listings
<1>2. CASE proc[q].pc = "show"
  <2>1. /\ proc' = [proc EXCEPT ![q].pc = "add", ![q].cleanup = TRUE] /\ last' = last
    BY <1>2 DEF ReadsNothing, At
  <2>2. cut' = cut  BY <1>1, <1>2 DEF Deletes
  <2> QED  BY <1>1, <1>2, <2>1, <2>2, Arms
<1>3. CASE proc[q].pc = "port"
  <2>1. /\ proc' = [proc EXCEPT ![q].pc = "linkdown", ![q].port = FALSE] /\ last' = last
    BY <1>3 DEF ReadsNothing, At
  <2>2. cut' = cut /\ FALSE \in BOOLEAN  BY <1>1, <1>3 DEF Deletes
  <2> QED  BY <1>1, <1>3, <2>1, <2>2, UpReads
<1>4. CASE proc[q].pc = "list"
  <2>1. proc' = [proc EXCEPT ![q].pc = "done", ![q].code = "absent"] /\ last' = q
    BY <1>4 DEF ReadsNothing, At
  <2>2. "done" \in Places /\ "absent" \in Codes  BY DEF Places, Codes
  <2>3. /\ Moves(q, "done") /\ proc'[q].code = "absent" /\ proc'[q].at = proc[q].at
        /\ proc'[q].cmd = proc[q].cmd /\ proc'[q].name = proc[q].name /\ proc'[q].net = proc[q].net
    BY <1>1, <2>1, <2>2, MovesCode
  <2>4. cut' = cut /\ proc[q].pc \notin Deletes /\ q \in Running  BY <1>1, <1>4 DEF Deletes, Running
  <2> QED  BY <1>1, <1>4, <2>1, <2>3, <2>4, KilledOrRefused
<1>5. CASE proc[q].pc \in {"save4", "save6", "rule"}
  <2>1. PICK s : /\ proc' = [proc EXCEPT ![q].pc = s, ![q].at = First(q)]
                 /\ \/ proc[q].pc = "save4" /\ s = "save6"
                    \/ proc[q].pc = "save6" /\ s = "rule"
                    \/ proc[q].pc = "rule" /\ s = After(q)
    BY <1>5 DEF ReadsNothing, At
  <2>2. s \in Places /\ First(q) \in Places
    <3>1. proc[q].pc \in Places /\ proc[q].at \in Places \cup {"none"}  BY <1>1 DEF Invocation
    <3>2. First(q) \in Places  BY <3>1 DEF First
    <3> QED  BY <2>1, <3>2 DEF After, Places, Deletes
  <2>3. Moves(q, s) /\ Same(q) /\ proc'[q].cleanup = proc[q].cleanup /\ proc'[q].at = First(q)
    <3>1. PICK a \in Places : a = First(q)  BY <2>2
    <3>2. TurnsTo(q, s, a)  BY <2>1, <3>1 DEF TurnsTo
    <3>3. TypeOK /\ s \in Places  BY <1>1, <2>2
    <3>4. Moves(q, s) /\ Same(q) /\ proc'[q].cleanup = proc[q].cleanup /\ proc'[q].at = a
      BY <3>2, <3>3, MovesAt DEF Same
    <3> QED  BY <3>1, <3>4
  <2>4. cut' = cut \cup {I(q)} /\ last' = last  BY <1>1, <1>5 DEF Deletes, ReadsNothing, At
  <2> QED  BY <1>1, <1>5, <2>1, <2>3, <2>4, ListsNothing
<1>6. CASE proc[q].pc = "routes"
  <2>1. proc' = [proc EXCEPT ![q].pc = "mtu", ![q].at = "routes"] /\ last' = last
    BY <1>6 DEF ReadsNothing, At
  <2>2. "mtu" \in Places /\ "routes" \in Places  BY DEF Places, Rises
  <2>3. TurnsTo(q, "mtu", "routes")  BY <2>1 DEF TurnsTo
  <2>4. Moves(q, "mtu") /\ Same(q) /\ proc'[q].cleanup = proc[q].cleanup /\ proc'[q].at = "routes"
    BY <1>1, <2>2, <2>3, MovesAt DEF Same
  <2>5. cut' = cut  BY <1>1, <1>6 DEF Deletes
  <2> QED  BY <1>1, <1>6, <2>1, <2>4, <2>5, GoesWithoutRoutes
<1> QED  BY <1>1, <1>2, <1>3, <1>4, <1>5, <1>6

(***************************************************************************)
(* The invariant.                                                          *)
(***************************************************************************)
LEMMA QuickInit ==
  ASSUME Init
  PROVE  QuickInv
<1>1. Idle \in Invocation /\ Idle.pc = "idle" /\ Idle.at = "none" /\ Idle.code = "none" /\ Idle.name = "none"
      /\ Idle.cmd = "none" /\ Idle.cleanup = FALSE
  <2>1. NoRules \in Counts /\ "idle" \in Places /\ "none" \in Verbs /\ "none" \in Codes
    BY DEF NoRules, Counts, Places, Verbs, Codes
  <2>2. NoneListed \in Lists  BY <2>1 DEF NoneListed, Lists
  <2> QED  BY <2>1, <2>2 DEF Idle, Invocation
<1>2. \A q \in Procs : proc[q] = Idle  BY DEF Init
<1>3. Running = {}  BY <1>1, <1>2 DEF Running
<1>4. TypeOK
  <2>1. proc \in [Procs -> Invocation]  BY <1>1 DEF Init
  <2>2. filter \in [Ifaces -> Counts]  BY DEF Init, NoRules, Counts
  <2> QED  BY <2>1, <2>2 DEF Init, TypeOK
<1>5. Serial /\ Owned /\ NetworksAccounted /\ SuccessIsWhole
  BY <1>1, <1>2, <1>3 DEF Init, Serial, Owned, NetworksAccounted, SuccessIsWhole, At
<1>6. \A i \in Ifaces : Reached(i)  BY <1>3 DEF Init, Reached, Of
<1>7. \A q \in Procs : Consistent(q) /\ Holds(q) /\ Promised(q)
  BY <1>1, <1>2, <1>3 DEF Consistent, Holds, Promised, At, I, Rises, Late, Deletes
<1> QED  BY <1>3, <1>4, <1>5, <1>6, <1>7 DEF QuickInv

\* Every step preserves the invariant.
LEMMA QuickStep ==
  ASSUME QuickInv, Apart, [Next]_vars
  PROVE  QuickInv'
<1>1. ASSUME NEW q \in Procs,
             \/ \E c \in {"up", "down"}, i \in Ifaces : Start(q, c, i)
             \/ ParseOptions(q) \/ CmdUp(q) \/ CmdDown(q) \/ DelIf(q) \/ BroadcastChange(q)
             \/ CleanupReturns(q) \/ Fail(q) \/ ReadsNothing(q) \/ Kill(q)
      PROVE  QuickInv'
  <2>1. CASE CmdDown(q)
    <3>1. proc[q].pc = "list" /\ UNCHANGED sys  BY <2>1 DEF CmdDown, At
    <3>2. CASE link[I(q)] # {}  BY <2>1, <3>1, <3>2, TakesDown DEF CmdDown
    <3>3. CASE link[I(q)] = {}  BY <2>1, <3>1, <3>3, Refused DEF CmdDown
    <3> QED  BY <3>2, <3>3
  <2> QED
    BY <1>1, <2>1, Starts, Parses, UpGoesUp, DelDeletes, Broadcasts, Exits, Fails, Reads, Killed
<1>2. CASE UNCHANGED vars
  <2>1. /\ link' = link /\ filter' = filter /\ nets' = nets /\ rules' = rules /\ conf' = conf
        /\ proc' = proc /\ last' = last /\ cut' = cut
    BY <1>2 DEF vars
  <2>2. Running' = Running  BY <2>1 DEF Running
  <2>3. \A i : Of(i)' = Of(i)  BY <2>1 DEF Of
  <2>4. \A q : proc'[q] = proc[q] /\ I(q)' = I(q) /\ N(q)' = N(q) /\ Ours(q)' = Ours(q)
    BY <2>1 DEF I, N, Ours
  <2>5. \A q, t : At(q, t)' = At(q, t) /\ Past(q, t)' = Past(q, t)  BY <2>1 DEF At, Past
  <2>6. TypeOK' /\ Serial' /\ NetworksAccounted'
    BY <2>1, <2>2, <2>4 DEF QuickInv, TypeOK, Serial, NetworksAccounted
  <2>12. Owned'  BY <2>1, <2>4, <2>5 DEF QuickInv, Owned
  <2>7. SuccessIsWhole'  BY <2>1, <2>4 DEF QuickInv, SuccessIsWhole, Whole, Missed
  <2>8. \A i \in Ifaces \ cut' : Reached(i)'
    BY <2>1, <2>2, <2>3, <2>4, <2>5 DEF QuickInv, Reached
  <2>9. \A q \in Procs : Consistent(q)' /\ Holds(q)'
    <3> SUFFICES ASSUME NEW q \in Procs  PROVE Consistent(q)' /\ Holds(q)'
      OBVIOUS
    <3>1. Consistent(q)'  BY <2>1, <2>2, <2>4, <2>5 DEF QuickInv, Consistent
    <3>2. Holds(q)'  BY <2>1, <2>2, <2>4, <2>5 DEF QuickInv, Holds
    <3> QED  BY <3>1, <3>2
  <2>10. \A q \in Procs : Promised(q)'
    BY <2>1, <2>2, <2>3, <2>4 DEF QuickInv, Promised, Over, Cleared
  <2>11. \A q \in Running' : Taken(q)' /\ SetUp(q)'
    <3> SUFFICES ASSUME NEW q \in Running  PROVE Taken(q)' /\ SetUp(q)'
      BY <2>2
    <3>1. Taken(q) /\ SetUp(q)  BY DEF QuickInv
    <3>2. Taken(q)'  BY <2>1, <2>4, <2>5, <3>1 DEF Taken, OnlyMine
    <3>3. SetUp(q)'  BY <2>1, <2>4, <3>1 DEF SetUp
    <3> QED  BY <3>2, <3>3
  <2> QED  BY <2>6, <2>7, <2>8, <2>9, <2>10, <2>11, <2>12 DEF QuickInv
<1> QED  BY <1>1, <1>2 DEF Next

\* What belongs to a name on which no invocation works does not change.
LEMMA OthersUntouched ==
  ASSUME QuickInv, Apart, Next
  PROVE  Untouched
<1> SUFFICES ASSUME NEW i \in Ifaces, \A r \in Running : I(r) # i
             PROVE  link'[i] = link[i] /\ filter'[i] = filter[i] /\ Of(i)' = Of(i)
  BY DEF Untouched
<1>1. PICK q \in Procs :
        \/ \E c \in {"up", "down"}, j \in Ifaces : Start(q, c, j)
        \/ ParseOptions(q) \/ CmdUp(q) \/ CmdDown(q) \/ DelIf(q) \/ BroadcastChange(q)
        \/ CleanupReturns(q) \/ Fail(q) \/ ReadsNothing(q) \/ Kill(q)
  BY DEF Next
<1>2. TypeOK  BY DEF QuickInv
<1>3. CASE UNCHANGED sys  BY <1>3 DEF sys, Of
<1>4. ASSUME NEW fact, q \in Running, Sets(q, fact)
      PROVE  link'[i] = link[i] /\ filter'[i] = filter[i] /\ Of(i)' = Of(i)
  BY <1>2, <1>4 DEF Sets, TypeOK, Of
<1>5. ASSUME NEW f, q \in Running, Inserts(q, f)
      PROVE  link'[i] = link[i] /\ filter'[i] = filter[i] /\ Of(i)' = Of(i)
  BY <1>2, <1>5 DEF Inserts, TypeOK, Of
<1>6. CASE CmdUp(q)
  <2>1. q \in Running
    BY <1>6 DEF CmdUp, Show, AddIf, SetConfig, DetermineListenPort, UpIf, SetAddr, SetDnses, SetRoutes,
                SetMtu, SetUsers, Configures, At, Running
  <2>2. CASE Show(q)  BY <1>3, <2>2 DEF Show
  <2>3. CASE AddIf(q) \/ SetConfig(q) \/ SetAddr(q) \/ SetMtu(q)
    BY <1>4, <2>1, <2>3 DEF AddIf, SetConfig, SetAddr, SetMtu
  <2>4. CASE SetDnses(q) \/ SetRoutes(q) \/ SetUsers(q)
    BY <2>4 DEF SetDnses, SetRoutes, SetUsers, Configures, Of
  <2>5. CASE DetermineListenPort(q)
    <3>1. CASE Sets(q, "up")  BY <1>4, <2>1, <3>1
    <3>2. CASE link' = [link EXCEPT ![I(q)] = @ \ {"up"}] /\ UNCHANGED <<filter, nets, rules, conf>>
      BY <1>2, <2>1, <3>2 DEF TypeOK, Of
    <3> QED  BY <1>3, <2>5, <3>1, <3>2 DEF DetermineListenPort
  <2>6. CASE UpIf(q)
    <3>1. CASE nets' = nets \cup {N(q)} /\ UNCHANGED <<link, filter, rules, conf>>
      BY <3>1 DEF Of
    <3>2. CASE /\ rules' = rules \cup {[net |-> N(q), name |-> I(q)]}
               /\ UNCHANGED <<link, filter, nets, conf>>
      <4>1. I(q) # i /\ [net |-> N(q), name |-> I(q)].name = I(q)  BY <2>1
      <4> QED  BY <3>2, <4>1 DEF Of
    <3> QED  BY <1>3, <1>4, <1>5, <2>1, <2>6, <3>1, <3>2 DEF UpIf
  <2> QED  BY <1>6, <2>2, <2>3, <2>4, <2>5, <2>6 DEF CmdUp
<1>7. CASE DelIf(q)
  <2>1. q \in Running  BY <1>7 DEF DelIf, DropRules, At, Running
  <2>2. CASE link' = [link EXCEPT ![I(q)] = {}] /\ UNCHANGED <<filter, nets, rules, conf>>
    BY <1>2, <2>1, <2>2 DEF TypeOK, Of
  <2>3. ASSUME proc[q].pc \in {"drop4", "drop6"}, NEW x \in Left(q), Drops(q, x)
        PROVE  link'[i] = link[i] /\ filter'[i] = filter[i] /\ Of(i)' = Of(i)
    <3>1. x[1] # i  BY <2>1, <2>3, LeftIsMine
    <3> QED  BY <1>2, <2>3, <3>1 DEF Drops, TypeOK, Of
  <2>4. CASE DropRules(q, "save4", "drop4", V4, "save6") \/ DropRules(q, "save6", "drop6", V6, "rule")
    BY <1>3, <2>3, <2>4 DEF DropRules, At
  <2>5. CASE /\ At(q, "destroy")
             /\ rules' = {r \in rules : r.net # proc[q].old}
             /\ UNCHANGED <<link, filter>>
    <3>1. [net |-> proc[q].old, name |-> I(q)] \in rules  BY <2>5, Types DEF Holds
    <3>2. \A r \in rules : r.net = proc[q].old => r.name = I(q)
      <4>1. PICK s \in rules : s.net = proc[q].old /\ s.name = I(q)  BY <3>1
      <4> QED  BY <4>1 DEF QuickInv, Owned
    <3>3. I(q) # i  BY <2>1
    <3> QED  BY <2>5, <3>2, <3>3 DEF Of
  <2> QED  BY <1>3, <1>7, <2>2, <2>4, <2>5 DEF DelIf
<1> QED
  BY <1>1, <1>3, <1>6, <1>7 DEF Start, ParseOptions, CmdDown, BroadcastChange, CleanupReturns, Fail,
                                ReadsNothing, Kill

\* The invariant: every invocation has set up or taken away what its place says,
\* an interface is in one network at most and del_if finds it.
THEOREM QuickInvariant ==
  ASSUME Apart
  PROVE  Spec => []QuickInv
<1>1. Init => QuickInv  BY QuickInit
<1>2. QuickInv /\ [Next]_vars => QuickInv'  BY QuickStep
<1> QED  BY <1>1, <1>2, PTL DEF Spec

\* An `up' that exits with success leaves its interface whole, without routes only
\* if their list could not be read, and one that fails at any command leaves no
\* link, no filter rule and no network with the interface in it, unless a command
\* of its exit handler fails too.  It does not undo everything: a network to which
\* the interface could not be added stays (cmd_up, set_routes, cmd_up_cleanup).
THEOREM UpSucceedsOrUndoes ==
  ASSUME Apart
  PROVE  Spec => []UpIsWholeOrUndone
<1>1. QuickInv => UpIsWholeOrUndone
  <2> SUFFICES ASSUME QuickInv, NEW q \in Procs, Quiet(q), proc[q].cmd = "up", proc[q].code = "error",
                      proc[q].at # "parse", I(q) \notin cut
               PROVE  link[I(q)] = {} /\ filter[I(q)] = NoRules /\ Of(I(q)) = {}
    BY DEF UpIsWholeOrUndone, FailedUpCleansUp, QuickInv
  <2>1. Over(q)  BY DEF Over, Quiet
  <2> QED  BY <2>1 DEF QuickInv, Promised, Cleared
<1> QED  BY <1>1, QuickInvariant, PTL

\* A `down' that could read its lists leaves neither link nor filter rule, and a
\* network of the interface only if an earlier del_if was cut short; a network that
\* no rule names is left by an `up' that stopped in the middle (cmd_down, up_if).
THEOREM DownTakesAllDown ==
  ASSUME Apart
  PROVE  Spec => []DownClears
<1>1. QuickInv => DownClears
  <2> SUFFICES ASSUME QuickInv, NEW q \in Procs, Quiet(q), proc[q].cmd = "down", proc[q].code = "success",
                      proc[q].at = "none"
               PROVE  /\ link[I(q)] = {} /\ filter[I(q)] = NoRules
                      /\ I(q) \notin cut => Of(I(q)) = {}
    BY DEF DownClears, DownLeavesNothing, QuickInv
  <2>1. Over(q)  BY DEF Over, Quiet
  <2> QED  BY <2>1 DEF QuickInv, Promised, Cleared
<1> QED  BY <1>1, QuickInvariant, PTL

\* No invocation touches the link, the filter rules or the network of an interface
\* on which none works (up_if, del_if, the pattern in which it finds the rule).
THEOREM InterfacesIsolated ==
  ASSUME Apart
  PROVE  Spec => Isolation
<1>1. QuickInv /\ [Next]_vars => [Untouched]_vars  BY OthersUntouched
<1> QED  BY <1>1, QuickInvariant, PTL DEF Spec, Isolation
=============================================================================

----------------------------- MODULE MCWgQuick -----------------------------
(***************************************************************************)
(* wg-quick for Android: invocations of up and down for two interfaces, at *)
(* once or one after the other with kills (WgQuick), one configuration     *)
(* file from its lines to the users it selects, and the calls of the DNS   *)
(* resolver (WgQuickConfig).  `part' is what runs; the variables of the    *)
(* others are as they were at the start, or NULL.                          *)
(***************************************************************************)
EXTENDS WgQuick, WgQuickConfig, TLC

CONSTANTS wg1, wg10, lon, nyc, n1, n2, app1, app2, app3

(* Two network ids, and two interfaces: a pair that nothing tells apart, or one
   of whose names starts with the other, so that `lookup wg1' also finds the
   rule of wg10.                                                           *)
Networks == {n1, n2}
Pair == {lon, nyc}
Prefixed == {wg1, wg10}
QuickSymmetry == Permutations(Networks) \cup Permutations(Pair)
MatchesItself == [i \in Pair |-> {i}]
CommentsItself == [i \in Ifaces |-> {i}]
MatchesAsPrefix == [i \in Prefixed |-> IF i = wg1 THEN Prefixed ELSE {i}]

(* All files of up to three lines after an [Interface] header.             *)
L(kind, v) == [k |-> kind, v |-> v]
Addr(six, mask) == [six |-> six, mask |-> mask, quoted |-> FALSE]
Server(ip, quoted) == [ip |-> ip, quoted |-> quoted]

QuickLines == {
    L("section", <<>>), L("interface", <<>>), L("wg", <<>>), L("long", <<>>),
    L("address", <<>>), L("address", <<Addr(FALSE, NULL), Addr(TRUE, 64)>>),
    L("dns", <<Server(TRUE, FALSE), Server(FALSE, FALSE), Server(TRUE, TRUE)>>),
    L("excluded", <<app1>>), L("excluded", <<app3, app2>>), L("included", <<app2, app2>>),
    L("included", <<>>), L("mtu", <<[mtu |-> 1300]>>) }

QuickFiles == UNION {[1 .. m -> QuickLines] : m \in 0 .. 1}
              \cup {<<L("interface", <<>>)>> \o f : f \in UNION {[1 .. m -> QuickLines] : m \in 1 .. 3}}

(* Applications that share a uid, have neighbouring ones, the first, the last,
   the last but one, or none.                                              *)
App(name, uid) == [name |-> name, uid |-> uid]
PackageLists == {<<>>, <<App(app2, 4), App(app1, 2), App(app3, 5)>>,
                 <<App(app3, 2), App(app1, 1), App(app2, 2)>>, <<App(app1, 8), App(app2, 0), App(app3, 9)>>}

Route(mtu, dev) == [mtu |-> mtu, dev |-> dev]

(* An endpoint whose route takes less than the default route, no default route,
   and a default route that takes no more than any.                        *)
QuickHosts == {
    [route |-> [default |-> Route(NULL, "wlan"), v4 |-> Route(1280, NULL), v6 |-> NULL],
     dev |-> [wlan |-> 1500], peers |-> <<"(none)", "v4">>],
    [route |-> [default |-> NULL, v4 |-> Route(1500, NULL), v6 |-> Route(NULL, NULL)],
     dev |-> [wlan |-> NULL], peers |-> <<"v4", "v6">>],
    [route |-> [default |-> Route(NULL, "wlan"), v4 |-> Route(1500, NULL), v6 |-> NULL],
     dev |-> [wlan |-> 1400], peers |-> <<"v4">>] }

VARIABLE part

(* Invocations one after the other: three of which one is killed, and two with a
   kill and a failure.                                                     *)
InTurn == INSTANCE WgQuick WITH MaxRunning <- 1, MaxFail <- 0, MaxKill <- 1
TwoInTurn == INSTANCE WgQuick WITH Procs <- {1, 2}, MaxRunning <- 1, MaxKill <- 1

(* The resolver: one or two servers, with and without a domain.            *)
QuickRequests == [servers : {<<"s1">>, <<"s1", "s2">>}, domains : {<<>>, <<"d1">>}]

ASSUME QuickAssumption == FilesFormed /\ RequestsListed

-----------------------------------------------------------------------------
Parts == {"at once", "in turn", "two in turn", "file", "resolver"}

(* A file or a resolver that does not run. *)
NoFile ==
  /\ phase = "parse" /\ file = <<>> /\ users = <<>> /\ network = NULL
  /\ packages = NULL /\ host = NULL /\ lineno = NULL /\ inInterface = NULL /\ opts = NULL
  /\ uids = NULL /\ nth = NULL /\ start = NULL /\ ranges = NULL /\ args = NULL

NoResolver ==
  /\ doing = "load" /\ held = {} /\ taken = <<>>
  /\ asked = NULL /\ lib = NULL /\ call = NULL /\ parcel = NULL /\ startPos = NULL /\ endPos = NULL
  /\ reply = NULL /\ cache = NULL /\ ndc = NULL

InitOf(parts) ==
  /\ part \in parts
  /\ Init
  /\ IF part = "file" THEN OInit ELSE NoFile
  /\ IF part = "resolver" THEN DInit ELSE NoResolver

Others(p) ==
  /\ UNCHANGED part
  /\ IF p \notin {"at once", "in turn", "two in turn"} THEN UNCHANGED vars ELSE TRUE
  /\ IF p # "file" THEN UNCHANGED ovars ELSE TRUE
  /\ IF p # "resolver" THEN UNCHANGED dvars ELSE TRUE

QuickNext ==
  \/ part = "at once" /\ Next /\ Others("at once")
  \/ part = "in turn" /\ InTurn!Next /\ Others("in turn")
  \/ part = "two in turn" /\ TwoInTurn!Next /\ Others("two in turn")
  \/ part = "file" /\ ONext /\ Others("file")
  \/ part = "resolver" /\ DNext /\ Others("resolver")

quickVars == <<vars, part, ovars, dvars>>

(* The names of the pair are apart, as the proofs about WgQuick assume. *)
QuickInit == Apart /\ InitOf(Parts)

QuickSpec == QuickInit /\ [][QuickNext]_quickVars

PrefixNext == Next /\ Others("at once")

PrefixInit == InitOf({"at once"})

PrefixSpec == PrefixInit /\ [][PrefixNext]_quickVars
=============================================================================

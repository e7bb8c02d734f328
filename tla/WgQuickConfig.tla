--------------------------- MODULE WgQuickConfig ---------------------------
(***************************************************************************)
(* What wg-quick for Android (wg-quick/android.c) makes of its file: the   *)
(* options parse_options takes out of it, the application uids, the ranges *)
(* of users, the MTU and the IPv6 rule, and the calls of the DNS resolver  *)
(* that set the name servers.  WgQuick has the order of the commands, this *)
(* module has their arguments.  The file and the resolver are two          *)
(* specifications, OSpec and DSpec, without a common variable.             *)
(*                                                                         *)
(* A line of the file is [k |-> kind, v |-> tokens].  A list of names is   *)
(* the sequence of its comma-separated tokens; NULL is the pointer that    *)
(* was never set.                                                          *)
(***************************************************************************)
EXTENDS Integers, Sequences, FiniteSets, Functions

CONSTANTS
    NULL,
    Files,      \* configuration files: sequences of lines
    Packages,   \* contents of packages.list: sequences of [name, uid]
    Hosts,      \* [route: answers of `ip route', dev: of `ip link', peers]
    Top,        \* 99999, the last uid of the first user
    Batch       \* 18 ranges per command

VARIABLES file, packages, host,
    phase, lineno, inInterface, opts,   \* parse_options
    uids, nth, start, ranges, args,     \* set_users
    users,                              \* the `network users add' commands
    network                             \* what else was configured

ovars ==
    <<file, packages, host, phase, lineno, inInterface, opts, uids, nth, start, ranges, args, users, network>>

NoOpts == [config |-> NULL, mtu |-> 0, addrs |-> NULL, dnses |-> NULL,
           excluded |-> NULL, included |-> NULL]

(* Before the first line. *)
NothingRead ==
    /\ phase = "parse" /\ lineno = 0 /\ inInterface = FALSE /\ opts = NoOpts
    /\ uids = <<>> /\ nth = 0 /\ start = 0 /\ ranges = <<>> /\ args = 0 /\ users = <<>>
    /\ network = NULL

OInit == file \in Files /\ packages \in Packages /\ host \in Hosts /\ NothingRead

(* Sequences of sequences, one after the other: the first n, and all.      *)
FlatTo(ss, n) ==
    LET flat[m \in 0 .. Len(ss)] == IF m = 0 THEN <<>> ELSE flat[m - 1] \o ss[m]
    IN  flat[n]
Flat(ss) == FlatTo(ss, Len(ss))

(* concat_and_free with a delimiter: NULL becomes the new text.            *)
Joined(orig, new) == IF orig = NULL THEN new ELSE orig \o new

Opt(l, f) == [opts EXCEPT ![f] = Joined(@, l.v)]

Section(l) ==
    CASE l.k = "interface" -> TRUE
      [] l.k = "section" -> FALSE
      [] OTHER -> inInterface

(* The keys wg-quick takes; the tests on the length of the line let an     *)
(* empty value through for the two lists of applications only.             *)
Takes(l) ==
    CASE l.k = "address" /\ l.v # <<>> -> Opt(l, "addrs")
      [] l.k = "dns" /\ l.v # <<>> -> Opt(l, "dnses")
      [] l.k = "excluded" -> Opt(l, "excluded")
      [] l.k = "included" -> Opt(l, "included")
      [] l.k = "mtu" /\ l.v # <<>> -> [opts EXCEPT !.mtu = l.v[1].mtu]
      [] OTHER -> [opts EXCEPT !.config = Joined(@, <<l>>)]

(* One line.  parse_options returns at a line of more than 64 kB.          *)
ParseLine ==
    /\ phase = "parse" /\ lineno < Len(file) /\ file[lineno + 1].k # "long"
    /\ LET l == file[lineno + 1]
       IN  /\ inInterface' = Section(l)
           /\ opts' = IF inInterface' THEN Takes(l)
                      ELSE [opts EXCEPT !.config = Joined(@, <<l>>)]
    /\ lineno' = lineno + 1
    /\ UNCHANGED <<file, packages, host, phase, uids, nth, start, ranges, args, users, network>>

LongLine ==
    /\ phase = "parse" /\ lineno < Len(file) /\ file[lineno + 1].k = "long"
    /\ phase' = "apply"
    /\ UNCHANGED <<file, packages, host, lineno, inInterface, opts, uids, nth, start, ranges, args, users, network>>

OrEmpty(x) == IF x = NULL THEN <<>> ELSE x

ParseEnd ==
    /\ phase = "parse" /\ lineno = Len(file)
    /\ opts' = [opts EXCEPT !.config = OrEmpty(@), !.addrs = OrEmpty(@), !.dnses = OrEmpty(@)]
    /\ phase' = "apply"
    /\ UNCHANGED <<file, packages, host, lineno, inInterface, uids, nth, start, ranges, args, users, network>>

(* set_config's fputs and set_addr's strdup need strings.                  *)
Crash ==
    /\ phase = "apply" /\ NULL \in {opts.config, opts.addrs, opts.dnses}
    /\ phase' = "crashed"
    /\ UNCHANGED <<file, packages, host, lineno, inInterface, opts, uids, nth, start, ranges, args, users, network>>

(***************************************************************************)
(* Addresses, DNS servers, MTU, IPv6                                       *)
(***************************************************************************)
(* add_addr: 32 without a mask, else the low eight bits of the number.     *)
AddAddr(a) == IF a.six \/ a.mask = NULL THEN [a EXCEPT !.mask = IF a.six THEN @ ELSE 32]
              ELSE [a EXCEPT !.mask = @ % 256]

Quoted(t) == t.quoted
set_addr(addrs) == LET kept == SelectSeq(addrs, LAMBDA a : ~Quoted(a))
                   IN  [j \in DOMAIN kept |-> AddAddr(kept[j])]

(* set_dnses: two passes, the first to size the arrays.                    *)
DnsPass(dnses, ip) == SelectSeq(dnses, LAMBDA t : ~Quoted(t) /\ t.ip = ip)

set_dnses(dnses) ==
    IF DnsPass(dnses, TRUE) = <<>> THEN NULL
    ELSE [servers |-> DnsPass(dnses, TRUE), domains |-> DnsPass(dnses, FALSE)]

(* get_route_mtu: the MTU of the route, or else of its device.             *)
GetRouteMtu(h, endpoint) ==
    LET r == h.route[endpoint]
    IN  CASE r = NULL -> -1
          [] r # NULL /\ r.mtu # NULL -> r.mtu
          [] r # NULL /\ r.mtu = NULL /\ r.dev # NULL /\ h.dev[r.dev] # NULL -> h.dev[r.dev]
          [] OTHER -> -1

(* `wg show endpoints' prints key, tab, endpoint and newline for a peer.   *)
EndpointLines(h) == [j \in DOMAIN h.peers |-> <<"key", "tab", h.peers[j], "newline">>]

(* "^\[?([a-z0-9:.]+)\]?:[0-9]+$" is matched against the whole line.       *)
MatchesEndpoint(l) == Len(l) = 1

(* The least MTU of the default route and of the routes to the endpoints. *)
set_mtu(h, mtu) ==
    LET default == IF GetRouteMtu(h, "default") = -1 THEN 1500 ELSE GetRouteMtu(h, "default")
        matched == {l \in Range(EndpointLines(h)) : MatchesEndpoint(l)}
        lower == {default} \cup {m \in {GetRouteMtu(h, l[1]) : l \in matched} : m > 0}
    IN  IF mtu # 0 THEN mtu ELSE (CHOOSE m \in lower : \A x \in lower : m <= x) - 80

(* should_block_ipv6: some endpoint is known, and none is IPv6.            *)
ShouldBlockIpv6(h) ==
    /\ \A j \in DOMAIN h.peers : h.peers[j] # "v6"
    /\ \E j \in DOMAIN h.peers : h.peers[j] # "(none)"

(* The array get_uid_list allocates, terminator included.                  *)
Allocated(selected) == IF selected = NULL THEN 1 ELSE Len(selected) + 1

(* get_uid_list: the uid of a package for every token that names it, sorted. *)
Matches(selected) ==
    {m \in (DOMAIN packages) \X (DOMAIN OrEmpty(selected)) :
        packages[m[1]].uid # 0 /\ packages[m[1]].name = selected[m[2]]}

GetUidList(selected) ==
    \E n \in 0 .. Len(packages) * Len(OrEmpty(selected)) :
        /\ n = Cardinality(Matches(selected))
        /\ \E match \in Bijection(1 .. n, Matches(selected)) :
            /\ uids' = [j \in 1 .. n |-> packages[match[j][1]].uid]
            /\ \A a, b \in 1 .. n : a < b => uids'[a] <= uids'[b]

(* What the constants stand for: lines have lists of tokens, which no null pointer
   is; a package is listed once, and its uid is one of the first user; a route's
   MTU is a number.                                                        *)
Lines == UNION {Range(f) : f \in Files}
Texts == Lines \cup (UNION {Range(l.v) : l \in Lines})
FilesFormed ==
    /\ Batch \in Nat \ {0} /\ Top \in Nat \ {0} /\ NULL \notin Seq(Texts)
    /\ \A f \in Files :
        f \in Seq(Range(f)) /\ \A j \in DOMAIN f : f[j].v \in Seq(Range(f[j].v))
    /\ \A ps \in Packages :
        /\ ps \in Seq(Range(ps)) /\ \A a \in DOMAIN ps : ps[a].uid \in 0 .. Top
        /\ \A a, b \in DOMAIN ps : ps[a].name = ps[b].name => a = b
    /\ \A h \in Hosts : GetRouteMtu(h, "default") \in Int

Blacklist == opts.excluded # NULL \/ opts.included = NULL

(* The calls of cmd_up up to set_users, which refuses two lists.           *)
Apply ==
    /\ phase = "apply" /\ NULL \notin {opts.config, opts.addrs, opts.dnses}
    /\ network' = [addrs |-> set_addr(opts.addrs), dns |-> set_dnses(opts.dnses), mtu |-> set_mtu(host, opts.mtu),
                   drop6 |-> ShouldBlockIpv6(host)]
    /\ IF opts.excluded # NULL /\ opts.included # NULL
       THEN phase' = "refused" /\ UNCHANGED uids
       ELSE phase' = "users" /\ GetUidList(IF Blacklist THEN opts.excluded ELSE opts.included)
    /\ UNCHANGED <<file, packages, host, lineno, inInterface, opts, nth, start, ranges, args, users>>

(* A range is added; every Batch-th one sends what has been gathered.      *)
Adds(range) ==
    /\ args' = args + 1
    /\ IF args' % Batch = 0
       THEN users' = Append(users, Append(ranges, range)) /\ ranges' = <<>>
       ELSE ranges' = Append(ranges, range) /\ UNCHANGED users

MutExcludedUid ==
    /\ phase = "users" /\ Blacklist /\ nth < Len(uids)
    /\ IF start >= uids[nth + 1] - 1 THEN UNCHANGED <<args, users, ranges>>
       ELSE Adds(<<start, uids[nth + 1] - 1>>)
    /\ start' = uids[nth + 1] + 1
    /\ nth' = nth + 1
    /\ UNCHANGED <<file, packages, host, phase, lineno, inInterface, opts, uids, network>>

(* The complement of the sorted list, one uid at a time.                   *)
ExcludedUid ==
    /\ phase = "users" /\ Blacklist /\ nth < Len(uids)
    /\ IF start > uids[nth + 1] - 1 THEN UNCHANGED <<args, users, ranges>>
       ELSE Adds(<<start, uids[nth + 1] - 1>>)
    /\ start' = uids[nth + 1] + 1
    /\ nth' = nth + 1
    /\ UNCHANGED <<file, packages, host, phase, lineno, inInterface, opts, uids, network>>

IncludedUid ==
    /\ phase = "users" /\ ~Blacklist /\ nth < Len(uids)
    /\ Adds(<<uids[nth + 1], uids[nth + 1]>>)
    /\ nth' = nth + 1
    /\ UNCHANGED <<file, packages, host, phase, lineno, inInterface, opts, uids, start, network>>

(* The last range of the complement, and what is left to send.             *)
UsersEnd ==
    /\ phase = "users" /\ nth = Len(uids)
    /\ LET left == IF Blacklist /\ start < Top THEN Append(ranges, <<start, Top>>) ELSE ranges
       IN  users' = IF left = <<>> THEN users ELSE Append(users, left)
    /\ ranges' = <<>> /\ phase' = "up"
    /\ UNCHANGED <<file, packages, host, lineno, inInterface, opts, uids, nth, start, args, network>>

ONext == ParseLine \/ LongLine \/ ParseEnd \/ Crash \/ Apply \/ ExcludedUid \/ IncludedUid \/ UsersEnd

OSpec == OInit /\ [][ONext]_ovars

(***************************************************************************)
(* Properties of the file                                                  *)
(***************************************************************************)
Short == \A j \in DOMAIN file : file[j].k # "long"

(* The lines of the [Interface] sections: those whose last header, if any, *)
(* is one.                                                                 *)
InInterface(j) ==
    \E h \in 1 .. j : file[h].k = "interface" /\ \A m \in h + 1 .. j : file[m].k # "section"

Asked(kind) == [j \in DOMAIN file |-> IF file[j].k = kind /\ InInterface(j) THEN file[j].v ELSE <<>>]

Known == {"address", "dns", "excluded", "included", "mtu"}
Lists == {"excluded", "included"}
KeptBack(j) == InInterface(j) /\ file[j].k \in Known /\ (file[j].v # <<>> \/ file[j].k \in Lists)
LeftToWg == [j \in DOMAIN file |-> IF KeptBack(j) THEN <<>> ELSE <<file[j]>>]

(* parse_options hands the keys of the [Interface] sections that wg-quick  *)
(* knows to wg-quick, in the order of the file however often they are      *)
(* given, and every other line to wg, also keys of the same name in other  *)
(* sections; every string it promises is there.                            *)
SplitsTheFile ==
    Short =>
        /\ phase # "crashed"
        /\ phase # "parse" =>
            /\ opts.addrs = Flat(Asked("address")) /\ opts.dnses = Flat(Asked("dns"))
            /\ OrEmpty(opts.excluded) = Flat(Asked("excluded"))
            /\ OrEmpty(opts.included) = Flat(Asked("included"))
            /\ opts.config = Flat(LeftToWg)

Selected == IF Blacklist THEN opts.excluded ELSE opts.included
UidsOf(names) == {p.uid : p \in {q \in Range(packages) : q.uid # 0 /\ q.name \in Range(OrEmpty(names))}}
Covered == UNION {r[1] .. r[2] : r \in UNION {Range(users[j]) : j \in DOMAIN users}}

(* The last uid would be a range of its own after the excluded one before  *)
(* it; set_users compares with `<' and leaves it out.                      *)
LeftOut == IF Top - 1 \in UidsOf(opts.excluded) THEN {Top} ELSE {}

(* The ranges set_users sends are exactly the users the file asks for:     *)
(* all but the excluded applications, or the included ones, also when      *)
(* applications share a uid or have neighbouring ones.  The one exception  *)
(* is the last uid, which is missing if the last but one is excluded.      *)
UsersAsAsked ==
    phase = "up" =>
        Covered = IF Blacklist THEN 0 .. Top \ (UidsOf(opts.excluded) \cup LeftOut)
                  ELSE UidsOf(opts.included)

(* No command of set_users is without users or has more than eighteen      *)
(* ranges, the one that takes the last range of the complement included.   *)
BatchesFit == \A j \in DOMAIN users : Len(users[j]) \in 1 .. Batch

(* get_uid_list never writes past the array it sized by counting commas,   *)
(* and leaves the zero that ends it.                                       *)
UidsFit == phase \in {"users", "up"} => Len(uids) < Allocated(Selected)

(* The addresses and name servers of the [Interface] sections are set, in  *)
(* the order of the file and but for those with a quote in them; the       *)
(* listen port stays open to IPv6 if an endpoint is IPv6 or none is known  *)
(* (set_addr, set_dnses, should_block_ipv6).                               *)
SetsWhatIsAsked ==
    network # NULL =>
        /\ Short => /\ network.addrs = set_addr(Flat(Asked("address")))
                    /\ network.dns = set_dnses(Flat(Asked("dns")))
        /\ Range(host.peers) \subseteq {"(none)"} \/ "v6" \in Range(host.peers) => ~network.drop6

DefaultMtu(h) == IF GetRouteMtu(h, "default") = -1 THEN 1500 ELSE GetRouteMtu(h, "default")

(* The route to some endpoint takes less than the default route.           *)
EndpointLower(h) ==
    \E e \in Range(h.peers) \ {"(none)"} : GetRouteMtu(h, e) > 0 /\ GetRouteMtu(h, e) < DefaultMtu(h)

(* Without an MTU in the file the interface gets that of the default route *)
(* less the overhead, and 1420 if that cannot be found out (set_mtu).  For *)
(* hosts on which no endpoint's route takes less: there the manual asks    *)
(* for the lower MTU, and set_mtu never finds it.                          *)
MtuOfDefaultRoute ==
    network # NULL /\ opts.mtu = 0 /\ ~EndpointLower(host) => network.mtu + 80 = DefaultMtu(host)

(* parse_options hands the keys of the [Interface] sections that wg-quick  *)
(* knows to wg-quick, in the order of the file, and every other line to    *)
(* wg; the addresses and name servers are set as the file has them; the    *)
(* ranges set_users sends are exactly the users the file asks for, but for *)
(* the last uid after an excluded last but one, also when applications     *)
(* share a uid or have neighbouring ones, in commands neither empty nor    *)
(* longer than a batch, and get_uid_list stays inside the array it sized   *)
(* by counting commas; without an MTU, and if no endpoint's route takes    *)
(* less, the interface gets that of the default route less the overhead,   *)
(* or 1420 (set_mtu).                                                      *)
DoesWhatTheFileSays ==
    SplitsTheFile /\ UsersAsAsked /\ BatchesFit /\ UidsFit /\ SetsWhatIsAsked /\ MtuOfDefaultRoute

-----------------------------------------------------------------------------
(***************************************************************************)
(* The binder client: load_symbols, dnsresolver_get_handle, the two        *)
(* transactions, and what set_dnses does with them.  Every call into       *)
(* libbinder_ndk may fail; the objects it hands out (the binder, two       *)
(* parcels, a status) are released by cleanup attributes when a function   *)
(* returns.  A parcel is the sequence of its words and a position; the     *)
(* parcelable starts with its own size, which is written once the rest is. *)
(***************************************************************************)
CONSTANTS
    Requests,   \* DNS servers and search domains of a file
    NetId       \* the network

VARIABLES
    asked,      \* one of Requests
    lib,        \* "none", "loaded"
    doing,      \* the function that runs, or how it all ended
    call,       \* the call of the transaction that is next
    parcel,     \* [data: words, pos: position] of parcel_in
    startPos,   \* start_position
    endPos,     \* end_position
    held,       \* objects that are not released
    reply,      \* whether the status in the reply is fine
    cache,      \* the resolver has a cache for NetId
    taken,      \* configurations the resolver has taken
    ndc         \* configurations ndc has taken

dvars == <<asked, lib, doing, call, parcel, startPos, endPos, held, reply, cache, taken, ndc>>

NoParcel == [data |-> <<>>, pos |-> 0]

(* Servers and domains are in lists. *)
RequestsListed ==
    \A r \in Requests : r.servers \in Seq(Range(r.servers)) /\ r.domains \in Seq(Range(r.domains))

(* Before set_dnses. *)
NothingSet ==
    /\ lib = "none" /\ doing = "load" /\ call = 0 /\ parcel = NoParcel
    /\ startPos = 0 /\ endPos = 0
    /\ held = {} /\ reply = TRUE
    /\ cache = FALSE /\ taken = <<>> /\ ndc = <<>>

DInit == asked \in Requests /\ NothingSet

(* load_symbols, before main: no library, all of it, or exit.              *)
LoadSymbols ==
    /\ doing = "load"
    /\ \/ lib' = "none" /\ doing' = "handle"
       \/ lib' = "loaded" /\ doing' = "handle"
       \/ lib' = "loaded" /\ doing' = "exit"
    /\ UNCHANGED <<asked, call, parcel, startPos, endPos, held, reply, cache, taken, ndc>>

(* dnsresolver_get_handle: NULL without the library or the service, and    *)
(* when the class cannot be defined or associated, the service released.   *)
GetHandle ==
    /\ doing = "handle"
    /\ \/ doing' = "ndc" /\ UNCHANGED held
       \/ lib = "loaded" /\ doing' = "create" /\ held' = held \cup {"binder"}
    /\ call' = 1
    /\ UNCHANGED <<asked, lib, parcel, startPos, endPos, reply, cache, taken, ndc>>

(***************************************************************************)
(* The calls of the two transactions, in order.  A write has the words it  *)
(* writes; an array is its length and its elements.                        *)
(***************************************************************************)
Int32(v) == [op |-> "write", words |-> <<v>>]
Array(s) == [op |-> "write", words |-> <<Len(s)>> \o s]
Op(name) == [op |-> name, words |-> <<>>]

CreateCalls == <<Op("prepare"), Int32(NetId), Op("transact"), Op("read")>>

(* Between the places of the start and of the end: the network, the sample validity,
   success threshold, least and most samples, timeout and retries, the lists.  *)
SetCalls ==
    <<Op("prepare"), Int32("1"), Op("start"), Int32("0"),
      Int32(NetId), Int32("1800"), Int32("25"), Int32("8"), Int32("8"), Int32("5000"), Int32("2"),
      Array(asked.servers), Array(asked.domains), Array(<<>>), Array(<<>>), Array(<<>>),
      Op("end"), Op("seekStart"), Op("patch"), Op("seekEnd"), Op("transact"), Op("read")>>

Calls == IF doing = "create" THEN CreateCalls ELSE SetCalls
Call == Calls[call]

(* Writing replaces the words at the position and extends the parcel.      *)
Writes(words) ==
    LET keep == SubSeq(parcel.data, 1, parcel.pos)
        tail == SubSeq(parcel.data, parcel.pos + Len(words) + 1, Len(parcel.data))
    IN  [data |-> keep \o words \o tail, pos |-> parcel.pos + Len(words)]

InCall == doing \in {"create", "configure"}

(* The cleanup attributes of a function release what it still holds.       *)
Returns(next) == held' = held \cap {"binder"} /\ doing' = next /\ call' = 1 /\ parcel' = NoParcel

(* A status other than STATUS_OK: the function returns it and set_dnses    *)
(* exits.                                                                  *)
CallFails ==
    /\ InCall /\ Call.op \notin {"start", "end"}
    /\ Returns("exit")
    /\ UNCHANGED <<asked, lib, startPos, endPos, reply, cache, taken, ndc>>

Prepare ==
    /\ InCall /\ Call.op = "prepare"
    /\ held' = held \cup {"in"} /\ parcel' = NoParcel /\ call' = call + 1
    /\ UNCHANGED <<asked, lib, doing, startPos, endPos, reply, cache, taken, ndc>>

Write ==
    /\ InCall /\ Call.op = "write"
    /\ parcel' = Writes(Call.words) /\ call' = call + 1
    /\ UNCHANGED <<asked, lib, doing, startPos, endPos, held, reply, cache, taken, ndc>>

(* The size of the parcelable goes where 0 was written for it.             *)
Patch ==
    /\ InCall /\ Call.op \in {"start", "end", "seekStart", "patch", "seekEnd"}
    /\ startPos' = IF Call.op = "start" THEN parcel.pos ELSE startPos
    /\ endPos' = IF Call.op = "end" THEN parcel.pos ELSE endPos
    /\ parcel' = CASE Call.op = "seekStart" -> [parcel EXCEPT !.pos = startPos]
                   [] Call.op = "patch" -> Writes(<<endPos - startPos>>)
                   [] Call.op = "seekEnd" -> [parcel EXCEPT !.pos = endPos]
                   [] OTHER -> parcel
    /\ call' = call + 1
    /\ UNCHANGED <<asked, lib, doing, held, reply, cache, taken, ndc>>

(* The resolver handles the parcel, which is its own from then on.         *)
Transact ==
    /\ InCall /\ Call.op = "transact"
    /\ held' = (held \ {"in"}) \cup {"out"}
    /\ reply' \in BOOLEAN
    /\ cache' = (cache \/ (doing = "create" /\ reply'))
    /\ taken' = IF doing = "configure" /\ reply' THEN Append(taken, parcel.data) ELSE taken
    /\ call' = call + 1
    /\ UNCHANGED <<asked, lib, doing, parcel, startPos, endPos, ndc>>

MutReadStatus ==
    /\ InCall /\ Call.op = "read"
    /\ Returns(IF doing = "create" THEN "configure" ELSE "set")
    /\ UNCHANGED <<asked, lib, startPos, endPos, reply, cache, taken, ndc>>

(* The status in the reply, which meaningful_binder_status turns into an   *)
(* error whatever kind of exception it is.                                 *)
ReadStatus ==
    /\ InCall /\ Call.op = "read"
    /\ Returns(IF ~reply THEN "exit" ELSE IF doing = "create" THEN "configure" ELSE "set")
    /\ UNCHANGED <<asked, lib, startPos, endPos, reply, cache, taken, ndc>>

(* Without a handle: ndc resolver setnetdns, or exit.                      *)
Ndc ==
    /\ doing = "ndc"
    /\ \/ ndc' = Append(ndc, <<asked.servers, asked.domains>>) /\ doing' = "set"
       \/ doing' = "exit" /\ UNCHANGED ndc
    /\ UNCHANGED <<asked, lib, call, parcel, startPos, endPos, held, reply, cache, taken>>

(* set_dnses returns: its handle is released (exit() runs no cleanup).     *)
Done ==
    /\ doing = "set"
    /\ doing' = "done"
    /\ held' = {}
    /\ UNCHANGED <<asked, lib, call, parcel, startPos, endPos, reply, cache, taken, ndc>>

DNext == LoadSymbols \/ GetHandle \/ CallFails \/ Prepare \/ Write \/ Patch \/ Transact \/ ReadStatus
         \/ Ndc \/ Done

DSpec == DInit /\ [][DNext]_dvars

(***************************************************************************)
(* Properties of the resolver                                              *)
(***************************************************************************)
(* When set_dnses returns, the servers and domains of the file were set    *)
(* exactly once, through the resolver or through ndc, the resolver's cache *)
(* was created before, and every object is released.                       *)
SetOnce ==
    doing = "done" =>
        /\ Len(taken) + Len(ndc) = 1
        /\ taken # <<>> => cache
        /\ held = {}

(* The fields of ResolverParamsParcel: a list is its length and its elements.   *)
Counted(s) == <<Len(s)>> \o s
Parcelable ==
    <<NetId, "1800", "25", "8", "8", "5000", "2">> \o Counted(asked.servers) \o Counted(asked.domains)
    \o Counted(<<>>) \o Counted(<<>>) \o Counted(<<>>)

(* What the resolver takes is a whole parcelable: the presence word, then  *)
(* a size that counts every word from itself to the end, then the fields   *)
(* in order (dnsresolver_set_resolver_configuration).                      *)
ParcelIsWhole ==
    \A j \in DOMAIN taken :
        LET p == taken[j]
        IN  p[1] = "1" /\ p[2] = Len(p) - 1 /\ SubSeq(p, 3, Len(p)) = Parcelable

(* Whichever call fails, a transaction leaves no parcel or status behind.  *)
LeavesNoParcel == ~InCall \/ call = 1 => held \subseteq {"binder"}

(* When set_dnses returns, the servers and domains of the file were set    *)
(* exactly once, through the resolver or through ndc, whichever call of    *)
(* the resolver failed; what the resolver took was a whole parcelable, its *)
(* size counting every word from itself to the end; and no parcel or       *)
(* status is left behind (dnsresolver_set_resolver_configuration, the      *)
(* macros that clean up).                                                  *)
DnsSetOnce == SetOnce /\ ParcelIsWhole /\ LeavesNoParcel
=============================================================================

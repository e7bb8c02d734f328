------------------------------ MODULE WgProofs ------------------------------
(***************************************************************************)
(* Proofs about the commands of wg: the resolution of an endpoint, the     *)
(* commands that make keys, the listing of interfaces, the calls by which  *)
(* a device is read and set on FreeBSD, and the list of names of ipc.c.    *)
(***************************************************************************)
EXTENDS EndpointResolution, KeyCommands, DeviceList, FreeBsdIpc, TLAPS

(***************************************************************************)
(* EndpointResolution                                                      *)
(***************************************************************************)
(* What is left of the retries and what was tried add up to the setting, as
   long as the loop of parse_endpoint runs; without end nothing is counted. *)
Adds ==
  /\ ~BadSetting
  /\ setting.env = "infinity" => retries < 0
  /\ setting.env # "infinity" => retries >= 0 /\ attempts + retries = parse_dns_retries

EndpointInv ==
  /\ setting \in Environments /\ retries \in Int /\ attempts \in Nat
  /\ stage = "begin" => attempts = 0 /\ heap = {}
  /\ stage \in {"try", "sleep"} => Adds /\ heap = {"mutable"}
  /\ stage = "resolved" => heap = {"mutable", "resolved"}
  /\ stage = "failed" /\ why = "transient" =>
       setting.env # "infinity" /\ attempts = parse_dns_retries + 1
  /\ stage \in {"ok", "failed"} => heap = {}

\* The invariant of parse_endpoint holds at the start.
LEMMA EndpointInit == EInit => EndpointInv
BY DEF EInit, EndpointInv

\* Every step of parse_endpoint preserves it.
LEMMA EndpointNext ==
  ASSUME SettingsCounted, EndpointInv, [ENext]_evars
  PROVE  EndpointInv'
<1>s. /\ IntMax \in Nat /\ AttemptCap \in Nat /\ AttemptCap > 15
      /\ setting.n \in Nat /\ (setting.n <= IntMax => setting.n < AttemptCap)
      /\ setting.env \in {"number", "unset", "infinity", "bad"}
  BY DEF EndpointInv, SettingsCounted
<1>k. ASSUME stage \in {"try", "sleep"}, setting.env # "infinity"
      PROVE  /\ parse_dns_retries \in Nat /\ parse_dns_retries < AttemptCap
             /\ attempts < AttemptCap
  BY <1>k, <1>s DEF EndpointInv, Adds, parse_dns_retries, BadSetting
<1>c. ASSUME Count PROVE attempts' \in Nat /\ (attempts < AttemptCap => attempts' = attempts + 1)
  BY <1>c, <1>s DEF Count, EndpointInv
<1>1. CASE UNCHANGED evars
  BY <1>1 DEF evars, EndpointInv, Adds, BadSetting, parse_dns_retries
<1>2. CASE Begin
  BY <1>2, <1>s DEF Begin, EndpointInv, Adds, BadSetting, parse_dns_retries
<1>3. CASE Resolve
  BY <1>3, <1>c DEF Resolve, EndpointInv, parse_dns_retries
<1>4. CASE FailPermanently
  BY <1>4, <1>c DEF FailPermanently, EndpointInv, parse_dns_retries
<1>5. CASE FailForNow
  BY <1>5, <1>c, <1>k, <1>s
     DEF FailForNow, EndpointInv, Adds, BadSetting, parse_dns_retries
<1>6. CASE Sleep
  BY <1>6 DEF Sleep, EndpointInv, Adds, BadSetting, parse_dns_retries
<1>7. CASE Take
  BY <1>7 DEF Take, EndpointInv, parse_dns_retries
<1> QED  BY <1>1, <1>2, <1>3, <1>4, <1>5, <1>6, <1>7 DEF ENext

(* wg gives up on passing failures of the resolver after exactly one attempt more
   than the retries that are set, whatever the setting, and not at all when it is
   infinity; and parse_endpoint frees its copy and the resolver's answer on every
   way out.                                                                  *)
THEOREM EndpointRetries ==
  ASSUME SettingsCounted
  PROVE  ESpec => [](RetriesAsOften /\ FreesAll)
<1>1. EndpointInv => RetriesAsOften /\ FreesAll
  <2> SUFFICES ASSUME EndpointInv PROVE RetriesAsOften /\ FreesAll
    OBVIOUS
  <2>1. ASSUME stage \in {"try", "sleep"}, setting.env # "infinity"
        PROVE  attempts <= parse_dns_retries + 1
    BY <2>1 DEF EndpointInv, Adds, SettingsCounted, parse_dns_retries
  <2> QED  BY <2>1 DEF EndpointInv, RetriesAsOften, FreesAll
<1>2. EndpointInv /\ [ENext]_evars => EndpointInv'
  BY EndpointNext
<1> QED  BY <1>1, <1>2, EndpointInit, PTL DEF ESpec

(***************************************************************************)
(* KeyCommands                                                             *)
(***************************************************************************)
(* What the sources of randomness have filled: the bytes that read() counted are
   random, and a key that counts as filled is random throughout.            *)
Filled ==
  /\ cmd \in {"genkey", "genpsk", "library"}
  /\ step \in {"getentropy", "getrandom", "open", "read", "filled", "done"}
  /\ i \in Nat /\ i <= KeyLen
  /\ DOMAIN out = Indices /\ out = [k \in Indices |-> out[k]]
  /\ \A k \in Indices : k <= i => out[k] = "random"
  /\ step \in {"getentropy", "getrandom", "open"} => i = 0 /\ ~fd
  /\ step = "read" => cmd = "library" \/ errno # "EOLD"
  /\ step = "filled" \/ outcome = "key" => out = Random
  /\ step # "done" => outcome = "none"
  /\ outcome = "error" => errno \notin {"0", "EOLD"} /\ ~fd

(* pubkey has read the text of a key and after it only blanks, m characters. *)
ReadTo(m) ==
  /\ m \in Nat /\ TextLen <= m /\ m <= Len(input)
  /\ text = SubSeq(input, 1, TextLen)
  /\ stdin = SubSeq(input, m + 1, Len(input))
  /\ \A n \in 1 .. Len(input) : TextLen < n /\ n <= m => input[n] = "blank"

Piped ==
  /\ cmd = "pubkey" /\ step \in {"fread", "trailing", "decode", "done"}
  /\ input \in Seq({"key", "blank", "other"})
  /\ step = "fread" => stdin = input /\ outcome = "none"
  /\ step = "trailing" => outcome = "none" /\ \E m \in Nat : ReadTo(m)
  /\ step = "decode" => ReadTo(Len(input))
  /\ step = "done" => OneKeyAndBlanks

KeysInv == Filled \/ Piped


\* The invariant of the key commands holds at the start.
LEMMA KeysInit == ASSUME InputsRead, KInit PROVE KeysInv
<1>1. KeyLen \in Nat  BY DEF InputsRead
<1>2. CASE cmd = "pubkey"
  BY <1>2 DEF KInit, InputsRead, KeysInv, Piped
<1>3. CASE cmd # "pubkey"
  <2>1. DOMAIN out = Indices /\ out = [k \in Indices |-> out[k]]
    BY DEF KInit, Old
  <2>2. \A k \in Indices : ~(k <= i)
    BY DEF KInit, Indices
  <2> QED  BY <1>1, <1>3, <2>1, <2>2 DEF KInit, KeysInv, Filled
<1> QED  BY <1>2, <1>3

(* genkey, genpsk and the library. *)
LEMMA FilledNext == ASSUME KeyLen \in Nat, Filled, [KNext]_kvars PROVE Filled'
<1>1. CASE UNCHANGED kvars \/ Done
  BY <1>1 DEF kvars, Done, Filled
<1>2. CASE GetEntropy
  <2>1. CASE out' = Random
    <3>1. DOMAIN out' = Indices /\ out' = [k \in Indices |-> out'[k]]
          /\ \A k \in Indices : out'[k] = "random"
      BY <2>1 DEF Random
    <3> QED  BY <1>2, <2>1, <3>1 DEF GetEntropy, Unread, Filled
  <2>2. CASE UNCHANGED out
    BY <1>2, <2>2 DEF GetEntropy, Unread, Filled
  <2> QED  BY <1>2, <2>1, <2>2 DEF GetEntropy
<1>3. CASE GetRandom
  <2>1. ASSUME NEW n \in Indices,
               out' = [k \in Indices |-> IF k =< n THEN "random" ELSE out[k]],
               step' = IF n = KeyLen THEN "filled" ELSE "open", UNCHANGED errno
        PROVE  Filled'
    <3>1. DOMAIN out' = Indices /\ out' = [k \in Indices |-> out'[k]]
      BY <2>1
    <3>2. n = KeyLen => out' = Random
      BY <2>1 DEF Random, Indices
    <3>3. i' = 0 /\ \A k \in Indices : ~(k <= i')
      BY <1>3 DEF GetRandom, Filled, Indices
    <3> QED  BY <1>3, <2>1, <3>1, <3>2, <3>3 DEF GetRandom, Unread, Filled
  <2>2. CASE errno' = "ENOSYS" /\ step' = "open" /\ UNCHANGED out
    BY <1>3, <2>2 DEF GetRandom, Unread, Filled
  <2> QED  BY <1>3, <2>1, <2>2 DEF GetRandom
<1>4. CASE Open
  BY <1>4 DEF Open, Unread, Fails, Filled
<1>5. CASE ReadSome
  <2>1. PICK n \in 1 .. KeyLen - i :
          /\ out' = [k \in Indices |-> IF k \in i + 1 .. i + n THEN "random" ELSE out[k]]
          /\ i' = i + n
    BY <1>5 DEF ReadSome
  <2>2. DOMAIN out' = Indices /\ out' = [k \in Indices |-> out'[k]]
    BY <2>1
  <2>3. i' \in Nat /\ i' <= KeyLen /\ \A k \in Indices : k <= i' => out'[k] = "random"
    BY <2>1 DEF Filled, Indices
  <2> QED  BY <1>5, <2>2, <2>3 DEF ReadSome, Unread, Filled
<1>6. CASE ReadFails
  BY <1>6 DEF ReadFails, Unread, Filled
<1>7. CASE ReadAll
  <2>1. out = Random
    BY <1>7 DEF ReadAll, Filled, Random, Indices
  <2> QED  BY <1>7, <2>1 DEF ReadAll, Unread, Filled
<1>8. CASE Print_key
  BY <1>8 DEF Print_key, Unread, Filled
<1>9. CASE FRead \/ Trailing \/ Decode
  BY <1>9 DEF FRead, Trailing, Decode, Filled
<1> QED  BY <1>1, <1>2, <1>3, <1>4, <1>5, <1>6, <1>7, <1>8, <1>9 DEF KNext

\* Two lists as long as each other with the same elements are one.
LEMMA ListsAgree ==
  ASSUME NEW S, NEW s \in Seq(S), NEW t \in Seq(S), Len(s) = Len(t), \A n \in 1 .. Len(s) : s[n] = t[n]
  PROVE  s = t
OBVIOUS

(* pubkey. *)
LEMMA PipedNext ==
  ASSUME TextLen \in Nat, Piped, [KNext]_kvars PROVE Piped'
<1>t. input \in Seq({"key", "blank", "other"}) /\ Len(input) \in Nat
  BY DEF Piped
<1>1. CASE UNCHANGED kvars \/ Done
  BY <1>1 DEF kvars, Done, Piped, ReadTo, OneKeyAndBlanks
<1>2. CASE FRead
  <2>1. CASE Len(stdin) < TextLen
    BY <1>2, <1>t, <2>1 DEF FRead, Piped, OneKeyAndBlanks
  <2>2. CASE ~(Len(stdin) < TextLen)
    <3>1. ReadTo(TextLen)'
      BY <1>2, <1>t, <2>2 DEF FRead, Piped, ReadTo
    <3> QED  BY <1>2, <1>t, <2>2, <3>1 DEF FRead, Piped
  <2> QED  BY <2>1, <2>2
<1>3. CASE Trailing
  <2>0. PICK m \in Nat : ReadTo(m)
    BY <1>3 DEF Trailing, Piped
  <2>l. /\ stdin \in Seq({"key", "blank", "other"}) /\ Len(stdin) = Len(input) - m
        /\ stdin # <<>> => /\ m < Len(input) /\ Head(stdin) = input[m + 1]
                           /\ Tail(stdin) = SubSeq(input, m + 2, Len(input))
        /\ stdin = <<>> => m = Len(input)
    <3>1. m <= Len(input) /\ stdin = SubSeq(input, m + 1, Len(input))
      BY <2>0 DEF ReadTo
    <3>2. stdin \in Seq({"key", "blank", "other"}) /\ Len(stdin) = Len(input) - m
          /\ \A n \in 1 .. Len(stdin) : stdin[n] = input[m + n]
      BY <1>t, <3>1
    <3>3. ASSUME stdin # <<>>
          PROVE  m < Len(input) /\ Head(stdin) = input[m + 1]
                 /\ Tail(stdin) = SubSeq(input, m + 2, Len(input))
      <4>1. Len(stdin) > 0 /\ Head(stdin) = stdin[1]
        BY <3>2, <3>3
      <4>2. /\ Tail(stdin) \in Seq({"key", "blank", "other"}) /\ Len(Tail(stdin)) = Len(input) - (m + 1)
            /\ \A n \in 1 .. Len(Tail(stdin)) : Tail(stdin)[n] = stdin[n + 1]
        BY <3>2, <4>1
      <4>3. /\ SubSeq(input, m + 2, Len(input)) \in Seq({"key", "blank", "other"})
            /\ Len(SubSeq(input, m + 2, Len(input))) = Len(input) - (m + 1)
            /\ \A n \in 1 .. Len(input) - (m + 1) : SubSeq(input, m + 2, Len(input))[n] = input[m + 1 + n]
        BY <1>t, <3>2, <4>1
      <4>5. /\ Len(Tail(stdin)) = Len(SubSeq(input, m + 2, Len(input)))
            /\ \A n \in 1 .. Len(Tail(stdin)) : Tail(stdin)[n] = SubSeq(input, m + 2, Len(input))[n]
        <5>1. ASSUME NEW n \in 1 .. Len(Tail(stdin))
              PROVE  Tail(stdin)[n] = SubSeq(input, m + 2, Len(input))[n]
          <6>0. n \in 1 .. Len(input) - (m + 1) /\ Len(stdin) = Len(input) - m /\ Len(input) \in Nat
            BY <1>t, <3>2, <4>2, Zenon
          <6>1. n + 1 \in 1 .. Len(stdin) /\ m + (n + 1) = m + 1 + n /\ n \in 1 .. Len(input) - (m + 1)
            BY <6>0
          <6>2. Tail(stdin)[n] = stdin[n + 1]  BY <4>2
          <6>3. stdin[n + 1] = input[m + (n + 1)]  BY <3>2, <6>1, Zenon
          <6>4. SubSeq(input, m + 2, Len(input))[n] = input[m + 1 + n]  BY <4>3, <6>1, Zenon
          <6> QED  BY <6>1, <6>2, <6>3, <6>4, Zenon
        <5> QED  BY <4>2, <4>3, <5>1, Zenon
      <4>4. Tail(stdin) = SubSeq(input, m + 2, Len(input))
        BY <4>2, <4>3, <4>5, ListsAgree, Zenon
      <4> QED  BY <3>2, <4>1, <4>4
    <3>4. stdin = <<>> => m = Len(input)
      BY <1>t, <3>2
    <3> QED  BY <3>2, <3>3, <3>4
  <2>1. CASE stdin = <<>>
    <3>1. ReadTo(Len(input))'
      BY <1>3, <1>t, <2>0, <2>1, <2>l DEF Trailing, ReadTo
    <3> QED  BY <1>3, <1>t, <2>1, <3>1 DEF Trailing, Piped
  <2>2. CASE stdin # <<>> /\ Head(stdin) = "blank"
    <3>0. /\ stdin' = SubSeq(input, m + 2, Len(input)) /\ input' = input /\ text' = text
          /\ m < Len(input) /\ input[m + 1] = "blank"
      BY <1>3, <2>2, <2>l DEF Trailing
    <3>1. ReadTo(m + 1)'
      <4>1. m + 1 \in Nat /\ TextLen <= m + 1 /\ m + 1 <= Len(input) /\ (m + 1) + 1 = m + 2
        BY <1>t, <2>0, <3>0 DEF ReadTo
      <4>2. \A n \in 1 .. Len(input) : TextLen < n /\ n <= m + 1 => input[n] = "blank"
        BY <1>t, <2>0, <3>0 DEF ReadTo
      <4> QED  BY <2>0, <3>0, <4>1, <4>2, Zenon DEF ReadTo
    <3> QED  BY <1>3, <1>t, <2>2, <3>1 DEF Trailing, Piped
  <2>3. CASE stdin # <<>> /\ Head(stdin) # "blank"
    BY <1>3, <1>t, <2>0, <2>3, <2>l DEF Trailing, Piped, ReadTo, OneKeyAndBlanks
  <2> QED  BY <2>1, <2>2, <2>3
<1>4. CASE Decode
  <2>1. /\ ReadTo(Len(input)) /\ TextLen <= Len(input)
        /\ \A n \in 1 .. TextLen : text[n] = input[n]
        /\ \A n \in 1 .. Len(input) : TextLen < n => input[n] = "blank"
    BY <1>4, <1>t DEF Decode, Piped, ReadTo
  <2>2. (\A n \in 1 .. TextLen : text[n] = "key") <=>
        (\A n \in 1 .. Len(input) : input[n] = IF n =< TextLen THEN "key" ELSE "blank")
    BY <1>t, <2>1
  <2> QED  BY <1>4, <1>t, <2>1, <2>2 DEF Decode, Unread, Piped, OneKeyAndBlanks
<1>5. CASE \/ GetEntropy \/ GetRandom \/ Open \/ ReadSome
           \/ ReadFails \/ ReadAll \/ Print_key
  BY <1>5 DEF GetEntropy, GetRandom, Open, ReadSome, ReadFails,
              ReadAll, Print_key, Piped
<1> QED  BY <1>1, <1>2, <1>3, <1>4, <1>5 DEF KNext

(* A key that genkey, genpsk or the library hands out is random in every byte,
   for keys of any length and in whatever pieces the sources deliver; a failure
   has an errno and leaves no file open; and pubkey prints a key for exactly the
   inputs, of any length, that are one key and blanks.                       *)
THEOREM KeysArePrinted ==
  ASSUME InputsRead PROVE KSpec => []OnlyKeysArePrinted
<1>1. KeysInv => OnlyKeysArePrinted
  BY DEF KeysInv, Filled, Piped, OnlyKeysArePrinted, KeysAreRandom,
         FailuresAreExplained, OneKeyAndBlanks
<1>2. KeysInv /\ [KNext]_kvars => KeysInv'
  BY FilledNext, PipedNext DEF KeysInv, InputsRead
<1>3. KInit => KeysInv
  BY KeysInit
<1> QED  BY <1>1, <1>2, <1>3, PTL DEF KSpec


(***************************************************************************)
(* DeviceList                                                              *)
(***************************************************************************)
(* A name that is not in the list is added to it. *)
LEMMA NameIsAdded ==
  ASSUME NEW S, NEW s \in Seq(S), NEW x \in S
  PROVE  /\ Append(s, x) \in Seq(S) /\ Append(s, x) # <<>>
         /\ Range(Append(s, x)) = Range(s) \cup {x}
         /\ IsInjective(s) /\ x \notin Range(s) => IsInjective(Append(s, x))
<1>1. /\ Append(s, x) \in Seq(S) /\ Len(Append(s, x)) = Len(s) + 1 /\ Len(s) \in Nat
      /\ DOMAIN Append(s, x) = 1 .. Len(s) + 1 /\ DOMAIN s = 1 .. Len(s)
      /\ \A n \in 1 .. Len(s) : Append(s, x)[n] = s[n]
      /\ Append(s, x)[Len(s) + 1] = x
  OBVIOUS
<1>2. \A n : n \in 1 .. Len(s) + 1 <=> n \in 1 .. Len(s) \/ n = Len(s) + 1
  BY <1>1
<1>3. Range(Append(s, x)) = Range(s) \cup {x}
  BY <1>1, <1>2, Zenon DEF Range
<1>4. ASSUME IsInjective(s), x \notin Range(s) PROVE IsInjective(Append(s, x))
  BY <1>1, <1>2, <1>4, Zenon DEF Range, IsInjective
<1> QED  BY <1>1, <1>3, <1>4

(* The names listed so far are no others than were there, but for those that
   could not be probed, and none twice.                                      *)
Listed ==
  /\ list \in Seq(Names)
  /\ IsInjective(list)
  /\ Range(list) \ unsure \subseteq ever

(* No link that was there all the time, and no such daemon that could be probed,
   is missing from the list but for those of `coming'.                       *)
NoLinkMissing(coming) == always \cap Kernel \subseteq Range(list) \cup coming
NoDaemonMissing(coming) == (always \cap Daemons) \ unsure \subseteq Range(list) \cup coming

(* The names still to come are not in the list yet. *)
Coming(names_, kind) == names_ \subseteq kind /\ names_ \cap Range(list) = {}

Probing == pc \in {"stat", "connect", "unlink"}

Listing ==
  /\ pc \in {"start", "dump", "opendir", "readdir"} \/ (Probing /\ back = "list") =>
       list \in Seq(Names) /\ shown = {} /\ failed = {}
  /\ pc = "start" => list = <<>> /\ partial = FALSE
  /\ pc = "dump" => Listed /\ Range(list) \subseteq Kernel /\ Coming(todo, Kernel)
                    /\ NoLinkMissing(todo) /\ partial = FALSE
  /\ pc = "opendir" => Listed /\ Range(list) \subseteq Kernel /\ (~partial => NoLinkMissing({}))
  /\ pc = "readdir" => /\ Listed /\ Coming(todo, Daemons) /\ NoDaemonMissing(todo)
                       /\ ~partial => NoLinkMissing({})
  /\ Probing /\ back = "list" =>
       /\ Listed /\ probe \in Daemons \ todo /\ Coming(todo \cup {probe}, Daemons)
       /\ NoDaemonMissing(todo \cup {probe}) /\ (~partial => NoLinkMissing({}))
  /\ pc = "connect" => probe \in Daemons /\ sock[probe] # "none"

(* show_main: the exit code is 1 as long as there is something and none of it was
   shown.                                                                    *)
Walking ==
  /\ pc = "walk" \/ pc \in {"userspace", "kernel"} \/ (Probing /\ back = "get") =>
       /\ list \in Seq(Names) /\ status \in {0, 1}
       /\ status = 1 <=> shown = {} /\ (list # <<>> \/ failed # {})
  /\ pc \in {"userspace", "kernel"} \/ (Probing /\ back = "get") => list # <<>>

Sockets == {"none", "stale", "bound", "live"}

ListInv ==
  /\ back \in {"list", "get"} /\ links \subseteq Kernel /\ sock \in [Daemons -> Sockets]
  /\ pc = "start" \/ (always \subseteq There /\ There \subseteq ever)
  /\ Listing /\ Walking
  /\ ListIsHonest


\* The invariant of the listing holds at the start.
LEMMA ListInit == ASSUME LInit PROVE ListInv
<1>1. list = <<>> /\ pc = "start" /\ back = "list" /\ shown = {} /\ failed = {} /\ partial = FALSE
  BY DEF LInit
<1>2. links \subseteq Kernel /\ sock \in [Daemons -> Sockets]
  BY DEF LInit, Sockets
<1>3. <<>> \in Seq(Names)
  OBVIOUS
<1> QED  BY <1>1, <1>2, <1>3 DEF ListInv, Listing, Walking, Probing, ListIsHonest, ListIsExact, ExitCode

(* What others do: interfaces that stay become fewer, those seen become more. *)
LEMMA ListKept ==
  ASSUME ListInv, UNCHANGED <<pc, todo, probe, back, list, shown, failed, status, partial, unsure>>,
         always' \subseteq always, ever \subseteq ever',
         always' \subseteq There', There' \subseteq ever' \/ pc = "start",
         links' \subseteq Kernel, sock' \in [Daemons -> Sockets],
         pc = "connect" => sock'[probe] # "none"
  PROVE  ListInv'
<1>1. Listed => Listed'
  BY DEF Listed
<1>3. Listing'
  BY <1>1 DEF ListInv, Listing, Probing, NoLinkMissing, NoDaemonMissing, Coming
<1>4. Walking'
  BY DEF ListInv, Walking, Probing
<1>5. ListIsHonest'
  BY DEF ListInv, ListIsHonest, ListIsExact, ExitCode
<1> QED  BY <1>3, <1>4, <1>5 DEF ListInv

\* Links and daemons that come and go leave the listing correct.
LEMMA OthersMove ==
  ASSUME ListInv,
         (\E k \in Kernel : LinkChanges(k)) \/ (\E d \in Daemons : DaemonMoves(d))
         \/ UNCHANGED lvars
  PROVE  ListInv'
<1>1. ASSUME NEW k \in Kernel, LinkChanges(k) PROVE ListInv'
  <2>1. /\ UNCHANGED <<pc, todo, probe, back, list, shown, failed, status, partial, unsure, sock>>
        /\ links' \subseteq Kernel
    BY <1>1 DEF LinkChanges, ListInv
  <2>2. always' \subseteq always /\ ever \subseteq ever' /\ always' \subseteq There' /\ There' \subseteq ever'
    BY <1>1, Zenon DEF LinkChanges, Follows
  <2>3. sock' \in [Daemons -> Sockets] /\ (pc = "connect" => sock'[probe] # "none")
    BY <2>1 DEF ListInv, Listing
  <2> QED  BY <2>1, <2>2, <2>3, ListKept
<1>2. ASSUME NEW d \in Daemons, DaemonMoves(d) PROVE ListInv'
  <2>1. /\ UNCHANGED <<pc, todo, probe, back, list, shown, failed, status, partial, unsure, links>>
        /\ links' \subseteq Kernel
    BY <1>2 DEF DaemonMoves, ListInv
  <2>2. always' \subseteq always /\ ever \subseteq ever' /\ always' \subseteq There' /\ There' \subseteq ever'
    BY <1>2, Zenon DEF DaemonMoves, Follows
  <2>3. PICK v \in {"bound", "live", "stale"} : sock' = [sock EXCEPT ![d] = v]
    BY <1>2 DEF DaemonMoves
  <2>4. sock' \in [Daemons -> Sockets] /\ (pc = "connect" => sock'[probe] # "none")
    BY <2>3 DEF ListInv, Listing, Sockets
  <2> QED  BY <2>1, <2>2, <2>4, ListKept
<1>3. ASSUME UNCHANGED lvars PROVE ListInv'
  <2>1. /\ UNCHANGED <<pc, todo, probe, back, list, shown, failed, status, partial, unsure>>
        /\ links' = links /\ sock' = sock /\ always' = always /\ ever' = ever
    BY <1>3 DEF lvars
  <2>2. There' = There
    BY <2>1 DEF There
  <2>3. CASE pc = "start"
    BY <2>1, <2>3 DEF ListInv, Listing, Walking, Probing, ListIsHonest, ListIsExact, ExitCode
  <2>4. CASE pc # "start"
    <3>1. always' \subseteq There' /\ There' \subseteq ever' /\ links' \subseteq Kernel
          /\ sock' \in [Daemons -> Sockets] /\ (pc = "connect" => sock'[probe] # "none")
      BY <2>1, <2>2, <2>4 DEF ListInv, Listing
    <3> QED  BY <2>1, <3>1, ListKept
  <2> QED  BY <2>3, <2>4
<1> QED  BY <1>1, <1>2, <1>3


(* Where nothing else happens the interfaces are those that were there.      *)
LEMMA StillThere ==
  ASSUME ListInv, Still
  PROVE  /\ links' = links /\ sock' = sock /\ always' = always /\ ever' = ever
         /\ There' = There /\ links' \subseteq Kernel /\ sock' \in [Daemons -> Sockets]
         /\ pc = "start" \/ (always' \subseteq There' /\ There' \subseteq ever')
BY DEF ListInv, Still, There

(* kernel_get_wireguard_interfaces *)
LEMMA DumpKeeps ==
  ASSUME NamesApart, ListInv,
         Start \/ DumpEnds \/ ListFails \/ \E k \in Names : ReadDevice(k)
  PROVE  ListInv'
<1>e. Range(<<>>) = {} /\ IsInjective(<<>>) /\ <<>> \in Seq(Names)
  BY DEF Range, IsInjective
<1>n. There \cap Kernel = links /\ links \subseteq Kernel
  BY DEF There, NamesApart, ListInv
<1>1. CASE Start
  <2>1. /\ pc = "start" /\ pc' = "dump" /\ todo' = links /\ always' = There /\ ever' = There
        /\ There' = There /\ partial' = partial /\ unsure' = unsure
        /\ UNCHANGED <<links, sock, back, list, shown, failed>> /\ list = <<>>
    BY <1>1 DEF Start, There, ListInv, Listing
  <2>2. Listed' /\ (Range(list) \subseteq Kernel)' /\ Coming(todo, Kernel)' /\ NoLinkMissing(todo)'
    BY <1>e, <1>n, <2>1 DEF Listed, Coming, NoLinkMissing
  <2>3. Listing' /\ Walking'
    BY <2>1, <2>2 DEF ListInv, Listing, Walking, Probing
  <2> QED  BY <2>1, <2>3 DEF ListInv, ListIsHonest, ListIsExact, ExitCode
<1>2. CASE DumpEnds
  <2>1. /\ pc = "dump" /\ pc' = "opendir" /\ UNCHANGED <<back, list, shown, failed, unsure>> /\ Still
        /\ ~partial' => todo = {} /\ ~partial
    BY <1>2 DEF DumpEnds, ListInv, Listing
  <2>2. Listed' /\ (Range(list) \subseteq Kernel)' /\ (~partial' => NoLinkMissing({})')
    BY <2>1, StillThere DEF ListInv, Listing, Listed, NoLinkMissing
  <2>3. Listing' /\ Walking'
    BY <2>1, <2>2 DEF ListInv, Listing, Walking, Probing
  <2> QED  BY <2>1, <2>3, StillThere DEF ListInv, ListIsHonest, ListIsExact, ExitCode
<1>3. CASE ListFails
  BY <1>3, StillThere
     DEF ListFails, ListInv, Listing, Walking, Probing, ListIsHonest, ListIsExact, ExitCode
<1>4. ASSUME NEW k \in Names, ReadDevice(k) PROVE ListInv'
  <2>1. /\ pc = "dump" /\ pc' = "dump" /\ k \in todo /\ todo' = todo \ {k} /\ partial' = partial
        /\ UNCHANGED <<back, shown, failed, unsure>> /\ Still
        /\ list' = IF k \in links THEN Append(list, k) ELSE list
    BY <1>4 DEF ReadDevice
  <2>2. /\ Listed /\ Range(list) \subseteq Kernel /\ Coming(todo, Kernel) /\ NoLinkMissing(todo)
        /\ partial = FALSE /\ links \subseteq ever /\ always \cap Kernel \subseteq links
        /\ shown = {} /\ failed = {}
    BY <1>n, <2>1 DEF ListInv, Listing
  <2>3. Listed' /\ (Range(list) \subseteq Kernel)' /\ Coming(todo, Kernel)' /\ NoLinkMissing(todo)'
    <3>1. CASE k \in links
      <4>1. list' = Append(list, k) /\ k \in Kernel /\ k \notin Range(list) /\ k \in ever
        BY <1>n, <2>1, <2>2, <3>1 DEF Coming
      <4>2. /\ list' \in Seq(Names) /\ Range(list') = Range(list) \cup {k}
            /\ IsInjective(list')
        BY <2>2, <4>1, NameIsAdded DEF Listed
      <4> QED  BY <2>1, <2>2, <4>1, <4>2, StillThere DEF Listed, Coming, NoLinkMissing
    <3>2. CASE k \notin links
      BY <2>1, <2>2, <3>2, StillThere DEF Listed, Coming, NoLinkMissing
    <3> QED  BY <3>1, <3>2
  <2>4. Listing' /\ Walking'
    BY <2>1, <2>2, <2>3 DEF Listing, Walking, Probing, Listed
  <2> QED  BY <2>1, <2>4, StillThere DEF ListInv, ListIsHonest, ListIsExact, ExitCode
<1> QED  BY <1>1, <1>2, <1>3, <1>4


(* userspace_get_wireguard_interfaces, and the probe of a socket *)
LEMMA DirKeeps ==
  ASSUME NamesApart, ListInv,
         OpenDir \/ DirEnds \/ \E d \in Names : ReadDir(d)
  PROVE  ListInv'
<1>n. \A d \in Daemons : d \in There => sock[d] = "live"
  BY DEF There, NamesApart, ListInv
<1>1. CASE OpenDir
  <2>1. /\ pc = "opendir" /\ pc' = "readdir" /\ todo' = {d \in Daemons : sock[d] # "none"}
        /\ UNCHANGED <<back, list, shown, failed, partial, unsure>> /\ Still
    BY <1>1 DEF OpenDir
  <2>2. Listed' /\ Coming(todo, Daemons)' /\ NoDaemonMissing(todo)' /\ (~partial => NoLinkMissing({}))'
    BY <1>n, <2>1, StillThere
       DEF ListInv, Listing, Listed, Coming, NoDaemonMissing, NoLinkMissing, NamesApart
  <2>3. Listing' /\ Walking'
    BY <2>1, <2>2 DEF ListInv, Listing, Walking, Probing
  <2> QED  BY <2>1, <2>3, StillThere DEF ListInv, ListIsHonest, ListIsExact, ExitCode
<1>2. ASSUME NEW d \in Names, ReadDir(d) PROVE ListInv'
  <2>1. /\ pc = "readdir" /\ pc' = "stat" /\ d \in todo /\ todo' = todo \ {d} /\ probe' = d
        /\ back' = "list" /\ UNCHANGED <<list, shown, failed, partial, unsure>> /\ Still
    BY <1>2 DEF ReadDir
  <2>2. /\ Listed' /\ (probe \in Daemons \ todo)' /\ Coming(todo \cup {probe}, Daemons)'
        /\ NoDaemonMissing(todo \cup {probe})' /\ (~partial => NoLinkMissing({}))'
    BY <2>1, StillThere DEF ListInv, Listing, Listed, Coming, NoDaemonMissing, NoLinkMissing
  <2>3. Listing' /\ Walking'
    BY <2>1, <2>2 DEF ListInv, Listing, Walking, Probing
  <2> QED  BY <2>1, <2>3, StillThere DEF ListInv, ListIsHonest, ListIsExact, ExitCode
<1>3. CASE DirEnds
  <2>1. /\ pc = "readdir" /\ pc' = "walk" /\ todo = {} /\ status' = IF list = <<>> THEN 0 ELSE 1
        /\ UNCHANGED <<back, list, shown, failed, partial, unsure>> /\ Still
    BY <1>3 DEF DirEnds
  <2>2. /\ Listed /\ NoDaemonMissing({}) /\ (~partial => NoLinkMissing({})) /\ shown = {} /\ failed = {}
        /\ always \subseteq There /\ There \subseteq Kernel \cup Daemons
    BY <2>1 DEF ListInv, Listing, There
  <2>3. ListIsExact'
    BY <2>1, <2>2, StillThere DEF ListIsExact, Listed, NoDaemonMissing, NoLinkMissing
  <2>4. Listing'
    BY <2>1, <2>2 DEF Listing, Probing
  <2>5. Walking'
    BY <2>1, <2>2 DEF Walking, Probing, Listed
  <2> QED  BY <2>1, <2>3, <2>4, <2>5, StillThere DEF ListInv, ListIsHonest, ExitCode
<1> QED  BY <1>1, <1>2, <1>3

(* has_wireguard_interface, asked by the listing. *)
LEMMA ProbeForList ==
  ASSUME NamesApart, ListInv, back = "list", Stat \/ Connect \/ Unlink
  PROVE  ListInv'
<1>n. /\ probe \in Daemons /\ probe \in Names
      /\ probe \in always => sock[probe] = "live"
      /\ sock[probe] = "live" => probe \in ever
  BY DEF Stat, Connect, Unlink, ListInv, Listing, Probing, There, NamesApart, Names
<1>p. /\ Probing /\ Listed /\ probe \in Daemons \ todo /\ Coming(todo \cup {probe}, Daemons)
      /\ NoDaemonMissing(todo \cup {probe}) /\ (~partial => NoLinkMissing({}))
      /\ shown = {} /\ failed = {} /\ list \in Seq(Names)
  BY DEF Stat, Connect, Unlink, ListInv, Listing, Probing
<1>1. CASE Stat /\ pc' = "connect"
  <2>1. /\ UNCHANGED <<back, list, shown, failed, partial, unsure, todo, probe>> /\ Still
        /\ sock[probe] # "none"
    BY <1>1 DEF Stat, HasNot
  <2>2. /\ Listed' /\ (probe \in Daemons \ todo)' /\ Coming(todo \cup {probe}, Daemons)'
        /\ NoDaemonMissing(todo \cup {probe})' /\ (~partial => NoLinkMissing({}))' /\ sock'[probe'] # "none"
    BY <1>p, <2>1, StillThere DEF Listed, Coming, NoDaemonMissing, NoLinkMissing
  <2>3. Listing' /\ Walking'
    BY <1>1, <1>p, <2>1, <2>2 DEF Listing, Walking, Probing
  <2> QED  BY <1>1, <1>p, <2>1, <2>3, StillThere DEF ListInv, Probing, ListIsHonest, ListIsExact, ExitCode
<1>2. CASE Stat /\ pc' # "connect"
  <2>1. /\ pc' = "readdir" /\ UNCHANGED <<back, list, shown, failed, partial, todo, probe>> /\ Still
        /\ unsure' = unsure \cup {probe} \/ (unsure' = unsure /\ sock[probe] = "none")
    BY <1>2, <1>n DEF Stat, HasNot
  <2>2. Listed' /\ Coming(todo, Daemons)' /\ NoDaemonMissing(todo)' /\ (~partial => NoLinkMissing({}))'
    <3>1. probe \notin always' \ unsure'
      BY <1>n, <2>1, StillThere
    <3> QED  BY <1>p, <2>1, <3>1, StillThere DEF Listed, Coming, NoDaemonMissing, NoLinkMissing
  <2>3. Listing' /\ Walking'
    BY <1>p, <2>1, <2>2 DEF Listing, Walking, Probing
  <2> QED  BY <1>p, <2>1, <2>3, StillThere DEF ListInv, Probing, ListIsHonest, ListIsExact, ExitCode
<1>3. CASE Connect /\ pc' = "unlink"
  <2>1. /\ UNCHANGED <<back, list, shown, failed, partial, unsure, todo, probe>> /\ Still
    BY <1>3 DEF Connect, Has
  <2>2. /\ Listed' /\ (probe \in Daemons \ todo)' /\ Coming(todo \cup {probe}, Daemons)'
        /\ NoDaemonMissing(todo \cup {probe})' /\ (~partial => NoLinkMissing({}))'
    BY <1>p, <2>1, StillThere DEF Listed, Coming, NoDaemonMissing, NoLinkMissing
  <2>3. Listing' /\ Walking'
    BY <1>3, <1>p, <2>1, <2>2 DEF Listing, Walking, Probing
  <2> QED  BY <1>3, <1>p, <2>1, <2>3, StillThere DEF ListInv, Probing, ListIsHonest, ListIsExact, ExitCode
<1>4. CASE Connect /\ pc' # "unlink"
  <2>1. /\ pc' = "readdir" /\ list' = Append(list, probe)
        /\ UNCHANGED <<back, shown, failed, partial, todo, probe>> /\ Still
        /\ unsure' = unsure \cup {probe} \/ (unsure' = unsure /\ sock[probe] = "live")
    BY <1>4 DEF Connect, Has
  <2>2. /\ list' \in Seq(Names) /\ Range(list') = Range(list) \cup {probe}
        /\ IsInjective(list')
    BY <1>n, <1>p, <2>1, NameIsAdded DEF Listed, Coming
  <2>3. Listed' /\ Coming(todo, Daemons)' /\ NoDaemonMissing(todo)' /\ (~partial => NoLinkMissing({}))'
    <3>1. probe \in unsure' \/ probe \in ever'
      BY <1>n, <2>1, StillThere
    <3>2. unsure \subseteq unsure'
      BY <2>1
    <3> QED  BY <1>n, <1>p, <2>1, <2>2, <3>1, <3>2, StillThere
             DEF Listed, Coming, NoDaemonMissing, NoLinkMissing
  <2>4. Listing' /\ Walking'
    BY <1>p, <2>1, <2>2, <2>3 DEF Listing, Walking, Probing
  <2> QED  BY <1>p, <2>1, <2>4, StillThere DEF ListInv, Probing, ListIsHonest, ListIsExact, ExitCode
<1>5. CASE Unlink
  <2>1. /\ pc' = "readdir" /\ UNCHANGED <<links, back, list, shown, failed, partial, unsure, todo, probe>>
        /\ sock' = [sock EXCEPT ![probe] = "none"] /\ Follows
    BY <1>5 DEF Unlink, HasNot
  <2>2. /\ sock' \in [Daemons -> Sockets] /\ sock'[probe] = "none" /\ links' \subseteq Kernel
        /\ always' = always \cap There' /\ ever' = ever \cup There'
    BY <1>n, <2>1 DEF ListInv, Follows, Sockets
  <2>3. probe \notin always'
    BY <1>n, <2>1, <2>2 DEF There, NamesApart, ListInv
  <2>4. Listed' /\ Coming(todo, Daemons)' /\ NoDaemonMissing(todo)' /\ (~partial => NoLinkMissing({}))'
    BY <1>p, <2>1, <2>2, <2>3 DEF Listed, Coming, NoDaemonMissing, NoLinkMissing
  <2>5. Listing' /\ Walking'
    BY <1>p, <2>1, <2>4 DEF Listing, Walking, Probing
  <2> QED  BY <1>p, <2>1, <2>2, <2>5 DEF ListInv, ListIsHonest, ListIsExact, ExitCode
<1> QED  BY <1>1, <1>2, <1>3, <1>4, <1>5


(* has_wireguard_interface, asked by ipc_get_device: the list is not touched. *)
LEMMA ProbeForGet ==
  ASSUME ListInv, back # "list", Stat \/ Connect \/ Unlink
  PROVE  ListInv'
<1>p. /\ back = "get" /\ Probing /\ list \in Seq(Names) /\ status \in {0, 1} /\ list # <<>>
      /\ status = 1 <=> shown = {} /\ (list # <<>> \/ failed # {})
  BY DEF Stat, Connect, Unlink, ListInv, Walking, Probing
<1>1. /\ UNCHANGED <<back, list, shown, failed, partial, todo, probe, status>>
      /\ pc' \in {"connect", "unlink", "kernel", "userspace"}
      /\ pc' = "connect" => probe \in Daemons /\ sock'[probe] # "none"
  BY <1>p DEF Stat, Connect, Unlink, Has, HasNot, Still
<1>2. /\ links' \subseteq Kernel /\ sock' \in [Daemons -> Sockets]
      /\ always' \subseteq There' /\ There' \subseteq ever'
  <2>1. CASE Still
    BY <1>p, <2>1, StillThere DEF Probing
  <2>2. CASE Unlink
    BY <2>2 DEF Unlink, Follows, ListInv, Sockets
  <2> QED  BY <2>1, <2>2 DEF Stat, Connect
<1>3. Listing' /\ Walking'
  BY <1>p, <1>1 DEF Listing, Walking, Probing
<1> QED  BY <1>p, <1>1, <1>2, <1>3 DEF ListInv, ListIsHonest, ListIsExact, ExitCode

(* show_main *)
LEMMA WalkKeeps ==
  ASSUME ListInv, Walk \/ GetDevice \/ WalkEnds PROVE ListInv'
<1>1. CASE Walk
  <2>1. /\ pc = "walk" /\ pc' = "stat" /\ back' = "get" /\ UNCHANGED <<list, shown, failed, status>> /\ Still
        /\ list # <<>>
    BY <1>1 DEF Walk
  <2>2. Listing' /\ Walking'
    BY <2>1 DEF ListInv, Listing, Walking, Probing
  <2> QED  BY <2>1, <2>2, StillThere DEF ListInv, ListIsHonest, ListIsExact, ExitCode
<1>2. CASE GetDevice
  <2>1. /\ pc \in {"userspace", "kernel"} /\ pc' = "walk" /\ list' = Tail(list) /\ UNCHANGED back /\ Still
        /\ \/ shown' = shown \cup {probe} /\ status' = 0 /\ UNCHANGED failed
           \/ failed' = failed \cup {probe} /\ UNCHANGED <<shown, status>>
    BY <1>2 DEF GetDevice, Shows, Skips
  <2>2. list \in Seq(Names) /\ list # <<>> /\ status \in {0, 1} /\ (status = 1 <=> shown = {})
    BY <2>1 DEF ListInv, Walking
  <2>3. list' \in Seq(Names)
    BY <2>1, <2>2
  <2>4. /\ shown' \cup failed' # {} /\ status' \in {0, 1}
        /\ status' = 1 <=> shown' = {} /\ (list' # <<>> \/ failed' # {})
    <3>1. CASE shown' = shown \cup {probe} /\ status' = 0
      BY <3>1
    <3>2. CASE failed' = failed \cup {probe} /\ UNCHANGED <<shown, status>>
      BY <2>2, <3>2
    <3> QED  BY <2>1, <3>1, <3>2
  <2>6. Walking'
    BY <2>1, <2>3, <2>4 DEF Walking, Probing
  <2>5. Listing'
    BY <2>1 DEF Listing, Probing
  <2> QED  BY <2>1, <2>4, <2>5, <2>6, StillThere DEF ListInv, ListIsHonest, ListIsExact, ExitCode
<1>3. CASE WalkEnds
  <2>1. /\ pc = "walk" /\ pc' = "done" /\ UNCHANGED <<list, shown, failed, status, back>> /\ Still
        /\ list = <<>>
    BY <1>3 DEF WalkEnds
  <2>2. Listing' /\ Walking'
    BY <2>1 DEF Listing, Walking, Probing
  <2>3. status = 1 <=> shown = {} /\ failed # {}
    BY <2>1 DEF ListInv, Walking
  <2> QED  BY <2>1, <2>2, <2>3, StillThere DEF ListInv, ListIsHonest, ListIsExact, ExitCode
<1> QED  BY <1>1, <1>2, <1>3

(* For any number of interfaces, whatever links and daemons come and go meanwhile:
   the list of `wg show all' has no name twice, only interfaces that were there
   since it began, and all that were there all the time unless the dump of the
   links was interrupted; and it exits with an error exactly if the listing
   failed, or if something was listed and nothing of it could be shown.      *)
THEOREM ListTellsTheTruth ==
  ASSUME NamesApart PROVE LSpec => []ListIsHonest
<1>1. ListInv => ListIsHonest
  BY DEF ListInv
<1>2. ListInv /\ [LNext]_lvars => ListInv'
  BY OthersMove, DumpKeeps, DirKeeps, ProbeForList, ProbeForGet, WalkKeeps, Zenon DEF LNext, Show
<1>3. LInit => ListInv
  BY ListInit
<1> QED  BY <1>1, <1>2, <1>3, PTL DEF LSpec

(***************************************************************************)
(* FreeBsdIpc: the control calls of ipc-freebsd.h implement the promise of *)
(* DeviceIo, and destroy every nvlist they make exactly once, for devices  *)
(* of any size and however many changes others make meanwhile.             *)
(***************************************************************************)
(* Copying a list element by element. *)
IsList(s) == s \in Seq({s[k] : k \in DOMAIN s})

Part(s, k) == SubSeq(s, 1, k)

\* What the beginning of a list is.
LEMMA PartIs ==
  ASSUME NEW S, NEW s \in Seq(S), NEW k \in Nat, k <= Len(s)
  PROVE  Part(s, k) \in Seq(S) /\ Len(Part(s, k)) = k /\ \A n \in 1 .. k : Part(s, k)[n] = s[n]
<1>1. Part(s, k) \in Seq(S)
  BY DEF Part
<1>2. Len(Part(s, k)) = k
  BY DEF Part
<1>3. \A n \in 1 .. k : Part(s, k)[n] = s[n]
  BY DEF Part
<1> QED  BY <1>1, <1>2, <1>3

\* Nothing of a list has been copied yet.
LEMMA CopyBegins ==
  ASSUME NEW s
  PROVE  Part(s, 0) = <<>>
  BY DEF Part

\* One more element of a list is copied.
LEMMA CopyGrows ==
  ASSUME NEW s, IsList(s), NEW k \in Nat, k < Len(s)
  PROVE  Append(Part(s, k), s[k + 1]) = Part(s, k + 1)
<1>1. PICK S : s \in Seq(S)
  BY DEF IsList
<1>2. PICK t, u : t = Part(s, k) /\ u = Part(s, k + 1)
  OBVIOUS
<1>3. /\ t \in Seq(S) /\ Len(t) = k /\ \A n \in 1 .. k : t[n] = s[n]
      /\ u \in Seq(S) /\ Len(u) = k + 1 /\ \A n \in 1 .. k + 1 : u[n] = s[n]
      /\ s[k + 1] \in S
  <2>1. k <= Len(s) /\ k + 1 <= Len(s) /\ k + 1 \in Nat /\ s[k + 1] \in S
    BY <1>1
  <2>2. t \in Seq(S) /\ Len(t) = k /\ \A n \in 1 .. k : t[n] = s[n]
    BY <1>1, <1>2, <2>1, PartIs, Zenon
  <2>3. u \in Seq(S) /\ Len(u) = k + 1 /\ \A n \in 1 .. k + 1 : u[n] = s[n]
    BY <1>1, <1>2, <2>1, PartIs, Zenon
  <2> QED  BY <2>1, <2>2, <2>3
<1>4. Append(t, s[k + 1]) = u
  <2>1. PICK e : e = s[k + 1]
    OBVIOUS
  <2>2. e \in S /\ u[k + 1] = e /\ \A n \in 1 .. k : t[n] = u[n]
    BY <1>3, <2>1
  <2>3. /\ Append(t, e) \in Seq(S) /\ Len(Append(t, e)) = k + 1
        /\ Append(t, e)[k + 1] = e /\ \A n \in 1 .. k : Append(t, e)[n] = t[n]
    BY <1>3, <2>2
  <2>4. \A n \in 1 .. k + 1 : n \in 1 .. k \/ n = k + 1
    OBVIOUS
  <2>5. \A n \in 1 .. Len(u) : Append(t, e)[n] = u[n]
    BY <1>3, <2>2, <2>3, <2>4, Zenon
  <2> QED  BY <1>3, <2>1, <2>3, <2>5, ListsAgree
<1> QED  BY <1>2, <1>4

\* All of a list has been copied.
LEMMA CopyEnds ==
  ASSUME NEW s, IsList(s)
  PROVE  Part(s, Len(s)) = s
<1>1. PICK S : s \in Seq(S)
  BY DEF IsList
<1>2. PICK t : t = Part(s, Len(s))
  OBVIOUS
<1>3. t \in Seq(S) /\ Len(t) = Len(s) /\ \A n \in 1 .. Len(s) : t[n] = s[n]
  <2>1. Len(s) \in Nat /\ Len(s) <= Len(s)
    BY <1>1
  <2> QED  BY <1>1, <1>2, <2>1, PartIs, Zenon
<1>4. t = s
  BY <1>1, <1>3, ListsAgree
<1> QED  BY <1>2, <1>4

(***************************************************************************)
(* The invariant.                                                          *)
(***************************************************************************)
\* The first k peers of a device, the first k allowed IPs of a peer.
Upto(d, k) == [attrs |-> d.attrs, marks |-> d.marks, peers |-> Part(d.peers, k)]
PeerUpto(p, k) == [attrs |-> p.attrs, marks |-> p.marks, aips |-> Part(p.aips, k)]

\* The loops over a device d, which copy it to c: i peers are done, and where the
\* allowed IPs are copied, j of the next one's.
Copied(d, c, inner) ==
  /\ peer_i \in 0 .. Len(d.peers) /\ c = Upto(d, peer_i)
  /\ inner => /\ peer_i < Len(d.peers)
              /\ aip_j \in 0 .. Len(d.peers[peer_i + 1].aips) /\ peer = PeerUpto(d.peers[peer_i + 1], aip_j)

\* A reader copies the device it holds, a writer the one it was asked to set.
Reading ==
  op = "get" =>
    /\ kern \in Kernels /\ place \in {"get", "peer", "aip", "done"}
    /\ place \in {"peer", "aip"} => held \in Kernels /\ data = held /\ Copied(data, dev, place = "aip")

Writing ==
  op = "set" =>
    /\ asked \in Requests /\ place \in {"set", "make_peer", "make_aip", "err_peer", "err", "done"}
    /\ place = "set" => peer_i = 0
    /\ place \in {"make_peer", "make_aip"} => Copied(asked, packed, place = "make_aip")
    /\ place = "err_peer" => peer_i \in Nat /\ peer_i < Len(asked.peers)

\* The nvlists that are not destroyed are the device's, those the array points to
\* and, while its peer is made, those of the allowed IPs.
Heads == {<<p>> : p \in slots}
Inner(k) == {<<peer_i + 1, a>> : a \in 1 .. k}
Between(k) == Heads \subseteq live /\ live \subseteq {<<>>} \cup Heads \cup Inner(k)

Owning ==
  /\ ~twice
  /\ place \in {"get", "set", "done"} => live = {} /\ slots = {}
  /\ op = "get" => slots = {}
  /\ place \in {"make_peer", "err"} => Between(0)
  /\ place = "make_aip" => Between(aip_j)
  /\ place = "err_peer" => Between(Len(asked.peers[peer_i + 1].aips))

FreeBsdInv ==
  /\ op \in {"get", "set"} /\ (place # "done" => answer = NULL)
  /\ Reading /\ Writing /\ Owning


\* Where the loops are while a peer's allowed IPs are copied.
LEMMA CopiedPlace ==
  ASSUME NEW d, NEW c, Copied(d, c, TRUE), Len(d.peers) \in Nat
  PROVE  peer_i \in Nat /\ peer_i < Len(d.peers) /\ c = Upto(d, peer_i) /\ peer_i + 1 \in 0 .. Len(d.peers)
<1>1. peer_i \in 0 .. Len(d.peers) /\ peer_i < Len(d.peers) /\ c = Upto(d, peer_i)
  BY Zenon DEF Copied
<1>2. \A k, n : n \in Nat /\ k \in 0 .. n /\ k < n => k \in Nat /\ k + 1 \in 0 .. n
  OBVIOUS
<1> QED  BY <1>1, <1>2, Zenon

\* The device read so far, when a peer is appended.
LEMMA DeviceCopies ==
  ASSUME NEW d, IsDevice(d)
  PROVE  /\ Upto(d, 0) = [attrs |-> d.attrs, marks |-> d.marks, peers |-> <<>>]
         /\ \A k \in Nat : \A c : k < Len(d.peers) /\ c = Upto(d, k) =>
              [c EXCEPT !.peers = Append(@, d.peers[k + 1])] = Upto(d, k + 1)
         /\ Upto(d, Len(d.peers)) = d
         /\ Len(d.peers) \in Nat
         /\ \A k \in Nat : k < Len(d.peers) => IsPeer(d.peers[k + 1])
<1>1. IsList(d.peers)  BY DEF IsDevice, IsList
<1>2. Len(d.peers) \in Nat /\ DOMAIN d.peers = 1 .. Len(d.peers)  BY <1>1 DEF IsList
<1>3. Upto(d, 0) = [attrs |-> d.attrs, marks |-> d.marks, peers |-> <<>>]  BY CopyBegins DEF Upto
<1>4. ASSUME NEW k \in Nat, k < Len(d.peers)
      PROVE  /\ \A c : c = Upto(d, k) => [c EXCEPT !.peers = Append(@, d.peers[k + 1])] = Upto(d, k + 1)
             /\ IsPeer(d.peers[k + 1])
  <2>1. Append(Part(d.peers, k), d.peers[k + 1]) = Part(d.peers, k + 1)
    BY <1>1, <1>4, CopyGrows
  <2>2. k + 1 \in DOMAIN d.peers  BY <1>2, <1>4
  <2>3. ASSUME NEW c, c = Upto(d, k)
        PROVE  [c EXCEPT !.peers = Append(@, d.peers[k + 1])]
               = [attrs |-> d.attrs, marks |-> d.marks, peers |-> Append(Part(d.peers, k), d.peers[k + 1])]
    BY <2>3, SMTT(30) DEF Upto
  <2>4. IsPeer(d.peers[k + 1])  BY <2>2 DEF IsDevice
  <2> QED  BY <2>1, <2>3, <2>4 DEF Upto
<1>5. Upto(d, Len(d.peers)) = d
  <2>1. Part(d.peers, Len(d.peers)) = d.peers  BY <1>1, CopyEnds
  <2> QED  BY <2>1 DEF Upto, IsDevice
<1> QED  BY <1>2, <1>3, <1>4, <1>5

\* The peer read so far, when an allowed IP is appended.
LEMMA PeerCopies ==
  ASSUME NEW p, IsPeer(p)
  PROVE  /\ PeerUpto(p, 0) = [attrs |-> p.attrs, marks |-> p.marks, aips |-> <<>>]
         /\ \A k \in Nat : \A c : k < Len(p.aips) /\ c = PeerUpto(p, k) =>
              [c EXCEPT !.aips = Append(@, p.aips[k + 1])] = PeerUpto(p, k + 1)
         /\ PeerUpto(p, Len(p.aips)) = p
         /\ Len(p.aips) \in Nat
<1>1. IsList(p.aips)  BY DEF IsPeer, IsList
<1>2. Len(p.aips) \in Nat  BY <1>1 DEF IsList
<1>3. PeerUpto(p, 0) = [attrs |-> p.attrs, marks |-> p.marks, aips |-> <<>>]
  BY CopyBegins DEF PeerUpto
<1>4. ASSUME NEW k \in Nat, k < Len(p.aips)
      PROVE  \A c : c = PeerUpto(p, k) => [c EXCEPT !.aips = Append(@, p.aips[k + 1])] = PeerUpto(p, k + 1)
  <2>1. Append(Part(p.aips, k), p.aips[k + 1]) = Part(p.aips, k + 1)
    BY <1>1, <1>4, CopyGrows
  <2>2. ASSUME NEW c, c = PeerUpto(p, k)
        PROVE  [c EXCEPT !.aips = Append(@, p.aips[k + 1])]
               = [attrs |-> p.attrs, marks |-> p.marks, aips |-> Append(Part(p.aips, k), p.aips[k + 1])]
    BY <2>2, SMTT(30) DEF PeerUpto
  <2> QED  BY <2>1, <2>2 DEF PeerUpto
<1>5. PeerUpto(p, Len(p.aips)) = p
  <2>1. Part(p.aips, Len(p.aips)) = p.aips  BY <1>1, CopyEnds
  <2> QED  BY <2>1 DEF PeerUpto, IsPeer
<1> QED  BY <1>2, <1>3, <1>4, <1>5

\* The invariant holds at the start.
LEMMA InvInit ==
  ASSUME Described(Requests), FInit
  PROVE  FreeBsdInv
<1>1. \/ op = "get" /\ asked = NULL
      \/ op = "set" /\ asked \in Requests
  BY DEF FInit, IoInit
<1> QED
  BY <1>1 DEF FInit, IoInit, FreeBsdInv, Reading, Writing, Owning

(***************************************************************************)
(* The steps of a reader.                                                  *)
(***************************************************************************)
LEMMA GetKeeps ==
  ASSUME Described(Requests), FreeBsdInv, op = "get", Other \/ Get
  PROVE  FreeBsdInv' /\ KeepsPromise
<1>1. /\ kern \in Kernels /\ op' = op /\ (place # "done" => answer = NULL) /\ ~twice /\ slots = {}
      /\ place \in {"get", "peer", "aip", "done"}
  BY DEF FreeBsdInv, Reading, Owning, Other, Get, AskSize, Fetch, ReadPeer, ReadAip, LinkPeer, GetReturns,
         GetFails, Change, IoVars
<1>2. ASSUME NEW d \in Kernels
      PROVE  IsDevice(d) /\ d # NULL /\ d.marks = {} /\ \A k \in DOMAIN d.peers : d.peers[k].marks = {}
  BY DEF Described
<1>3. CASE Other
  BY <1>1, <1>3 DEF Other, Change, local, FreeBsdInv, Reading, Writing, Owning, Copied, Between, Heads, Inner,
                    KeepsPromise, IoNext
<1>4. CASE AskSize
  BY <1>1, <1>4 DEF AskSize, IoVars, FreeBsdInv, Reading, Writing, Owning, Copied, Between, Heads, Inner,
                    KeepsPromise
<1>5. CASE Fetch
  <2>1. CASE Weight(kern) <= size
    <3>1. /\ place' = "peer" /\ held' = kern /\ data' = kern /\ dev' = Bare(kern.attrs) /\ peer_i' = 0
          /\ kern' = kern /\ answer' = answer /\ UNCHANGED <<asked, taken, slots, twice>>
      BY <1>5, <2>1 DEF Fetch
    <3>2. IsDevice(kern) /\ kern.marks = {}  BY <1>1, <1>2
    <3>3. Copied(data, dev, FALSE)'
      BY <3>1, <3>2, DeviceCopies DEF Copied, Bare
    <3>4. Reading'  BY <1>1, <3>1, <3>3 DEF Reading, Copied
    <3>5. Owning' /\ Writing'  BY <1>1, <3>1 DEF Owning, Writing
    <3>6. Look  BY <1>1, <1>5, <3>1 DEF Look, Fetch
    <3> QED  BY <1>1, <1>5, <3>1, <3>4, <3>5, <3>6 DEF FreeBsdInv, Fetch, KeepsPromise, IoNext
  <2>2. CASE ~(Weight(kern) <= size)
    <3>1. Answer("error", NULL) /\ UNCHANGED <<held, data, live, dev, peer_i>>  BY <1>5, <2>2 DEF Fetch
    <3>2. Fail  BY <1>1, <1>5, <3>1 DEF Fail, Answer, Error, Fetch
    <3>3. live = {}  BY <1>5 DEF FreeBsdInv, Owning, Fetch
    <3> QED
      BY <1>1, <1>5, <3>1, <3>2, <3>3
      DEF Fetch, Answer, FreeBsdInv, Reading, Writing, Owning, KeepsPromise, IoNext
  <2> QED  BY <2>1, <2>2
<1>6. CASE ReadPeer
  <2>1. /\ place = "peer" /\ place' = "aip" /\ aip_j' = 0 /\ UNCHANGED <<IoVars, data, peer_i, dev, slots, twice>>
        /\ peer_i < Len(data.peers)
        /\ peer' = [attrs |-> data.peers[peer_i + 1].attrs, marks |-> {}, aips |-> <<>>]
    BY <1>6 DEF ReadPeer
  <2>2. held \in Kernels /\ data = held /\ peer_i \in 0 .. Len(data.peers) /\ dev = Upto(data, peer_i)
    BY <1>1, <2>1 DEF FreeBsdInv, Reading, Copied
  <2>3. /\ IsDevice(data) /\ IsPeer(data.peers[peer_i + 1]) /\ Len(data.peers) \in Nat
        /\ data.peers[peer_i + 1].marks = {}
    BY <1>2, <2>1, <2>2, DeviceCopies
  <2>4. peer' = PeerUpto(data.peers[peer_i + 1], 0) /\ 0 \in 0 .. Len(data.peers[peer_i + 1].aips)
    <3>1. PICK p : p = data.peers[peer_i + 1]  OBVIOUS
    <3>2. PeerUpto(p, 0) = [attrs |-> p.attrs, marks |-> {}, aips |-> <<>>] /\ Len(p.aips) \in Nat
      BY <2>3, <3>1, PeerCopies
    <3>3. 0 \in 0 .. Len(p.aips)  BY <3>2
    <3> QED  BY <2>1, <3>1, <3>2, <3>3, Zenon
  <2>5. Copied(data, dev, TRUE)'  BY <2>1, <2>2, <2>4 DEF Copied
  <2> QED
    BY <1>1, <2>1, <2>2, <2>5 DEF FreeBsdInv, Reading, Writing, Owning, KeepsPromise, IoVars, Copied
<1>7. CASE ReadAip
  <2>1. /\ place = "aip" /\ place' = place /\ aip_j' = aip_j + 1 /\ UNCHANGED <<IoVars, data, peer_i, dev, slots, twice>>
        /\ aip_j < Len(data.peers[peer_i + 1].aips)
        /\ peer' = [peer EXCEPT !.aips = Append(@, data.peers[peer_i + 1].aips[aip_j + 1])]
    BY <1>7 DEF ReadAip
  <2>2. held \in Kernels /\ data = held /\ Copied(data, dev, TRUE)
    BY <1>1, <2>1 DEF FreeBsdInv, Reading, Copied
  <2>3. IsDevice(data) /\ IsPeer(data.peers[peer_i + 1]) /\ Len(data.peers) \in Nat
    BY <1>2, <2>2, DeviceCopies DEF Copied
  <2>4. aip_j + 1 \in 0 .. Len(data.peers[peer_i + 1].aips) /\ peer' = PeerUpto(data.peers[peer_i + 1], aip_j + 1)
    <3>1. PICK p : p = data.peers[peer_i + 1]  OBVIOUS
    <3>2. aip_j \in 0 .. Len(p.aips) /\ peer = PeerUpto(p, aip_j)  BY <2>2, <3>1 DEF Copied
    <3>3. /\ Len(p.aips) \in Nat
          /\ aip_j < Len(p.aips)
             => [peer EXCEPT !.aips = Append(@, p.aips[aip_j + 1])] = PeerUpto(p, aip_j + 1)
      <4>1. IsPeer(p)  BY <2>3, <3>1
      <4>2. aip_j \in Nat /\ Len(p.aips) \in Nat  BY <3>2, <4>1, PeerCopies
      <4>3. \A k \in Nat : \A c : k < Len(p.aips) /\ c = PeerUpto(p, k) =>
              [c EXCEPT !.aips = Append(@, p.aips[k + 1])] = PeerUpto(p, k + 1)
        BY <4>1, PeerCopies, Zenon
      <4> QED  BY <3>2, <4>2, <4>3, Zenon
    <3> QED  BY <2>1, <3>1, <3>2, <3>3
  <2>5. Copied(data, dev, TRUE)'  BY <2>1, <2>2, <2>4 DEF Copied
  <2> QED
    BY <1>1, <2>1, <2>2, <2>5 DEF FreeBsdInv, Reading, Writing, Owning, KeepsPromise, IoVars, Copied
<1>8. CASE LinkPeer
  <2>1. /\ place = "aip" /\ place' = "peer" /\ peer_i' = peer_i + 1 /\ UNCHANGED <<IoVars, data, slots, twice>>
        /\ aip_j = Len(data.peers[peer_i + 1].aips)
        /\ dev' = [dev EXCEPT !.peers = Append(@, peer)]
    BY <1>8 DEF LinkPeer
  <2>2. held \in Kernels /\ data = held /\ Copied(data, dev, TRUE)
    BY <1>1, <2>1 DEF FreeBsdInv, Reading, Copied
  <2>3. IsDevice(data) /\ IsPeer(data.peers[peer_i + 1]) /\ Len(data.peers) \in Nat
    BY <1>2, <2>2, DeviceCopies DEF Copied
  <2>4. peer = data.peers[peer_i + 1]  BY <2>1, <2>2, <2>3, PeerCopies DEF Copied
  <2>5. peer_i \in Nat /\ peer_i < Len(data.peers) /\ dev = Upto(data, peer_i) /\ peer_i + 1 \in 0 .. Len(data.peers)
    BY <2>2, <2>3, CopiedPlace, Zenon
  <2>6. dev' = Upto(data, peer_i + 1)
    <3>1. \A k \in Nat : \A c : k < Len(data.peers) /\ c = Upto(data, k) =>
            [c EXCEPT !.peers = Append(@, data.peers[k + 1])] = Upto(data, k + 1)
      BY <2>3, DeviceCopies, Zenon
    <3>2. [dev EXCEPT !.peers = Append(@, data.peers[peer_i + 1])] = Upto(data, peer_i + 1)  BY <2>5, <3>1, Zenon
    <3> QED  BY <2>1, <2>4, <3>2, Zenon
  <2>7. Copied(data, dev, FALSE)'  BY <2>1, <2>5, <2>6 DEF Copied
  <2> QED
    BY <1>1, <2>1, <2>2, <2>7 DEF FreeBsdInv, Reading, Writing, Owning, KeepsPromise, IoVars, Copied
<1>9. CASE GetReturns
  <2>1. held \in Kernels /\ data = held /\ peer_i \in 0 .. Len(data.peers) /\ dev = Upto(data, peer_i)
    BY <1>1, <1>9 DEF FreeBsdInv, Reading, Copied, GetReturns
  <2>2. dev = held /\ held # NULL  BY <1>2, <1>9, <2>1, DeviceCopies DEF GetReturns
  <2>3. Return  BY <1>1, <1>9, <2>2 DEF Return, GetReturns, Answer
  <2> QED
    BY <1>1, <1>9, <2>3 DEF GetReturns, Answer, FreeBsdInv, Reading, Writing, Owning, KeepsPromise, IoNext
<1>10. CASE GetFails
  <2>1. Fail  BY <1>10 DEF Fail, Error, GetFails, Answer
  <2> QED
    BY <1>1, <1>10, <2>1 DEF GetFails, Answer, FreeBsdInv, Reading, Writing, Owning, KeepsPromise, IoNext
<1> QED  BY <1>3, <1>4, <1>5, <1>6, <1>7, <1>8, <1>9, <1>10 DEF Get


(***************************************************************************)
(* The steps of a writer.                                                  *)
(***************************************************************************)
LEMMA SetKeeps ==
  ASSUME Described(Requests), FreeBsdInv, op = "set", Set
  PROVE  FreeBsdInv' /\ KeepsPromise
<1>1. /\ op' = op /\ asked' = asked /\ asked \in Requests /\ ~twice
      /\ place # "done" /\ answer = NULL
  BY DEF FreeBsdInv, Writing, Owning, Set, BeginSet, MakePeer, MakeAip, ClosePeer, SetFails, ErrPeer, Err, Submit,
         IoVars
<1>2. IsDevice(asked) /\ Len(asked.peers) \in Nat  BY <1>1, DeviceCopies DEF Described
<1>3. CASE BeginSet
  <2>1. /\ place = "set" /\ place' = "make_peer" /\ live' = {<<>>} /\ UNCHANGED <<IoVars, peer_i, slots, twice>>
        /\ packed' = [attrs |-> asked.attrs, marks |-> asked.marks, peers |-> <<>>]
    BY <1>3 DEF BeginSet
  <2>2. peer_i = 0 /\ slots = {}  BY <2>1 DEF FreeBsdInv, Writing, Owning
  <2>3. Copied(asked, packed, FALSE)'  BY <1>1, <1>2, <2>1, <2>2, DeviceCopies DEF Copied
  <2>4. Owning'  BY <1>1, <2>1, <2>2 DEF Owning, Between, Heads
  <2> QED
    BY <1>1, <2>1, <2>3, <2>4 DEF FreeBsdInv, Reading, Writing, KeepsPromise, IoVars, Copied
<1>4. CASE MakePeer
  <2>1. /\ place = "make_peer" /\ place' = "make_aip" /\ aip_j' = 0 /\ UNCHANGED <<IoVars, peer_i, packed, twice>>
        /\ peer_i < Len(asked.peers) /\ live' = live \cup {<<peer_i + 1>>} /\ slots' = slots \cup {peer_i + 1}
        /\ peer' = [attrs |-> asked.peers[peer_i + 1].attrs, marks |-> asked.peers[peer_i + 1].marks, aips |-> <<>>]
    BY <1>4 DEF MakePeer
  <2>2. peer_i \in 0 .. Len(asked.peers) /\ packed = Upto(asked, peer_i) /\ Between(0)
    BY <2>1 DEF FreeBsdInv, Writing, Owning, Copied
  <2>3. IsPeer(asked.peers[peer_i + 1])  BY <1>2, <2>1, <2>2, DeviceCopies
  <2>4. peer' = PeerUpto(asked.peers[peer_i + 1], 0) /\ 0 \in 0 .. Len(asked.peers[peer_i + 1].aips)
    BY <2>1, <2>3, PeerCopies
  <2>5. Copied(asked, packed, TRUE)'  BY <1>1, <2>1, <2>2, <2>4 DEF Copied
  <2>6. Between(0)'
    <3>1. Inner(0) = {}  BY DEF Inner
    <3>2. Heads' = Heads \cup {<<peer_i + 1>>}
      <4>1. slots' = slots \cup {peer_i + 1}  BY <2>1, Zenon
      <4> QED  BY <4>1, Zenon DEF Heads
    <3> QED  BY <2>1, <2>2, <3>1, <3>2, Zenon DEF Between
  <2>7. Owning'  BY <1>1, <2>1, <2>6 DEF Owning
  <2> QED
    BY <1>1, <2>1, <2>5, <2>7 DEF FreeBsdInv, Reading, Writing, KeepsPromise, IoVars, Copied
<1>5. CASE MakeAip
  <2> DEFINE a == asked.peers[peer_i + 1].aips[aip_j + 1]
  <2>1. /\ place = "make_aip" /\ UNCHANGED <<IoVars, peer_i, packed, slots, twice>>
        /\ aip_j < Len(asked.peers[peer_i + 1].aips) /\ live' = live \cup {<<peer_i + 1, aip_j + 1>>}
        /\ \/ peer' = [peer EXCEPT !.aips = Append(@, a)] /\ aip_j' = aip_j + 1 /\ place' = place
           \/ place' = "err_peer" /\ UNCHANGED <<peer, aip_j>>
    BY <1>5 DEF MakeAip
  <2>2. Copied(asked, packed, TRUE) /\ Between(aip_j)
    BY <2>1 DEF FreeBsdInv, Writing, Owning
  <2>3. IsPeer(asked.peers[peer_i + 1])  BY <1>2, <2>2, DeviceCopies DEF Copied
  <2>4. PICK p : p = asked.peers[peer_i + 1]  OBVIOUS
  <2>5. aip_j \in Nat /\ Len(p.aips) \in Nat /\ aip_j < Len(p.aips) /\ peer_i \in Nat /\ peer_i < Len(asked.peers)
        /\ peer = PeerUpto(p, aip_j)
    BY <2>1, <2>2, <2>3, <2>4, PeerCopies DEF Copied
  <2>6. \A k \in Nat : k >= aip_j + 1 => Between(k)'
    <3> SUFFICES ASSUME NEW k \in Nat, k >= aip_j + 1  PROVE Between(k)'
      OBVIOUS
    <3>1. Inner(aip_j) \cup {<<peer_i + 1, aip_j + 1>>} \subseteq Inner(k)  BY <2>5 DEF Inner
    <3>2. Inner(k)' = Inner(k) /\ Heads' = Heads  BY <2>1 DEF Inner, Heads
    <3> QED  BY <2>1, <2>2, <3>1, <3>2, Zenon DEF Between
  <2>7. CASE place' = "err_peer"
    <3>1. Between(Len(asked.peers[peer_i + 1].aips))'  BY <1>1, <2>1, <2>4, <2>5, <2>6
    <3>2. Owning'  BY <1>1, <2>1, <2>7, <3>1 DEF Owning
    <3> QED
      BY <1>1, <2>1, <2>5, <2>7, <3>2 DEF FreeBsdInv, Reading, Writing, KeepsPromise, IoVars
  <2>8. CASE peer' = [peer EXCEPT !.aips = Append(@, a)] /\ aip_j' = aip_j + 1 /\ place' = place
    <3>1. peer' = PeerUpto(p, aip_j + 1)
      <4>1. IsPeer(p)  BY <2>3, <2>4
      <4>2. \A k \in Nat : \A c : k < Len(p.aips) /\ c = PeerUpto(p, k) =>
              [c EXCEPT !.aips = Append(@, p.aips[k + 1])] = PeerUpto(p, k + 1)
        BY <4>1, PeerCopies, Zenon
      <4>3. [peer EXCEPT !.aips = Append(@, p.aips[aip_j + 1])] = PeerUpto(p, aip_j + 1)  BY <2>5, <4>2, Zenon
      <4> QED  BY <2>4, <2>8, <4>3, Zenon
    <3>2. Copied(asked, packed, TRUE)'
      <4>1. peer_i' = peer_i /\ packed' = packed /\ aip_j' = aip_j + 1  BY <2>1, <2>8
      <4>2. aip_j + 1 \in 0 .. Len(p.aips)  BY <2>5
      <4> QED  BY <1>1, <2>2, <2>4, <3>1, <4>1, <4>2 DEF Copied
    <3>3. Between(aip_j)'  BY <2>5, <2>6, <2>8
    <3>4. Owning'  BY <1>1, <2>1, <2>8, <3>3 DEF Owning
    <3> QED
      BY <1>1, <2>1, <2>8, <3>2, <3>4 DEF FreeBsdInv, Reading, Writing, KeepsPromise, IoVars, Copied
  <2> QED  BY <2>1, <2>7, <2>8
<1>6. CASE ClosePeer
  <2>1. /\ place = "make_aip" /\ place' = "make_peer" /\ peer_i' = peer_i + 1 /\ UNCHANGED <<IoVars, slots, twice>>
        /\ aip_j = Len(asked.peers[peer_i + 1].aips)
        /\ live' = live \ {<<peer_i + 1, a>> : a \in 1 .. aip_j}
        /\ packed' = [packed EXCEPT !.peers = Append(@, peer)]
    BY <1>6 DEF ClosePeer
  <2>2. Copied(asked, packed, TRUE) /\ Between(aip_j)
    BY <2>1 DEF FreeBsdInv, Writing, Owning
  <2>3. IsPeer(asked.peers[peer_i + 1])  BY <1>2, <2>2, DeviceCopies DEF Copied
  <2>4. peer = asked.peers[peer_i + 1]  BY <2>1, <2>2, <2>3, PeerCopies DEF Copied
  <2>5. peer_i \in Nat /\ peer_i < Len(asked.peers) /\ packed = Upto(asked, peer_i) /\ peer_i + 1 \in 0 .. Len(asked.peers)
    BY <1>2, <2>2, DeviceCopies, CopiedPlace, Zenon
  <2>6. packed' = Upto(asked, peer_i + 1)
    <3>1. \A k \in Nat : \A c : k < Len(asked.peers) /\ c = Upto(asked, k) =>
            [c EXCEPT !.peers = Append(@, asked.peers[k + 1])] = Upto(asked, k + 1)
      BY <1>2, DeviceCopies, Zenon
    <3>2. [packed EXCEPT !.peers = Append(@, asked.peers[peer_i + 1])] = Upto(asked, peer_i + 1)
      BY <2>5, <3>1, Zenon
    <3> QED  BY <2>1, <2>4, <3>2, Zenon
  <2>7. Copied(asked, packed, FALSE)'  BY <1>1, <2>1, <2>5, <2>6 DEF Copied
  <2>8. Between(0)'
    <3>1. live' = live \ Inner(aip_j) /\ Heads' = Heads /\ Inner(0)' = {}  BY <2>1 DEF Inner, Heads
    <3>2. Heads \cap Inner(aip_j) = {}  BY DEF Heads, Inner
    <3> QED  BY <2>2, <3>1, <3>2, Zenon DEF Between
  <2>9. Owning'  BY <1>1, <2>1, <2>8 DEF Owning
  <2> QED
    BY <1>1, <2>1, <2>7, <2>9 DEF FreeBsdInv, Reading, Writing, KeepsPromise, IoVars, Copied
<1>7. CASE SetFails
  <2>1. UNCHANGED <<IoVars, peer_i, aip_j, peer, live, slots, packed, twice>>  BY <1>7 DEF SetFails
  <2>2. CASE place = "make_peer" /\ peer_i < Len(asked.peers) /\ place' = "err_peer"
    <3>1. peer_i \in 0 .. Len(asked.peers) /\ Between(0)  BY <2>2 DEF FreeBsdInv, Writing, Owning, Copied
    <3>2. Between(Len(asked.peers[peer_i + 1].aips))'
      <4>1. Inner(0) = {}  BY DEF Inner
      <4>2. Heads' = Heads /\ live' = live  BY <2>1, Zenon DEF Heads
      <4> QED  BY <3>1, <4>1, <4>2, Zenon DEF Between
    <3>3. Owning'  BY <1>1, <2>1, <2>2, <3>2 DEF Owning
    <3>4. peer_i \in Nat /\ asked' = asked /\ peer_i' = peer_i  BY <2>1, <3>1 DEF IoVars
    <3>5. Writing'  BY <1>1, <2>1, <2>2, <3>4 DEF FreeBsdInv, Writing, IoVars
    <3> QED
      BY <1>1, <2>1, <2>2, <3>3, <3>5 DEF FreeBsdInv, Reading, KeepsPromise, IoVars
  <2>3. CASE place = "make_aip" /\ aip_j < Len(asked.peers[peer_i + 1].aips) /\ place' = "err_peer"
    <3>1. Copied(asked, packed, TRUE) /\ Between(aip_j)  BY <2>3 DEF FreeBsdInv, Writing, Owning
    <3>2. IsPeer(asked.peers[peer_i + 1])  BY <1>2, <3>1, DeviceCopies DEF Copied
    <3>3. Between(Len(asked.peers[peer_i + 1].aips))'
      <4>1. PICK p : p = asked.peers[peer_i + 1]  OBVIOUS
      <4>2. Len(p.aips) \in Nat /\ aip_j \in Nat /\ aip_j < Len(p.aips)
        BY <2>3, <3>1, <3>2, <4>1, PeerCopies DEF Copied
      <4>3. Inner(aip_j) \subseteq Inner(Len(p.aips))
        <5>1. \A k, n \in Nat : k < n => 1 .. k \subseteq 1 .. n  OBVIOUS
        <5>2. 1 .. aip_j \subseteq 1 .. Len(p.aips)  BY <4>2, <5>1, Zenon
        <5> QED  BY <5>2, Zenon DEF Inner
      <4>4. Between(Len(p.aips))'
        <5>1. Inner(Len(p.aips))' = Inner(Len(p.aips)) /\ Heads' = Heads /\ live' = live
          BY <2>1 DEF Inner, Heads
        <5> QED  BY <3>1, <4>3, <5>1, Zenon DEF Between
      <4>5. asked'.peers[peer_i' + 1] = p  BY <1>1, <2>1, <4>1
      <4> QED  BY <4>4, <4>5
    <3>4. Owning'  BY <1>1, <2>1, <2>3, <3>3 DEF Owning
    <3>5. peer_i \in Nat /\ peer_i < Len(asked.peers)  BY <1>2, <3>1, DeviceCopies, CopiedPlace, Zenon
    <3> QED
      BY <1>1, <2>1, <2>3, <3>4, <3>5 DEF FreeBsdInv, Reading, Writing, KeepsPromise, IoVars
  <2>4. CASE place \in {"set", "make_peer"} /\ place' = "err"
    <3>1. Between(0)
      BY <2>4 DEF FreeBsdInv, Owning, Between, Heads
    <3>2. Between(0)'  BY <2>1, <3>1 DEF Between, Heads, Inner
    <3>3. Owning'  BY <1>1, <2>1, <2>4, <3>2 DEF Owning
    <3> QED
      BY <1>1, <2>1, <2>4, <3>3 DEF FreeBsdInv, Reading, Writing, KeepsPromise, IoVars
  <2> QED  BY <1>7, <2>2, <2>3, <2>4 DEF SetFails
<1>8. CASE ErrPeer
  <2>1. /\ place = "err_peer" /\ place' = "err" /\ UNCHANGED IoVars
        /\ live' = live \ OfPeer /\ twice' = (twice \/ ~(OfPeer \subseteq live)) /\ slots' = slots \ {peer_i + 1}
    BY <1>8 DEF ErrPeer
  <2>2. peer_i \in Nat /\ Between(Len(asked.peers[peer_i + 1].aips))  BY <2>1 DEF FreeBsdInv, Writing, Owning
  <2>3. OfPeer = (Inner(Len(asked.peers[peer_i + 1].aips)) \cap live) \cup {<<p>> : p \in slots \cap {peer_i + 1}}
    BY DEF OfPeer, Inner
  <2>4. OfPeer \subseteq live  BY <2>2, <2>3 DEF Between, Heads
  <2>5. Between(0)'
    <3>1. Heads' = Heads \ {<<peer_i + 1>>}  BY <2>1 DEF Heads
    <3>2. {<<p>> : p \in slots \cap {peer_i + 1}} = Heads \cap {<<peer_i + 1>>}  BY DEF Heads
    <3>3. Heads \cap Inner(Len(asked.peers[peer_i + 1].aips)) = {}  BY DEF Heads, Inner
    <3> QED  BY <2>1, <2>2, <2>3, <3>1, <3>2, <3>3, Zenon DEF Between
  <2>6. Owning'  BY <1>1, <2>1, <2>4, <2>5 DEF Owning
  <2> QED
    BY <1>1, <2>1, <2>6 DEF FreeBsdInv, Reading, Writing, KeepsPromise, IoVars
<1>9. ASSUME place \in {"err", "make_peer"}, DestroyAll, place' = "done"
      PROVE  Owning'
  <2>1. Between(0)  BY <1>9 DEF FreeBsdInv, Owning
  <2>2. Inner(0) = {}  BY DEF Inner
  <2>3. live' = {} /\ slots' = {} /\ ~twice'
    BY <1>1, <1>9, <2>1, <2>2 DEF DestroyAll, Between, Heads
  <2> QED  BY <1>1, <1>9, <2>3 DEF Owning
<1>10. CASE Err
  <2>1. place = "err" /\ DestroyAll /\ Answer("error", NULL) /\ UNCHANGED <<op, asked, kern, held, taken>>
    BY <1>10 DEF Err
  <2>2. Owning' /\ place' = "done"  BY <1>9, <2>1 DEF Answer
  <2>3. Fail  BY <1>1, <2>1 DEF Fail, Answer, Error
  <2> QED
    BY <1>1, <2>1, <2>2, <2>3 DEF FreeBsdInv, Reading, Writing, KeepsPromise, IoNext
<1>11. CASE Submit
  <2>1. /\ place = "make_peer" /\ peer_i = Len(asked.peers) /\ DestroyAll /\ UNCHANGED <<op, asked, kern, held>>
        /\ \/ taken' = packed /\ Answer("ok", NULL)
           \/ Answer("error", NULL) /\ UNCHANGED taken
    BY <1>11 DEF Submit
  <2>2. Owning' /\ place' = "done"  BY <1>9, <2>1 DEF Answer
  <2>3. packed = asked  BY <1>2, <2>1, DeviceCopies DEF FreeBsdInv, Writing, Copied
  <2>4. Accept \/ Fail  BY <1>1, <2>1, <2>3 DEF Accept, Fail, Answer, Error
  <2> QED
    BY <1>1, <2>1, <2>2, <2>4 DEF FreeBsdInv, Reading, Writing, KeepsPromise, IoNext
<1> QED  BY <1>3, <1>4, <1>5, <1>6, <1>7, <1>8, <1>10, <1>11 DEF Set

(***************************************************************************)
(* The theorems.                                                           *)
(***************************************************************************)
LEMMA InvNext ==
  ASSUME Described(Requests), FreeBsdInv, [FNext]_fvars
  PROVE  FreeBsdInv' /\ KeepsPromise
<1>1. CASE FNext
  <2>1. op = "get" => ~Set
    BY DEF FreeBsdInv, Reading, Set, BeginSet, MakePeer, MakeAip, ClosePeer, SetFails, ErrPeer, Err, Submit
  <2>2. op = "set" => ~Get /\ ~Other
    BY DEF FreeBsdInv, Writing, Other, Get, AskSize, Fetch, ReadPeer, ReadAip, LinkPeer, GetReturns, GetFails
  <2> QED  BY <1>1, <2>1, <2>2, GetKeeps, SetKeeps DEF FNext, FreeBsdInv
<1>2. CASE UNCHANGED fvars
  <2>1. /\ UNCHANGED IoVars /\ UNCHANGED <<op, asked, kern, held, answer>>
        /\ UNCHANGED <<place, data, peer_i, aip_j, dev, peer, live, slots, packed, twice>>
    BY <1>2 DEF fvars, local, IoVars
  <2>2. Reading' /\ Writing'  BY <2>1 DEF FreeBsdInv, Reading, Writing, Copied
  <2>3. Owning'  BY <2>1 DEF FreeBsdInv, Owning, Between, Heads, Inner
  <2> QED  BY <2>1, <2>2, <2>3 DEF FreeBsdInv, KeepsPromise
<1> QED  BY <1>1, <1>2

\* The inductive invariant: at each statement what was copied is a beginning of
\* what the kernel gave or was asked for, and the nvlists alive are those the
\* statements so far created and have not destroyed (ipc-freebsd.h).
THEOREM FreeBsdInvariant ==
  ASSUME Described(Requests)
  PROVE  FSpec => []FreeBsdInv
<1> QED  BY InvInit, InvNext, PTL DEF FSpec

\* The calls of FreeBSD implement DeviceIo: a reader returns the device of one
\* moment or an error, a writer has the kernel take the whole request or nothing
\* (kernel_get_device, kernel_set_device of ipc-freebsd.h).
THEOREM FreeBsdKeepsPromise ==
  ASSUME Described(Requests)
  PROVE  FSpec => IoInit(Requests) /\ [][IoNext]_IoVars
<1>1. FInit => IoInit(Requests)  BY DEF FInit
<1>2. FreeBsdInv /\ [FNext]_fvars => [IoNext]_IoVars  BY InvNext DEF KeepsPromise
<1> QED  BY <1>1, <1>2, FreeBsdInvariant, PTL DEF FSpec

\* Whatever step fails, every nvlist is destroyed once, and none is left when the
\* call returns (err_peer, err, the loops of kernel_set_device).
THEOREM FreeBsdDestroysOnce ==
  ASSUME Described(Requests)
  PROVE  FSpec => []ListsDestroyedOnce
<1>1. FreeBsdInv => ListsDestroyedOnce  BY DEF FreeBsdInv, Owning, ListsDestroyedOnce
<1> QED  BY <1>1, FreeBsdInvariant, PTL

(***************************************************************************)
(* DeviceList: the list of names stays inside its buffer for names of      *)
(* every length and every number of names, also when the doubling of the   *)
(* capacity wraps around.                                                  *)
(***************************************************************************)
(* Leaves are for Zenon, and for the SMT solver where they say so.          *)
USE Zenon

(* The new capacity is a size_t that holds what is there, the new name     *)
(* with its terminator and one terminator more.                            *)
LEMMA NewCapHolds ==
    ASSUME len \in Nat, cap \in Nat, NEW l \in Nat, len + l + 1 < SizeMod
    PROVE  NewCap(l) \in Nat /\ NewCap(l) >= len + l + 1 /\ NewCap(l) < SizeMod
<1>1. (cap * 2) % SizeMod \in 0 .. SizeMod - 1
  BY SizeAssumption, SMT
<1> QED BY <1>1, SizeAssumption, SMT DEF NewCap

\* The invariant of the list of names holds at the start.
LEMMA InitInv == Init => Inv
BY SizeAssumption, SMT DEF Init, Inv

\* Every call of string_list_add preserves it.
LEMMA NextInv == Inv /\ [Next]_vars => Inv'
<1> SUFFICES ASSUME Inv, [Next]_vars PROVE Inv'
  OBVIOUS
<1>1. CASE UNCHANGED vars
  BY <1>1 DEF Inv, vars
<1>2. CASE Next
  <2>1. PICK n \in Lengths : Add(n)
    BY <1>2 DEF Next
  <2>2. n \in Nat /\ len + n + 2 < SizeMod
    BY <2>1, SizeAssumption DEF Add
  <2>3. CASE AddEmpty(n)
    BY <2>3 DEF AddEmpty, Inv
  <2>4. CASE AddFails(n)
    BY <2>4 DEF AddFails, Inv
  <2>5. CASE AddFits(n)
    <3>1. ~(n + 1 >= cap - len) /\ cap' = cap /\ bytes' = bytes /\ len' = len + (n + 1) /\ written' = len' + 1
      BY <2>5 DEF AddFits, Grows, Store
    <3> QED BY <3>1, <2>2, SMT DEF Inv
  <2>6. CASE AddGrows(n)
    <3>1. cap' = NewCap(n + 1) /\ bytes' = NewCap(n + 1) /\ len' = len + (n + 1) /\ written' = len' + 1
      BY <2>6 DEF AddGrows, Store
    <3>2. NewCap(n + 1) \in Nat /\ NewCap(n + 1) >= len + (n + 1) + 1 /\ NewCap(n + 1) < SizeMod
      <4>1. n + 1 \in Nat /\ len + (n + 1) + 1 < SizeMod
        BY <2>2, SMT DEF Inv
      <4> QED BY <4>1, NewCapHolds DEF Inv
    <3> QED BY <3>1, <3>2, <2>2, SMT DEF Inv
  <2> QED BY <2>1, <2>3, <2>4, <2>5, <2>6 DEF Add
<1> QED BY <1>1, <1>2

(* string_list_add never writes outside the buffer, whatever the lengths   *)
(* of the names and however many there are.                                *)
THEOREM StaysInBounds == Spec => []InBounds
<1>1. Inv => InBounds
  BY SMT DEF Inv, InBounds
<1> QED BY <1>1, InitInv, NextInv, PTL DEF Spec

(* A failing call changes nothing and no call shortens the list: what was  *)
(* added stays added.                                                      *)
THEOREM NamesAreKept == Spec => KeepsNames
<1> DEFINE Keeps == /\ len' >= len /\ cap' >= len' /\ written' >= written
                    /\ ret' = -1 => len' = len /\ written' = written
<1>1. Inv /\ Inv' /\ [Next]_vars => [Keeps]_vars
  <2> SUFFICES ASSUME Inv, Inv', Next PROVE Keeps
    BY DEF vars
  <2>1. PICK n \in Lengths : Add(n)
    BY DEF Next
  <2>2. n \in Nat
    BY <2>1, SizeAssumption
  <2>3. CASE AddEmpty(n)
    BY <2>3, SMT DEF AddEmpty, Inv
  <2>4. CASE AddFails(n)
    BY <2>4, SMT DEF AddFails, Inv
  <2>5. CASE AddFits(n) \/ AddGrows(n)
    <3>1. len' = len + (n + 1) /\ written' = len' + 1 /\ ret' = 0
      BY <2>5 DEF AddFits, AddGrows, Store
    <3>2. len \in Nat /\ cap' \in Nat /\ written \in Nat /\ written <= len + 1 /\ len' \in Nat
      BY SMT DEF Inv
    <3>3. cap' >= len'
      BY <3>1, <3>2, <2>2, SMT DEF Inv
    <3> QED BY <3>1, <3>2, <3>3, <2>2, SMT
  <2> QED BY <2>1, <2>3, <2>4, <2>5 DEF Add
<1> QED BY <1>1, InitInv, NextInv, PTL DEF Spec, KeepsNames
=============================================================================

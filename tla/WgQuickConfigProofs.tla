------------------------ MODULE WgQuickConfigProofs ------------------------
(***************************************************************************)
(* Proofs about what wg-quick makes of its file (WgQuickConfig): for every *)
(* file, list of packages, host, number of uids and size of a batch, the   *)
(* commands carry what the file says (FileObeyed); and for every list of   *)
(* servers and domains, whichever call of the resolver fails, they are set *)
(* once or not at all, in a whole parcelable (NameServersSetOnce).         *)
(***************************************************************************)
EXTENDS WgQuickConfig, WellFoundedInduction, TLAPS

(***************************************************************************)
(* The resolver.  What is in the parcel before each call of the second     *)
(* transaction, and what is held and has been taken before each call.      *)
(***************************************************************************)
ParamWords == {"1800", "25", "8", "5000", "2"}
Word(r) == Nat \cup {NetId, "0", "1"} \cup ParamWords \cup Range(r.servers) \cup Range(r.domains)

(* The first n fields, all of them without their size and with it. *)
Params == <<NetId, "1800", "25", "8", "8", "5000", "2">>
Body(r, n) ==
  LET lists == Params \o Counted(r.servers) \o Counted(r.domains)
  IN  IF n < 8 THEN SubSeq(Params, 1, n)
      ELSE IF n = 8 THEN Params \o Counted(r.servers)
      ELSE IF n = 9 THEN lists
      ELSE IF n = 10 THEN lists \o Counted(<<>>)
      ELSE IF n = 11 THEN lists \o Counted(<<>>) \o Counted(<<>>)
      ELSE lists \o Counted(<<>>) \o Counted(<<>>) \o Counted(<<>>)

Begun(r) == <<"1", "0">> \o Body(r, 12)
Full(r) == <<"1", Len(Body(r, 12)) + 1>> \o Body(r, 12)

(* The parcel before a call of the second transaction. *)
Filled ==
  /\ call = 2 => parcel = NoParcel
  /\ call \in 3 .. 4 => parcel = [data |-> <<"1">>, pos |-> 1]
  /\ call >= 4 => startPos = 1
  /\ call \in 5 .. 17 => parcel = [data |-> <<"1", "0">> \o Body(asked, call - 5), pos |-> 2 + Len(Body(asked, call - 5))]
  /\ call >= 18 => endPos = Len(Begun(asked))
  /\ call = 18 => parcel = [data |-> Begun(asked), pos |-> Len(Begun(asked))]
  /\ call = 19 => parcel = [data |-> Begun(asked), pos |-> 1]
  /\ call = 20 => parcel = [data |-> Full(asked), pos |-> 2]
  /\ call >= 21 => parcel.data = Full(asked)

Objects(last) ==
  {"binder"} \cup (IF call \in 2 .. last - 1 THEN {"in"} ELSE {}) \cup (IF call = last THEN {"out"} ELSE {})

DnsInv ==
  /\ asked \in Requests
  /\ doing \in {"load", "handle", "create", "configure", "ndc", "set", "done", "exit"}
  /\ taken \in {<<>>, <<Full(asked)>>}
  /\ doing \in {"load", "handle", "ndc"} => held = {}
  /\ doing \in {"load", "handle", "ndc", "create"} => taken = <<>> /\ ndc = <<>>
  /\ doing = "create" =>
       /\ call \in 1 .. 4 /\ held = Objects(4)
       /\ call = 4 /\ reply => cache
  /\ doing = "configure" =>
       /\ call \in 1 .. 22 /\ held = Objects(22)
       /\ cache /\ ndc = <<>> /\ Filled
       /\ taken = IF call = 22 /\ reply THEN <<Full(asked)>> ELSE <<>>
  /\ doing \in {"set", "exit"} => held \subseteq {"binder"}
  /\ doing = "done" => held = {}
  /\ doing \in {"set", "done"} => (taken = <<Full(asked)>> /\ ndc = <<>> /\ cache) \/ (taken = <<>> /\ Len(ndc) = 1)

\* set_dnses: see DnsSetOnce.
THEOREM NameServersSetOnce == ASSUME RequestsListed PROVE DSpec => []DnsSetOnce
\* Sequences with the same elements.
<1>SameWords.
    ASSUME NEW S, NEW s \in Seq(S), NEW t \in Seq(S), Len(s) = Len(t), \A n \in 1 .. Len(s) : s[n] = t[n]
    PROVE  s = t
  BY <1>SameWords

\* Sequences one after the other.
<1>OneAfterOther.
    ASSUME NEW S, NEW a \in Seq(S), NEW b \in Seq(S)
    PROVE  /\ a \o b \in Seq(S) /\ Len(a) \in Nat /\ Len(b) \in Nat /\ Len(a \o b) = Len(a) + Len(b)
           /\ \A n \in 1 .. Len(a) : (a \o b)[n] = a[n]
           /\ \A n \in 1 .. Len(b) : (a \o b)[Len(a) + n] = b[n]
  OBVIOUS

<1>NothingAfter.
    ASSUME NEW S, NEW a \in Seq(S)
    PROVE  a \o <<>> = a
  <2>1. <<>> \in Seq(S) /\ a \o <<>> \in Seq(S) /\ Len(a \o <<>>) = Len(a)
    OBVIOUS
  <2> QED  BY <2>1, <1>SameWords

\* A sequence and one more.
<1>AndOneMore.
    ASSUME NEW S, NEW a \in Seq(S), NEW x \in S
    PROVE  /\ a \o <<x>> \in Seq(S) /\ Len(a) \in Nat /\ Len(a \o <<x>>) = Len(a) + 1
           /\ (a \o <<x>>)[Len(a) + 1] = x
           /\ \A n \in 1 .. Len(a) : (a \o <<x>>)[n] = a[n]
  <2>1. PICK u : u = <<x>>
    OBVIOUS
  <2>2. u \in Seq(S) /\ Len(u) = 1 /\ u[1] = x /\ 1 \in 1 .. 1
    BY <2>1
  <2>3. /\ a \o u \in Seq(S) /\ Len(a) \in Nat /\ Len(a \o u) = Len(a) + Len(u)
        /\ \A n \in 1 .. Len(a) : (a \o u)[n] = a[n]
        /\ \A n \in 1 .. Len(u) : (a \o u)[Len(a) + n] = u[n]
    <3>1. u \in Seq(S)
      BY <2>2
    <3> QED  BY <3>1, <1>OneAfterOther
  <2>4. (a \o u)[Len(a) + 1] = x
    BY <2>2, <2>3, Zenon
  <2> QED  BY <2>1, <2>2, <2>3, <2>4, Zenon

\* Short sequences.
<1>TwoWords.
    ASSUME NEW S, NEW x \in S, NEW y \in S
    PROVE  <<x>> \in Seq(S) /\ <<x, y>> \in Seq(S) /\ <<x>> \o <<y>> = <<x, y>>
  <2>1. PICK a, d : a = <<x>> /\ d = <<x, y>>
    OBVIOUS
  <2>2. a \in Seq(S)
    BY <2>1
  <2>3. /\ a \in Seq(S) /\ Len(a) = 1 /\ a[1] = x
        /\ d \in Seq(S) /\ Len(d) = 2 /\ d[1] = x /\ d[2] = y
    BY <2>1
  <2>4. /\ a \o <<y>> \in Seq(S) /\ Len(a \o <<y>>) = Len(a) + 1 /\ (a \o <<y>>)[Len(a) + 1] = y
        /\ \A n \in 1 .. Len(a) : (a \o <<y>>)[n] = a[n]
    BY <2>2, <1>AndOneMore
  <2>5. /\ a \o <<y>> \in Seq(S) /\ Len(a \o <<y>>) = 1 + 1 /\ (a \o <<y>>)[1 + 1] = y
        /\ \A n \in 1 .. 1 : (a \o <<y>>)[n] = a[n]
    BY <2>3, <2>4, Zenon
  <2>6. \A n \in 1 .. 2 : n = 1 \/ n = 1 + 1
    OBVIOUS
  <2>7. \A n \in 1 .. 2 : (a \o <<y>>)[n] = d[n]
    BY <2>3, <2>5, <2>6
  <2>8. a \o <<y>> = d
    BY <2>3, <2>5, <2>7, <1>SameWords
  <2> QED  BY <2>1, <2>3, <2>8, Zenon

\* The first n of a sequence.
<1>FirstOf.
    ASSUME NEW S, NEW s \in Seq(S), NEW n \in 0 .. Len(s)
    PROVE  /\ SubSeq(s, 1, n) \in Seq(S) /\ Len(SubSeq(s, 1, n)) = n
           /\ \A m \in 1 .. n : SubSeq(s, 1, n)[m] = s[m]
  <2>1. PICK t : t = SubSeq(s, 1, n)
    OBVIOUS
  <2>2. t \in Seq(S) /\ Len(t) = n /\ \A m \in 1 .. n : t[m] = s[m]
    BY <2>1
  <2> QED  BY <2>1, <2>2, Zenon

<1>OneMore.
    ASSUME NEW S, NEW s \in Seq(S), NEW n \in Nat, n < Len(s)
    PROVE  s[n + 1] \in S /\ SubSeq(s, 1, n) \o <<s[n + 1]>> = SubSeq(s, 1, n + 1)
  <2>1. PICK a, b, e : a = SubSeq(s, 1, n) /\ b = SubSeq(s, 1, n + 1) /\ e = s[n + 1]
    OBVIOUS
  <2>2. n \in 0 .. Len(s) /\ n + 1 \in 0 .. Len(s) /\ n + 1 \in 1 .. Len(s)
    BY <1>OneMore
  <2>3. /\ a \in Seq(S) /\ Len(a) = n /\ (\A m \in 1 .. n : a[m] = s[m])
        /\ b \in Seq(S) /\ Len(b) = n + 1 /\ (\A m \in 1 .. n + 1 : b[m] = s[m])
    BY <2>1, <2>2, <1>FirstOf, Zenon
  <2>4. e \in S
    BY <2>1, <2>2
  <2>5. PICK u : u = a \o <<e>>
    OBVIOUS
  <2>6. u \in Seq(S) /\ Len(u) = n + 1 /\ u[n + 1] = e /\ \A m \in 1 .. n : u[m] = a[m]
    <3>1. /\ a \o <<e>> \in Seq(S) /\ Len(a \o <<e>>) = Len(a) + 1 /\ (a \o <<e>>)[Len(a) + 1] = e
          /\ \A m \in 1 .. Len(a) : (a \o <<e>>)[m] = a[m]
      <4>1. a \in Seq(S)
        BY <2>3
      <4> QED  BY <2>4, <4>1, <1>AndOneMore
    <3> QED  BY <2>3, <2>5, <3>1, Zenon
  <2>7. \A m \in 1 .. n + 1 : m \in 1 .. n \/ m = n + 1
    OBVIOUS
  <2>8. \A m \in 1 .. n + 1 : u[m] = b[m]
    <3>1. b[n + 1] = e /\ \A m \in 1 .. n : b[m] = s[m]
      BY <2>1, <2>3
    <3> QED  BY <2>3, <2>6, <2>7, <3>1, Zenon
  <2>9. u = b
    BY <2>3, <2>6, <2>8, <1>SameWords
  <2> QED  BY <2>1, <2>4, <2>5, <2>9, Zenon

<1>OneAfterTwo.
    ASSUME NEW S, NEW a \in Seq(S), NEW b \in Seq(S), NEW c \in Seq(S)
    PROVE  (a \o b) \o c = a \o (b \o c)
  <2> DEFINE l == (a \o b) \o c
             r == a \o (b \o c)
  <2>1. l \in Seq(S) /\ r \in Seq(S) /\ Len(l) = Len(r) /\ Len(l) = Len(a) + Len(b) + Len(c)
    BY <1>OneAfterOther
  <2>2. \A n \in 1 .. Len(l) : l[n] = r[n]
    OBVIOUS
  <2> HIDE DEF l, r
  <2>3. l = r
    BY <2>1, <2>2, <1>SameWords
  <2> QED  BY <2>3 DEF l, r

\* Replacing the second word of a sequence.
<1>SecondWord.
    ASSUME NEW S, NEW b \in Seq(S), NEW x \in S, NEW y \in S
    PROVE  /\ SubSeq(<<x, y>> \o b, 1, 1) = <<x>>
           /\ SubSeq(<<x, y>> \o b, 3, Len(<<x, y>> \o b)) = b
           /\ Len(<<x, y>> \o b) = Len(b) + 2 /\ Len(b) \in Nat
           /\ (<<x, y>> \o b)[1] = x /\ (<<x, y>> \o b)[2] = y
  <2>1. PICK f, d : f = <<x, y>> /\ d = f \o b
    OBVIOUS
  <2>2. f \in Seq(S) /\ Len(f) = 2 /\ f[1] = x /\ f[2] = y
    BY <2>1
  <2>3. /\ d \in Seq(S) /\ Len(b) \in Nat /\ Len(d) = Len(b) + 2 /\ d[1] = x /\ d[2] = y
        /\ \A n \in 1 .. Len(b) : d[2 + n] = b[n]
    BY <2>1, <2>2, <1>OneAfterOther
  <2>4. SubSeq(d, 1, 1) = <<x>>
    <3>1. PICK t, o : t = SubSeq(d, 1, 1) /\ o = <<x>>
      OBVIOUS
    <3>2. t \in Seq(S) /\ Len(t) = 1 /\ \A n \in 1 .. 1 : t[n] = x
      BY <2>3, <3>1
    <3>3. o \in Seq(S) /\ Len(o) = 1 /\ \A n \in 1 .. 1 : o[n] = x
      BY <3>1
    <3>4. t = o
      BY <3>2, <3>3, <1>SameWords
    <3> QED  BY <3>1, <3>4
  <2>5. SubSeq(d, 3, Len(d)) = b
    <3>1. PICK t : t = SubSeq(d, 3, Len(d))
      OBVIOUS
    <3>2. t \in Seq(S) /\ Len(t) = Len(b) /\ \A n \in 1 .. Len(b) : t[n] = d[2 + n]
      BY <2>3, <3>1
    <3> QED  BY <2>3, <3>1, <3>2, <1>SameWords
  <2> QED  BY <2>1, <2>3, <2>4, <2>5, Zenon
\* The operations of the calls of the second transaction, and its writes.
<1>SetOpsAre.
    /\ SetCalls[1].op = "prepare" /\ SetCalls[3].op = "start"
    /\ SetCalls[17].op = "end" /\ SetCalls[18].op = "seekStart" /\ SetCalls[19].op = "patch"
    /\ SetCalls[20].op = "seekEnd" /\ SetCalls[21].op = "transact" /\ SetCalls[22].op = "read"
  <2>1. \A name : Op(name).op = name
    BY DEF Op
  <2>2. SetCalls[1] = Op("prepare") /\ SetCalls[3] = Op("start") /\ SetCalls[17] = Op("end") /\ SetCalls[18] = Op("seekStart")
    BY DEF SetCalls
  <2>3. SetCalls[19] = Op("patch") /\ SetCalls[20] = Op("seekEnd") /\ SetCalls[21] = Op("transact") /\ SetCalls[22] = Op("read")
    BY DEF SetCalls
  <2> QED  BY <2>1, <2>2, <2>3, Zenon

<1>SetWritesAre.
    /\ SetCalls[2] = Int32("1") /\ SetCalls[4] = Int32("0")
    /\ \A n \in 5 .. 11 : SetCalls[n] = Int32(Params[n - 4])
    /\ SetCalls[12] = Array(asked.servers) /\ SetCalls[13] = Array(asked.domains)
    /\ SetCalls[14] = Array(<<>>) /\ SetCalls[15] = Array(<<>>) /\ SetCalls[16] = Array(<<>>)
  <2>1. SetCalls[2] = Int32("1") /\ SetCalls[4] = Int32("0")
    BY DEF SetCalls
  <2>2. SetCalls[12] = Array(asked.servers) /\ SetCalls[13] = Array(asked.domains)
    BY DEF SetCalls
  <2>3. SetCalls[14] = Array(<<>>) /\ SetCalls[15] = Array(<<>>) /\ SetCalls[16] = Array(<<>>)
    BY DEF SetCalls
  <2>4. ASSUME NEW n \in 5 .. 11 PROVE SetCalls[n] = Int32(Params[n - 4])
    <3>1. n = 5 \/ n = 6 \/ n = 7 \/ n = 8 \/ n = 9 \/ n = 10 \/ n = 11
      OBVIOUS
    <3>2. /\ SetCalls[5] = Int32(NetId) /\ SetCalls[6] = Int32("1800") /\ SetCalls[7] = Int32("25")
          /\ SetCalls[8] = Int32("8") /\ SetCalls[9] = Int32("8") /\ SetCalls[10] = Int32("5000")
          /\ SetCalls[11] = Int32("2")
      BY DEF SetCalls
    <3>3. /\ Params[5 - 4] = NetId /\ Params[6 - 4] = "1800" /\ Params[7 - 4] = "25" /\ Params[8 - 4] = "8"
          /\ Params[9 - 4] = "8" /\ Params[10 - 4] = "5000" /\ Params[11 - 4] = "2"
      BY DEF Params
    <3> QED  BY <3>1, <3>2, <3>3, Zenon
  <2> QED  BY <2>1, <2>2, <2>3, <2>4, Zenon

\* The words of the fields.
<1>FieldsAre.
    /\ \A n \in 2 .. 16 : n # 3 => SetCalls[n].op = "write"
    /\ SetCalls[2].words = <<"1">> /\ SetCalls[4].words = <<"0">>
    /\ \A n \in 5 .. 11 : SetCalls[n].words = <<Params[n - 4]>>
    /\ SetCalls[12].words = Counted(asked.servers) /\ SetCalls[13].words = Counted(asked.domains)
    /\ SetCalls[14].words = Counted(<<>>) /\ SetCalls[15].words = Counted(<<>>) /\ SetCalls[16].words = Counted(<<>>)
  <2>1. \A v : Int32(v).op = "write" /\ Int32(v).words = <<v>>
    BY DEF Int32
  <2>2. \A v : Array(v).op = "write" /\ Array(v).words = Counted(v)
    BY DEF Array, Counted
  <2>3. \A n \in 2 .. 16 : n = 2 \/ n = 3 \/ n = 4 \/ n \in 5 .. 11 \/ n = 12 \/ n = 13 \/ n = 14 \/ n = 15 \/ n = 16
    OBVIOUS
  <2>4. \A n \in 5 .. 11 : SetCalls[n].op = "write" /\ SetCalls[n].words = <<Params[n - 4]>>
    <3>1. \A n \in 5 .. 11 : SetCalls[n] = Int32(Params[n - 4])
      BY <1>SetWritesAre, Zenon
    <3> QED  BY <2>1, <3>1, Zenon
  <2>5. SetCalls[2].op = "write" /\ SetCalls[2].words = <<"1">> /\ SetCalls[4].op = "write" /\ SetCalls[4].words = <<"0">>
    <3>1. SetCalls[2] = Int32("1") /\ SetCalls[4] = Int32("0")
      BY <1>SetWritesAre, Zenon
    <3> QED  BY <2>1, <3>1, Zenon
  <2>6. /\ SetCalls[12].op = "write" /\ SetCalls[12].words = Counted(asked.servers)
        /\ SetCalls[13].op = "write" /\ SetCalls[13].words = Counted(asked.domains)
    <3>1. SetCalls[12] = Array(asked.servers) /\ SetCalls[13] = Array(asked.domains)
      BY <1>SetWritesAre, Zenon
    <3> QED  BY <2>2, <3>1, Zenon
  <2>7. /\ SetCalls[14].op = "write" /\ SetCalls[14].words = Counted(<<>>)
        /\ SetCalls[15].op = "write" /\ SetCalls[15].words = Counted(<<>>)
        /\ SetCalls[16].op = "write" /\ SetCalls[16].words = Counted(<<>>)
    <3>1. SetCalls[14] = Array(<<>>) /\ SetCalls[15] = Array(<<>>) /\ SetCalls[16] = Array(<<>>)
      BY <1>SetWritesAre, Zenon
    <3> QED  BY <2>2, <3>1, Zenon
  <2> QED  BY <2>3, <2>4, <2>5, <2>6, <2>7, Zenon

\* The lists of words.
<1>WordLists.
    ASSUME RequestsListed, asked \in Requests
    PROVE  /\ Counted(asked.servers) \in Seq(Word(asked)) /\ Counted(asked.domains) \in Seq(Word(asked))
           /\ Params \in Seq(Word(asked)) /\ Len(Params) = 7
           /\ Counted(<<>>) \in Seq(Word(asked)) /\ "0" \in Word(asked) /\ "1" \in Word(asked)
  <2>1. ASSUME NEW l, l \in Seq(Range(l)), Range(l) \subseteq Word(asked) PROVE Counted(l) \in Seq(Word(asked))
    <3>1. l \in Seq(Word(asked)) /\ Len(l) \in Nat
      BY <2>1
    <3>2. Len(l) \in Word(asked)
      BY <3>1 DEF Word
    <3>3. <<Len(l)>> \in Seq(Word(asked))
      BY <3>2
    <3> QED  BY <3>1, <3>3, <1>OneAfterOther DEF Counted
  <2>2. Range(asked.servers) \subseteq Word(asked) /\ Range(asked.domains) \subseteq Word(asked)
    BY DEF Word
  <2>3. asked.servers \in Seq(Range(asked.servers)) /\ asked.domains \in Seq(Range(asked.domains))
    BY <1>WordLists DEF RequestsListed
  <2>4. 0 \in Word(asked) /\ {"0", "1"} \subseteq Word(asked) /\ NetId \in Word(asked) /\ ParamWords \subseteq Word(asked)
    BY DEF Word
  <2>5. Params \in Seq(Word(asked)) /\ Len(Params) = 7
    BY <2>4 DEF Params, ParamWords
  <2>6. <<>> \in Seq(Range(<<>>)) /\ Range(<<>>) \subseteq Word(asked)
    BY DEF Range
  <2> QED  BY <2>1, <2>2, <2>3, <2>4, <2>5, <2>6

\* The body is a sequence of words, and each field makes it longer by its words.
<1>BodyGrows.
    ASSUME RequestsListed, asked \in Requests
    PROVE  /\ Body(asked, 0) = <<>> /\ Body(asked, 12) = Parcelable
           /\ \A n \in 0 .. 12 : Body(asked, n) \in Seq(Word(asked))
           /\ \A n \in 0 .. 11 : /\ SetCalls[n + 5].words \in Seq(Word(asked))
                                 /\ Body(asked, n) \o SetCalls[n + 5].words = Body(asked, n + 1)
  <2>1. PICK H, S, D, z : H = Params /\ S = Counted(asked.servers) /\ D = Counted(asked.domains) /\ z = Counted(<<>>)
    OBVIOUS
  <2>2. /\ H \in Seq(Word(asked)) /\ Len(H) = 7 /\ S \in Seq(Word(asked)) /\ D \in Seq(Word(asked))
        /\ z \in Seq(Word(asked))
    BY <1>BodyGrows, <2>1, <1>WordLists
  <2>3. PICK HS, HSD, two : HS = H \o S /\ HSD = HS \o D /\ two = (HSD \o z) \o z
    OBVIOUS
  <2>4. /\ \A n \in 0 .. 7 : Body(asked, n) = SubSeq(H, 1, n)
        /\ Body(asked, 8) = HS /\ Body(asked, 9) = HSD /\ Body(asked, 10) = HSD \o z
        /\ Body(asked, 11) = two /\ Body(asked, 12) = two \o z /\ Parcelable = two \o z
    <3>1. \A n \in 0 .. 7 : n < 8
      OBVIOUS
    <3>2. Parcelable = two \o z
      BY <2>1, <2>3, Zenon DEF Parcelable, Params
    <3> QED  BY <2>1, <2>3, <3>1, <3>2 DEF Body
  <2>5. /\ \A n \in 0 .. 6 : SetCalls[n + 5].words = <<H[n + 1]>>
        /\ SetCalls[12].words = S /\ SetCalls[13].words = D
        /\ SetCalls[14].words = z /\ SetCalls[15].words = z /\ SetCalls[16].words = z
    <3>1. \A n \in 0 .. 6 : n + 5 \in 5 .. 11 /\ (n + 5) - 4 = n + 1
      OBVIOUS
    <3> QED  BY <2>1, <3>1, <1>FieldsAre
  <2>6. SubSeq(H, 1, 0) = <<>> /\ SubSeq(H, 1, 7) = H
    BY <2>2
  <2>7. \A n \in 0 .. 7 : SubSeq(H, 1, n) \in Seq(Word(asked))
    <3>1. H \in Seq(Word(asked)) /\ \A n \in 0 .. 7 : n \in 0 .. Len(H)
      BY <2>2
    <3> QED  BY <3>1, <1>FirstOf
  <2>8. \A n \in 0 .. 6 : H[n + 1] \in Word(asked) /\ SubSeq(H, 1, n) \o <<H[n + 1]>> = SubSeq(H, 1, n + 1)
    <3>1. H \in Seq(Word(asked)) /\ \A n \in 0 .. 6 : n \in Nat /\ n < Len(H)
      BY <2>2
    <3> QED  BY <3>1, <1>OneMore
  <2>9. \A n \in 0 .. 6 : <<H[n + 1]>> \in Seq(Word(asked))
    BY <2>8
  <2>10. HS \in Seq(Word(asked)) /\ HSD \in Seq(Word(asked))
    BY <2>2, <2>3, <1>OneAfterOther
  <2>11. HSD \o z \in Seq(Word(asked)) /\ two \in Seq(Word(asked)) /\ two \o z \in Seq(Word(asked))
    <3>1. HSD \o z \in Seq(Word(asked))
      BY <2>2, <2>10, <1>OneAfterOther
    <3>2. two \in Seq(Word(asked))
      BY <2>2, <2>3, <3>1, <1>OneAfterOther
    <3> QED  BY <2>2, <3>1, <3>2, <1>OneAfterOther
  <2>12. \A n \in 0 .. 12 : Body(asked, n) \in Seq(Word(asked))
    <3>1. \A n \in 0 .. 12 : n \in 0 .. 7 \/ n = 8 \/ n = 9 \/ n = 10 \/ n = 11 \/ n = 12
      OBVIOUS
    <3> QED  BY <2>4, <2>7, <2>10, <2>11, <3>1, Zenon
  <2>13. ASSUME NEW n \in 0 .. 11
         PROVE  SetCalls[n + 5].words \in Seq(Word(asked)) /\ Body(asked, n) \o SetCalls[n + 5].words = Body(asked, n + 1)
    <3>1. CASE n \in 0 .. 6
      <4>1. n \in 0 .. 7 /\ n + 1 \in 0 .. 7
        BY <3>1
      <4> QED  BY <2>4, <2>5, <2>8, <2>9, <3>1, <4>1, Zenon
    <3>2. CASE n = 7
      <4>1. 7 \in 0 .. 7 /\ 7 + 5 = 12 /\ 7 + 1 = 8
        OBVIOUS
      <4> QED  BY <2>2, <2>3, <2>4, <2>5, <2>6, <3>2, <4>1, Zenon
    <3>3. CASE n = 8
      <4>1. 8 + 5 = 13 /\ 8 + 1 = 9
        OBVIOUS
      <4> QED  BY <2>2, <2>3, <2>4, <2>5, <3>3, <4>1, Zenon
    <3>4. CASE n \in 9 .. 11
      <4>1. 9 + 5 = 14 /\ 9 + 1 = 10 /\ 10 + 5 = 15 /\ 10 + 1 = 11 /\ 11 + 5 = 16 /\ 11 + 1 = 12
        OBVIOUS
      <4>2. n = 9 \/ n = 10 \/ n = 11
        BY <3>4
      <4> QED  BY <2>2, <2>3, <2>4, <2>5, <4>1, <4>2, Zenon
    <3>5. n \in 0 .. 6 \/ n = 7 \/ n = 8 \/ n \in 9 .. 11
      OBVIOUS
    <3> QED  BY <3>1, <3>2, <3>3, <3>4, <3>5, Zenon
  <2>14. 0 \in 0 .. 7
    OBVIOUS
  <2> QED  BY <2>4, <2>6, <2>12, <2>13, <2>14, Zenon

\* Writing at the end of a parcel appends.
<1>WritesAtEnd.
    ASSUME NEW S, NEW d \in Seq(S), NEW w \in Seq(S), parcel = [data |-> d, pos |-> Len(d)]
    PROVE  Writes(w) = [data |-> d \o w, pos |-> Len(d) + Len(w)]
  <2>1. SubSeq(d, 1, Len(d)) = d /\ SubSeq(d, Len(d) + Len(w) + 1, Len(d)) = <<>>
    OBVIOUS
  <2>2. d \o w \o <<>> = d \o w
    BY <1>OneAfterOther, <1>NothingAfter
  <2>3. parcel.data = d /\ parcel.pos = Len(d)
    BY <1>WritesAtEnd
  <2> QED  BY <2>1, <2>2, <2>3, Zenon DEF Writes

\* The fields grow after the words in front of them.
<1>WritesField.
    ASSUME NEW S, NEW f \in Seq(S), NEW b \in Seq(S), NEW w \in Seq(S),
           parcel = [data |-> f \o b, pos |-> Len(f) + Len(b)]
    PROVE  Writes(w) = [data |-> f \o (b \o w), pos |-> Len(f) + Len(b \o w)]
  <2>1. PICK d : d = f \o b
    OBVIOUS
  <2>2. /\ d \in Seq(S) /\ Len(d) = Len(f) + Len(b) /\ Len(b \o w) = Len(b) + Len(w)
        /\ Len(f) \in Nat /\ Len(b) \in Nat /\ Len(w) \in Nat
    BY <2>1, <1>OneAfterOther
  <2>3. d \o w = f \o (b \o w)
    <3>1. (f \o b) \o w = f \o (b \o w)
      BY <1>OneAfterTwo
    <3> QED  BY <2>1, <3>1, Zenon
  <2>4. parcel = [data |-> d, pos |-> Len(d)]
    BY <1>WritesField, <2>1, <2>2, Zenon
  <2>5. Writes(w) = [data |-> d \o w, pos |-> Len(d) + Len(w)]
    BY <2>2, <2>4, <1>WritesAtEnd
  <2>6. Len(d) + Len(w) = Len(f) + Len(b \o w)
    BY <2>2
  <2> QED  BY <2>3, <2>5, <2>6, Zenon

\* The size goes between the presence word and the fields.
<1>WritesTheSize.
    ASSUME NEW S, NEW b \in Seq(S), "1" \in S, "0" \in S, NEW size \in S,
           parcel = [data |-> <<"1", "0">> \o b, pos |-> 1]
    PROVE  Writes(<<size>>) = [data |-> <<"1", size>> \o b, pos |-> 2]
  <2>1. PICK d : d = <<"1", "0">> \o b
    OBVIOUS
  <2>2. SubSeq(d, 1, 1) = <<"1">> /\ SubSeq(d, 3, Len(d)) = b
    BY <1>WritesTheSize, <2>1, <1>SecondWord
  <2>3. <<"1">> \o <<size>> = <<"1", size>>
    BY <1>WritesTheSize, <1>TwoWords
  <2>4. parcel.data = d /\ parcel.pos = 1 /\ Len(<<size>>) = 1
    BY <1>WritesTheSize, <2>1
  <2>5. 1 + 1 + 1 = 3 /\ 1 + 1 = 2
    OBVIOUS
  <2> QED  BY <2>2, <2>3, <2>4, <2>5, Zenon DEF Writes

\* What a whole parcel is like.
<1>FullIsWhole.
    ASSUME RequestsListed, asked \in Requests
    PROVE  /\ Body(asked, 12) \in Seq(Word(asked)) /\ Len(Body(asked, 12)) \in Nat
           /\ Len(Begun(asked)) = Len(Body(asked, 12)) + 2
           /\ Full(asked)[1] = "1" /\ Full(asked)[2] = Len(Full(asked)) - 1
           /\ SubSeq(Full(asked), 3, Len(Full(asked))) = Parcelable
  <2>1. PICK b : b = Body(asked, 12)
    OBVIOUS
  <2>2. b \in Seq(Word(asked)) /\ b = Parcelable
    <3>1. 12 \in 0 .. 12
      OBVIOUS
    <3> QED  BY <1>FullIsWhole, <2>1, <3>1, <1>BodyGrows, Zenon
  <2>3. Len(b) \in Nat
    BY <2>2
  <2>4. Len(b) + 1 \in Word(asked) /\ "1" \in Word(asked) /\ "0" \in Word(asked)
    BY <2>3 DEF Word
  <2>5. Len(<<"1", "0">> \o b) = Len(b) + 2
    BY <2>2, <2>4, <1>SecondWord
  <2>6. PICK size : size = Len(b) + 1
    OBVIOUS
  <2>7. PICK f : f = <<"1", size>> \o b
    OBVIOUS
  <2>8. Len(f) = Len(b) + 2 /\ f[1] = "1" /\ f[2] = size /\ SubSeq(f, 3, Len(f)) = b
    <3>1. b \in Seq(Word(asked)) /\ size \in Word(asked) /\ "1" \in Word(asked)
      BY <2>2, <2>4, <2>6, Zenon
    <3> QED  BY <2>7, <3>1, <1>SecondWord
  <2>9. f[2] = Len(f) - 1
    BY <2>3, <2>6, <2>8
  <2>10. Full(asked) = f /\ Begun(asked) = <<"1", "0">> \o b
    BY <2>1, <2>6, <2>7, Zenon DEF Full, Begun
  <2> QED  BY <2>1, <2>2, <2>3, <2>5, <2>8, <2>9, <2>10, Zenon

\* The invariant says what the property asks.
<1>DnsInvSuffices.
    ASSUME RequestsListed, DnsInv
    PROVE  DnsSetOnce
  <2>1. asked \in Requests
    BY <1>DnsInvSuffices DEF DnsInv
  <2>2. PICK f : f = Full(asked)
    OBVIOUS
  <2>3. Len(<<f>>) = 1 /\ Len(<<>>) = 0 /\ <<f>> # <<>> /\ DOMAIN <<f>> = {1} /\ <<f>>[1] = f /\ DOMAIN <<>> = {}
    OBVIOUS
  <2>4. taken = <<>> \/ taken = <<f>>
    BY <1>DnsInvSuffices, <2>2, Zenon DEF DnsInv
  <2>5. SetOnce
    <3> SUFFICES ASSUME doing = "done" PROVE Len(taken) + Len(ndc) = 1 /\ (taken # <<>> => cache) /\ held = {}
      BY DEF SetOnce
    <3>1. held = {} /\ ((taken = <<f>> /\ ndc = <<>> /\ cache) \/ (taken = <<>> /\ Len(ndc) = 1))
      BY <1>DnsInvSuffices, <2>2, Zenon DEF DnsInv
    <3>2. CASE taken = <<f>> /\ ndc = <<>> /\ cache
      BY <2>3, <3>1, <3>2
    <3>3. CASE taken = <<>> /\ Len(ndc) = 1
      BY <2>3, <3>1, <3>3
    <3> QED  BY <3>1, <3>2, <3>3, Zenon
  <2>6. ParcelIsWhole
    <3>1. \A j \in DOMAIN taken : taken[j] = f
      BY <2>3, <2>4
    <3> QED  BY <2>1, <2>2, <3>1, <1>FullIsWhole, Zenon DEF ParcelIsWhole
  <2>7. LeavesNoParcel
    BY <1>DnsInvSuffices DEF DnsInv, LeavesNoParcel, InCall, Objects
  <2> QED  BY <2>5, <2>6, <2>7 DEF DnsSetOnce

<1>DnsInvInit.
    ASSUME DInit
    PROVE  DnsInv
  BY <1>DnsInvInit DEF DInit, NothingSet, DnsInv

\* What call is next, by the number of the call.
<1>NextCall.
    ASSUME DnsInv, InCall
    PROVE  /\ doing = "create" =>
                /\ call \in 1 .. 4
                /\ call = 1 => Call.op = "prepare"
                /\ call = 2 => Call.op = "write"
                /\ call = 3 => Call.op = "transact"
                /\ call = 4 => Call.op = "read"
           /\ doing = "configure" =>
                /\ call \in 1 .. 22 /\ Call = SetCalls[call]
                /\ call = 1 => Call.op = "prepare"
                /\ call = 3 => Call.op = "start"
                /\ call \in {2} \cup 4 .. 16 => Call.op = "write"
                /\ call = 17 => Call.op = "end"
                /\ call = 18 => Call.op = "seekStart"
                /\ call = 19 => Call.op = "patch"
                /\ call = 20 => Call.op = "seekEnd"
                /\ call = 21 => Call.op = "transact"
                /\ call = 22 => Call.op = "read"
  <2>1. CASE doing = "create"
    <3>1. call \in 1 .. 4 /\ Call = CreateCalls[call]
      BY <1>NextCall, <2>1 DEF DnsInv, Call, Calls
    <3>2. /\ CreateCalls[1].op = "prepare" /\ CreateCalls[2].op = "write"
          /\ CreateCalls[3].op = "transact" /\ CreateCalls[4].op = "read"
      BY DEF CreateCalls, Op, Int32
    <3> QED  BY <2>1, <3>1, <3>2
  <2>2. CASE doing = "configure"
    <3>1. Call = SetCalls[call] /\ call \in 1 .. 22
      BY <1>NextCall, <2>2 DEF Call, Calls, DnsInv
    <3>2. call \in {2} \cup 4 .. 16 => call \in 2 .. 16 /\ call # 3
      OBVIOUS
    <3>3. call \in {2} \cup 4 .. 16 => Call.op = "write"
      BY <3>1, <3>2, <1>FieldsAre, Zenon
    <3>4. doing # "create"
      BY <2>2
    <3> QED  BY <2>2, <3>1, <3>3, <3>4, <1>SetOpsAre, Zenon
  <2> QED  BY <2>1, <2>2 DEF InCall

\* The number of the call, by what is called.
<1>CallNumber.
    ASSUME DnsInv, InCall
    PROVE  /\ Call.op = "prepare" => call = 1
           /\ Call.op = "write" /\ doing = "create" => call = 2
           /\ Call.op = "transact" => call = IF doing = "create" THEN 3 ELSE 21
           /\ Call.op = "read" => call = IF doing = "create" THEN 4 ELSE 22
  <2>1. CASE doing = "create"
    <3>1. call = 1 \/ call = 2 \/ call = 3 \/ call = 4
      BY <1>CallNumber, <2>1, <1>NextCall
    <3> QED  BY <1>CallNumber, <2>1, <3>1, <1>NextCall
  <2>2. CASE doing = "configure"
    <3>1. \/ call = 1 \/ call \in {2} \cup 4 .. 16 \/ call = 3 \/ call = 17 \/ call = 18 \/ call = 19
          \/ call = 20 \/ call = 21 \/ call = 22
      BY <1>CallNumber, <2>2, <1>NextCall
    <3> QED  BY <1>CallNumber, <2>2, <3>1, <1>NextCall
  <2> QED  BY <1>CallNumber, <2>1, <2>2 DEF InCall

\* A write of the second transaction.
<1>WriteFills.
    ASSUME RequestsListed, DnsInv, Write, doing = "configure"
    PROVE  Filled' /\ call \in 2 .. 16
  <2>1. /\ InCall /\ Call.op = "write" /\ call' = call + 1 /\ parcel' = Writes(Call.words)
        /\ asked' = asked /\ startPos' = startPos /\ endPos' = endPos
    BY <1>WriteFills DEF Write
  <2>2. asked \in Requests /\ Filled /\ call \in 1 .. 22
    BY <1>WriteFills DEF DnsInv
  <2>3. call = 2 \/ call = 4 \/ call \in 5 .. 16
    <3>1. call # 1 /\ call # 3 /\ call # 17 /\ call # 18 /\ call # 19 /\ call # 20 /\ call # 21 /\ call # 22
      BY <1>WriteFills, <2>1, <1>NextCall
    <3> QED  BY <2>2, <3>1
  <2> SUFFICES Filled'
    BY <2>3
  <2>4. Call = SetCalls[call]
    BY <1>WriteFills, <2>1, <1>NextCall
  <2>5. CASE call = 2
    <3>1. Call.words = <<"1">> /\ parcel = [data |-> <<>>, pos |-> 0]
      BY <2>2, <2>4, <2>5, <1>FieldsAre DEF Filled, NoParcel
    <3>2. <<>> \in Seq({"1"}) /\ <<"1">> \in Seq({"1"}) /\ Len(<<>>) = 0
      OBVIOUS
    <3>3. Writes(<<"1">>) = [data |-> <<>> \o <<"1">>, pos |-> Len(<<>>) + Len(<<"1">>)]
      BY <3>1, <3>2, <1>WritesAtEnd
    <3>4. <<>> \o <<"1">> = <<"1">> /\ Len(<<>>) + Len(<<"1">>) = 1
      OBVIOUS
    <3>5. parcel' = [data |-> <<"1">>, pos |-> 1] /\ call' = 3
      BY <2>1, <2>5, <3>1, <3>3, <3>4
    <3> QED  BY <2>5, <3>5 DEF Filled
  <2>6. CASE call = 4
    <3>1. Call.words = <<"0">> /\ parcel = [data |-> <<"1">>, pos |-> 1] /\ startPos = 1
      BY <2>2, <2>4, <2>6, <1>FieldsAre DEF Filled
    <3>2. <<"1">> \in Seq({"0", "1"}) /\ <<"0">> \in Seq({"0", "1"}) /\ Len(<<"1">>) = 1 /\ Len(<<"0">>) = 1
      OBVIOUS
    <3>3. Writes(<<"0">>) = [data |-> <<"1">> \o <<"0">>, pos |-> Len(<<"1">>) + Len(<<"0">>)]
      BY <3>1, <3>2, <1>WritesAtEnd
    <3>4. <<"1">> \o <<"0">> = <<"1", "0">>
      <4>1. "1" \in {"0", "1"} /\ "0" \in {"0", "1"}
        OBVIOUS
      <4> QED  BY <4>1, <1>TwoWords
    <3>5. parcel' = [data |-> <<"1", "0">>, pos |-> 2]
      <4>1. parcel' = [data |-> <<"1", "0">>, pos |-> 1 + 1]
        BY <2>1, <3>1, <3>2, <3>3, <3>4, Zenon
      <4> QED  BY <4>1
    <3>6. Body(asked, 0) = <<>>
      BY <2>2, <1>BodyGrows
    <3>7. <<"1", "0">> \o <<>> = <<"1", "0">> /\ 2 + Len(<<>>) = 2
      OBVIOUS
    <3>8. call' = 5 /\ call' - 5 = 0 /\ startPos' = 1
      BY <2>1, <2>6, <3>1
    <3>9. parcel' = [data |-> <<"1", "0">> \o Body(asked, 0), pos |-> 2 + Len(Body(asked, 0))]
      BY <3>5, <3>6, <3>7, Zenon
    <3>10. /\ call' # 2 /\ call' \notin 3 .. 4 /\ call' >= 4 /\ call' \in 5 .. 17 /\ ~(call' >= 18)
          /\ call' # 18 /\ call' # 19 /\ call' # 20 /\ ~(call' >= 21)
      BY <3>8
    <3> QED  BY <2>1, <3>8, <3>9, <3>10, Zenon DEF Filled
  <2>7. CASE call \in 5 .. 16
    <3>1. PICK n : n = call - 5
      OBVIOUS
    <3>2. n \in 0 .. 11 /\ n \in 0 .. 12 /\ call = n + 5 /\ call' - 5 = n + 1 /\ call' \in 6 .. 17
      BY <2>1, <2>7, <3>1
    <3>3. PICK b, w, f : b = Body(asked, n) /\ w = SetCalls[n + 5].words /\ f = <<"1", "0">>
      OBVIOUS
    <3>4. b \in Seq(Word(asked)) /\ w \in Seq(Word(asked)) /\ b \o w = Body(asked, n + 1)
      BY <2>2, <3>2, <3>3, <1>BodyGrows, Zenon
    <3>5. parcel = [data |-> f \o b, pos |-> 2 + Len(b)] /\ startPos = 1
      <4>1. call \in 5 .. 17 /\ call >= 4
        BY <2>7
      <4> QED  BY <2>2, <3>1, <3>3, <4>1, Zenon DEF Filled
    <3>6. f \in Seq(Word(asked)) /\ Len(f) = 2
      <4>1. "1" \in Word(asked) /\ "0" \in Word(asked)
        BY <2>2, <1>WordLists
      <4> QED  BY <3>3, <4>1
    <3>7. Writes(w) = [data |-> f \o (b \o w), pos |-> Len(f) + Len(b \o w)]
      <4>1. parcel = [data |-> f \o b, pos |-> Len(f) + Len(b)]
        BY <3>5, <3>6, Zenon
      <4>2. f \in Seq(Word(asked)) /\ b \in Seq(Word(asked)) /\ w \in Seq(Word(asked))
        BY <3>4, <3>6, Zenon
      <4> QED  BY <4>1, <4>2, <1>WritesField
    <3>8. parcel' = [data |-> f \o (b \o w), pos |-> 2 + Len(b \o w)]
      <4>1. parcel' = Writes(w)
        BY <2>1, <2>4, <3>2, <3>3, Zenon
      <4> QED  BY <3>6, <3>7, <4>1, Zenon
    <3>9. parcel' = [data |-> <<"1", "0">> \o Body(asked, n + 1), pos |-> 2 + Len(Body(asked, n + 1))]
      BY <3>3, <3>4, <3>8, Zenon
    <3>10. parcel' = [data |-> <<"1", "0">> \o Body(asked', call' - 5), pos |-> 2 + Len(Body(asked', call' - 5))]
      BY <2>1, <3>2, <3>9, Zenon
    <3>11. startPos' = 1
      BY <2>1, <3>5
    <3> QED  BY <3>2, <3>10, <3>11 DEF Filled
  <2> QED  BY <2>3, <2>5, <2>6, <2>7

\* The size goes where 0 was written for it.
<1>PatchFills.
    ASSUME RequestsListed, DnsInv, Patch
    PROVE  doing = "configure" /\ call \in 3 .. 20 /\ Filled'
  <2>1. InCall /\ Call.op \in {"start", "end", "seekStart", "patch", "seekEnd"} /\ call' = call + 1 /\ asked' = asked
    BY <1>PatchFills DEF Patch
  <2>2. doing = "configure"
    <3>1. ASSUME doing = "create" PROVE FALSE
      <4>1. call \in 1 .. 4
        BY <1>PatchFills, <2>1, <3>1, <1>NextCall
      <4>2. Call.op = "prepare" \/ Call.op = "write" \/ Call.op = "transact" \/ Call.op = "read"
        BY <1>PatchFills, <2>1, <3>1, <4>1, <1>NextCall
      <4> QED  BY <2>1, <4>2
    <3> QED  BY <2>1, <3>1 DEF InCall
  <2>3. call \in {3, 17, 18, 19, 20}
    <3>1. call # 1 /\ call \notin {2} \cup 4 .. 16 /\ call # 21 /\ call # 22 /\ call \in 1 .. 22
      BY <1>PatchFills, <2>1, <2>2, <1>NextCall
    <3> QED  BY <3>1
  <2> SUFFICES Filled'
    BY <2>2, <2>3
  <2>4. asked \in Requests /\ Filled
    BY <1>PatchFills, <2>2 DEF DnsInv
  <2>5. PICK b : b = Body(asked, 12)
    OBVIOUS
  <2>6. b \in Seq(Word(asked)) /\ Len(b) \in Nat /\ Len(Begun(asked)) = Len(b) + 2
    BY <2>4, <2>5, <1>FullIsWhole
  <2>7. CASE call = 3
    <3>1. Call.op = "start"
      BY <1>PatchFills, <2>1, <2>2, <2>7, <1>NextCall
    <3>2. startPos' = parcel.pos /\ parcel' = parcel
      BY <1>PatchFills, <3>1 DEF Patch
    <3>3. parcel = [data |-> <<"1">>, pos |-> 1]
      BY <2>4, <2>7 DEF Filled
    <3>4. startPos' = 1 /\ parcel' = [data |-> <<"1">>, pos |-> 1] /\ call' = 4
      BY <2>1, <2>7, <3>2, <3>3
    <3>5. /\ call' # 2 /\ call' \in 3 .. 4 /\ call' >= 4 /\ call' \notin 5 .. 17 /\ ~(call' >= 18)
          /\ call' # 18 /\ call' # 19 /\ call' # 20 /\ ~(call' >= 21)
      BY <3>4
    <3> QED  BY <3>4, <3>5, Zenon DEF Filled
  <2>8. CASE call = 17
    <3>1. Call.op = "end"
      BY <1>PatchFills, <2>1, <2>2, <2>8, <1>NextCall
    <3>2. endPos' = parcel.pos /\ parcel' = parcel /\ startPos' = startPos
      BY <1>PatchFills, <3>1 DEF Patch
    <3>3. parcel = [data |-> <<"1", "0">> \o b, pos |-> 2 + Len(b)] /\ startPos = 1
      <4>1. 17 \in 5 .. 17 /\ 17 - 5 = 12 /\ 17 >= 4
        OBVIOUS
      <4> QED  BY <2>4, <2>5, <2>8, <4>1, Zenon DEF Filled
    <3>4. parcel = [data |-> Begun(asked), pos |-> Len(Begun(asked))]
      <4>1. 2 + Len(b) = Len(Begun(asked))
        BY <2>6
      <4> QED  BY <2>5, <3>3, <4>1, Zenon DEF Begun
    <3>5. parcel.pos = Len(Begun(asked))
      BY <3>4
    <3>6. call' = 18
      BY <2>1, <2>8
    <3>7. /\ call' # 2 /\ call' \notin 3 .. 4 /\ call' >= 4 /\ call' \notin 5 .. 17 /\ call' >= 18
          /\ call' = 18 /\ call' # 19 /\ call' # 20 /\ ~(call' >= 21)
      BY <3>6
    <3> QED  BY <2>1, <3>2, <3>3, <3>4, <3>5, <3>7, Zenon DEF Filled
  <2>9. CASE call = 18
    <3>1. Call.op = "seekStart"
      BY <1>PatchFills, <2>1, <2>2, <2>9, <1>NextCall
    <3>2. parcel' = [parcel EXCEPT !.pos = startPos] /\ startPos' = startPos /\ endPos' = endPos
      BY <1>PatchFills, <3>1 DEF Patch
    <3>3. parcel = [data |-> Begun(asked), pos |-> Len(Begun(asked))] /\ startPos = 1 /\ endPos = Len(Begun(asked))
      BY <2>4, <2>9 DEF Filled
    <3>4. parcel' = [data |-> Begun(asked), pos |-> 1] /\ call' = 19
      BY <2>1, <2>9, <3>2, <3>3
    <3>5. /\ call' # 2 /\ call' \notin 3 .. 4 /\ call' >= 4 /\ call' \notin 5 .. 17 /\ call' >= 18
          /\ call' # 18 /\ call' = 19 /\ call' # 20 /\ ~(call' >= 21)
      BY <3>4
    <3> QED  BY <2>1, <3>2, <3>3, <3>4, <3>5, Zenon DEF Filled
  <2>10. CASE call = 19
    <3>1. Call.op = "patch"
      BY <1>PatchFills, <2>1, <2>2, <2>10, <1>NextCall
    <3>2. parcel' = Writes(<<endPos - startPos>>) /\ startPos' = startPos /\ endPos' = endPos
      BY <1>PatchFills, <3>1 DEF Patch
    <3>3. parcel = [data |-> Begun(asked), pos |-> 1] /\ startPos = 1 /\ endPos = Len(Begun(asked))
      BY <2>4, <2>10 DEF Filled
    <3>4. PICK size : size = Len(b) + 1
      OBVIOUS
    <3>5. endPos - startPos = size /\ size \in Nat
      BY <2>6, <3>3, <3>4
    <3>6. size \in Word(asked) /\ "0" \in Word(asked) /\ "1" \in Word(asked)
      BY <3>5 DEF Word
    <3>7. parcel = [data |-> <<"1", "0">> \o b, pos |-> 1]
      BY <2>5, <3>3, Zenon DEF Begun
    <3>8. Writes(<<size>>) = [data |-> <<"1", size>> \o b, pos |-> 2]
      BY <2>6, <3>6, <3>7, <1>WritesTheSize
    <3>9. parcel' = [data |-> Full(asked), pos |-> 2]
      BY <2>5, <3>2, <3>4, <3>5, <3>8, Zenon DEF Full
    <3>10. call' = 20
      BY <2>1, <2>10
    <3>11. /\ call' # 2 /\ call' \notin 3 .. 4 /\ call' >= 4 /\ call' \notin 5 .. 17 /\ call' >= 18
          /\ call' # 18 /\ call' # 19 /\ call' = 20 /\ ~(call' >= 21)
      BY <3>10
    <3> QED  BY <2>1, <3>2, <3>3, <3>9, <3>11, Zenon DEF Filled
  <2>11. CASE call = 20
    <3>1. Call.op = "seekEnd"
      BY <1>PatchFills, <2>1, <2>2, <2>11, <1>NextCall
    <3>2. parcel' = [parcel EXCEPT !.pos = endPos] /\ startPos' = startPos /\ endPos' = endPos
      BY <1>PatchFills, <3>1 DEF Patch
    <3>3. parcel = [data |-> Full(asked), pos |-> 2] /\ startPos = 1 /\ endPos = Len(Begun(asked))
      BY <2>4, <2>11 DEF Filled
    <3>4. parcel'.data = Full(asked) /\ call' = 21
      BY <2>1, <2>11, <3>2, <3>3
    <3>5. /\ call' # 2 /\ call' \notin 3 .. 4 /\ call' >= 4 /\ call' \notin 5 .. 17 /\ call' >= 18
          /\ call' # 18 /\ call' # 19 /\ call' # 20 /\ call' >= 21
      BY <3>4
    <3> QED  BY <2>1, <3>2, <3>3, <3>4, <3>5, Zenon DEF Filled
  <2> QED  BY <2>3, <2>7, <2>8, <2>9, <2>10, <2>11

<1>DnsInvNext.
    ASSUME RequestsListed, DnsInv, [DNext]_dvars
    PROVE  DnsInv'
  <2>1. asked' = asked /\ Full(asked)' = Full(asked) /\ asked \in Requests
    <3>1. asked' = asked
      BY <1>DnsInvNext DEF DNext, dvars, LoadSymbols, GetHandle, CallFails, Prepare, Write, Patch, Transact, ReadStatus, Ndc, Done
    <3> QED  BY <1>DnsInvNext, <3>1 DEF DnsInv
  <2>2. CASE LoadSymbols
    BY <1>DnsInvNext, <2>1, <2>2 DEF LoadSymbols, DnsInv
  <2>3. CASE GetHandle
    BY <1>DnsInvNext, <2>1, <2>3 DEF GetHandle, Objects, DnsInv
  <2>4. CASE CallFails
    BY <1>DnsInvNext, <2>1, <2>4 DEF CallFails, Returns, InCall, DnsInv
  <2>5. CASE Prepare
    <3>1. InCall /\ Call.op = "prepare" /\ call' = call + 1 /\ parcel' = NoParcel /\ held' = held \cup {"in"}
          /\ UNCHANGED <<doing, startPos, endPos, reply, cache, taken, ndc>>
      BY <2>5 DEF Prepare
    <3>2. call = 1
      BY <1>DnsInvNext, <3>1, <1>CallNumber
    <3>3. doing = "configure" => Filled'
      BY <3>1, <3>2 DEF Filled
    <3> QED  BY <1>DnsInvNext, <2>1, <3>1, <3>2, <3>3 DEF InCall, Objects, DnsInv
  <2>6. CASE Write
    <3>1. InCall /\ Call.op = "write" /\ call' = call + 1
          /\ UNCHANGED <<doing, startPos, endPos, held, reply, cache, taken, ndc>>
      BY <2>6 DEF Write
    <3>2. CASE doing = "create"
      <4>1. call = 2
        BY <1>DnsInvNext, <3>1, <3>2, <1>CallNumber
      <4> QED  BY <1>DnsInvNext, <2>1, <3>1, <3>2, <4>1 DEF Objects, DnsInv
    <3>3. CASE doing = "configure"
      <4>1. Filled' /\ call \in 2 .. 16
        BY <1>DnsInvNext, <2>6, <3>3, <1>WriteFills
      <4> QED  BY <1>DnsInvNext, <2>1, <3>1, <3>3, <4>1 DEF Objects, DnsInv
    <3> QED  BY <3>1, <3>2, <3>3 DEF InCall
  <2>7. CASE Patch
    <3>1. call' = call + 1 /\ UNCHANGED <<doing, held, reply, cache, taken, ndc>>
      BY <2>7 DEF Patch
    <3>2. doing = "configure" /\ call \in 3 .. 20 /\ Filled'
      BY <1>DnsInvNext, <2>7, <1>PatchFills
    <3> QED  BY <1>DnsInvNext, <2>1, <3>1, <3>2 DEF Objects, DnsInv
  <2>8. CASE Transact
    <3>1. InCall /\ Call.op = "transact" /\ call' = call + 1
          /\ held' = (held \ {"in"}) \cup {"out"} /\ cache' = (cache \/ (doing = "create" /\ reply'))
          /\ taken' = (IF doing = "configure" /\ reply' THEN Append(taken, parcel.data) ELSE taken)
          /\ UNCHANGED <<doing, parcel, startPos, endPos, ndc>>
      BY <2>8 DEF Transact
    <3>2. CASE doing = "create"
      <4>1. call = 3
        BY <1>DnsInvNext, <3>1, <3>2, <1>CallNumber
      <4>2. held = {"binder", "in"} /\ taken = <<>> /\ ndc = <<>>
        BY <1>DnsInvNext, <3>2, <4>1 DEF Objects, DnsInv
      <4>3. held' = {"binder", "out"} /\ call' = 4 /\ taken' = <<>> /\ ndc' = <<>> /\ doing' = "create"
        BY <3>1, <3>2, <4>1, <4>2
      <4>4. reply' => cache'
        BY <3>1, <3>2, Zenon
      <4>5. held' = Objects(4)'
        BY <4>3 DEF Objects
      <4> QED  BY <2>1, <4>3, <4>4, <4>5 DEF DnsInv
    <3>3. CASE doing = "configure"
      <4>1. call = 21
        BY <1>DnsInvNext, <3>1, <3>3, <1>CallNumber
      <4>2. call = 21 /\ held = {"binder", "in"} /\ taken = <<>> /\ ndc = <<>> /\ Filled
        BY <1>DnsInvNext, <3>3, <4>1 DEF Objects, DnsInv
      <4>3. parcel.data = Full(asked) /\ startPos = 1 /\ endPos = Len(Begun(asked))
        BY <4>2 DEF Filled
      <4>4. Filled'
        BY <2>1, <3>1, <4>2, <4>3 DEF Filled
      <4>5. Append(<<>>, Full(asked)) = <<Full(asked)>>
        OBVIOUS
      <4>6. held' = {"binder", "out"} /\ call' = 22 /\ ndc' = <<>> /\ doing' = "configure"
        BY <3>1, <3>3, <4>2
      <4>7. taken' = IF reply' THEN <<Full(asked)>> ELSE <<>>
        BY <3>1, <3>3, <4>2, <4>3, <4>5, Zenon
      <4>8. held' = Objects(22)'
        BY <4>6 DEF Objects
      <4>9. cache'
        BY <1>DnsInvNext, <3>1, <3>3, Zenon DEF DnsInv
      <4> QED  BY <2>1, <4>4, <4>6, <4>7, <4>8, <4>9 DEF DnsInv
    <3> QED  BY <3>1, <3>2, <3>3 DEF InCall
  <2>9. CASE ReadStatus
    <3>1. InCall /\ Call.op = "read" /\ held' = held \cap {"binder"} /\ call' = 1
          /\ doing' = (IF ~reply THEN "exit" ELSE IF doing = "create" THEN "configure" ELSE "set")
          /\ UNCHANGED <<startPos, endPos, reply, cache, taken, ndc>>
      BY <2>9 DEF ReadStatus, Returns
    <3>2. CASE doing = "create"
      <4>1. call = 4
        BY <1>DnsInvNext, <3>1, <3>2, <1>CallNumber
      <4>2. Filled'
        BY <3>1 DEF Filled
      <4> QED  BY <1>DnsInvNext, <2>1, <3>1, <3>2, <4>1, <4>2 DEF Objects, DnsInv
    <3>3. CASE doing = "configure"
      <4>1. call = 22
        BY <1>DnsInvNext, <3>1, <3>3, <1>CallNumber
      <4> QED  BY <1>DnsInvNext, <2>1, <3>1, <3>3, <4>1 DEF Objects, DnsInv
    <3> QED  BY <3>1, <3>2, <3>3 DEF InCall
  <2>10. CASE Ndc
    BY <1>DnsInvNext, <2>1, <2>10 DEF Ndc, DnsInv
  <2>11. CASE Done
    BY <1>DnsInvNext, <2>1, <2>11 DEF Done, DnsInv
  <2>12. CASE UNCHANGED dvars
    <3>1. UNCHANGED <<asked, doing, call, parcel, startPos, endPos, held, reply, cache, taken, ndc>>
      BY <2>12, Zenon DEF dvars
    <3>2. Filled' = Filled
      BY <3>1 DEF Filled
    <3> QED  BY <1>DnsInvNext, <3>1, <3>2 DEF Objects, DnsInv
  <2> QED
    BY <1>DnsInvNext, <2>2, <2>3, <2>4, <2>5, <2>6, <2>7, <2>8, <2>9, <2>10, <2>11, <2>12 DEF DNext

<1>1. DInit => DnsInv
  BY <1>DnsInvInit
<1>2. DnsInv /\ [DNext]_dvars => DnsInv'
  BY <1>DnsInvNext
<1>3. DnsInv => DnsSetOnce
  BY <1>DnsInvSuffices
<1> QED  BY <1>1, <1>2, <1>3, PTL DEF DSpec

\* A set of numbers that is not empty has a least one.
LEMMA Least ==
  ASSUME NEW T, T \subseteq Nat, T # {}
  PROVE  \E n \in T : \A m \in T : n =< m
<1>1. PICK n \in T : \A m \in T : ~(<<m, n>> \in OpToRel(<, Nat))
  BY NatLessThanWellFounded, WFMin
<1>2. \A m \in T : m < n => <<m, n>> \in OpToRel(<, Nat)
  BY Zenon DEF OpToRel
<1>3. \A m \in T : ~(m < n)
  BY <1>1, <1>2, Zenon
<1> QED  BY <1>3

(***************************************************************************)
(* One after the other                                                     *)
(***************************************************************************)
(* The first n sums of a sequence of sequences. *)
Sums(ss, g, n) ==
  /\ g[0] = <<>>
  /\ \A i \in 1 .. n : g[i] = g[i - 1] \o ss[i]

\* The sums go on for as long as the sequence does.
LEMMA SumsReach ==
  ASSUME NEW ss, NEW n \in Nat
  PROVE  \E g : Sums(ss, g, n)
<1> DEFINE T == {i \in Nat : ~ \E g : Sums(ss, g, i)}
<1> SUFFICES ASSUME T # {} PROVE FALSE
  OBVIOUS
<1>1. T \subseteq Nat
  OBVIOUS
<1>2. PICK i \in T : \A j \in T : i =< j
  <2> HIDE DEF T
  <2> QED  BY <1>1, Least
<1>3. i \in Nat /\ ~ \E g : Sums(ss, g, i)
  BY Zenon
<1>4. i # 0
  <2>1. Sums(ss, [j \in {0} |-> <<>>], 0)
    BY DEF Sums
  <2> QED  BY <1>3, <2>1
<1>5. i - 1 \in Nat /\ ~(i =< i - 1)
  BY <1>3, <1>4
<1>6. i - 1 \notin T
  <2> HIDE DEF T
  <2> QED  BY <1>2, <1>5
<1>7. PICK g : Sums(ss, g, i - 1)
  BY <1>5, <1>6
<1> DEFINE h == [j \in 0 .. i |-> IF j = i THEN g[i - 1] \o ss[i] ELSE g[j]]
<1>8. h[0] = <<>>
  BY <1>3, <1>4, <1>7 DEF Sums
<1>9. h[i] = g[i - 1] \o ss[i] /\ \A j \in 0 .. i - 1 : h[j] = g[j]
  <2>1. i \in 0 .. i /\ \A j \in 0 .. i - 1 : j \in 0 .. i /\ j # i
    BY <1>3
  <2> QED  BY <2>1, Zenon
<1> HIDE DEF h
<1>10. ASSUME NEW j \in 1 .. i PROVE h[j] = h[j - 1] \o ss[j]
  <2>1. j - 1 \in 0 .. i - 1 /\ (j # i => j \in 1 .. i - 1 /\ j \in 0 .. i - 1)
    BY <1>3
  <2>2. CASE j = i
    BY <1>9, <2>1, <2>2, Zenon
  <2>3. CASE j # i
    <3>1. g[j] = g[j - 1] \o ss[j]
      BY <1>7, <2>1, <2>3, Zenon DEF Sums
    <3> QED  BY <1>9, <2>1, <2>3, <3>1, Zenon
  <2> QED  BY <2>2, <2>3
<1> QED  BY <1>3, <1>8, <1>10, Zenon DEF Sums

\* FlatTo starts with nothing and adds one sequence after the other.
LEMMA FlatSteps ==
  ASSUME NEW ss, Len(ss) \in Nat
  PROVE  /\ FlatTo(ss, 0) = <<>>
         /\ \A n \in 1 .. Len(ss) : FlatTo(ss, n) = FlatTo(ss, n - 1) \o ss[n]
<1> DEFINE N == Len(ss)
           Is(f) == f = [m \in 0 .. N |-> IF m = 0 THEN <<>> ELSE f[m - 1] \o ss[m]]
           F == CHOOSE f : Is(f)
<1>1. PICK g : Sums(ss, g, N)
  BY SumsReach
<1> DEFINE f == [m \in 0 .. N |-> g[m]]
<1>2. Is(f)
  <2>1. ASSUME NEW m \in 0 .. N PROVE f[m] = IF m = 0 THEN <<>> ELSE f[m - 1] \o ss[m]
    <3>1. CASE m = 0
      BY <3>1, <1>1 DEF Sums
    <3>2. CASE m # 0
      <4>1. m \in 1 .. N /\ m - 1 \in 0 .. N
        BY <3>2
      <4>2. f[m] = g[m] /\ f[m - 1] = g[m - 1]
        BY <4>1
      <4> HIDE DEF f, N
      <4>3. g[m] = g[m - 1] \o ss[m]
        BY <4>1, <1>1, Zenon DEF Sums
      <4> QED  BY <3>2, <4>2, <4>3, Zenon
    <3> QED  BY <3>1, <3>2
  <2>2. f = [m \in 0 .. N |-> f[m]]
    OBVIOUS
  <2> HIDE DEF f, N
  <2> QED  BY <2>1, <2>2, Zenon
<1>3. Is(F)
  <2> HIDE DEF f, Is
  <2> QED  BY <1>2, Zenon
<1>4. \A n : FlatTo(ss, n) = F[n]
  BY Zenon DEF FlatTo
<1> HIDE DEF F, f
<1>5. \A n \in 0 .. N : F[n] = IF n = 0 THEN <<>> ELSE F[n - 1] \o ss[n]
  BY <1>3, Zenon
<1>6. 0 \in 0 .. N /\ \A n \in 1 .. N : n \in 0 .. N /\ n # 0
  OBVIOUS
<1> HIDE DEF N, Is
<1>7. F[0] = <<>> /\ \A n \in 1 .. N : F[n] = F[n - 1] \o ss[n]
  BY <1>5, <1>6, Zenon
<1> QED  BY <1>4, <1>7, Zenon DEF N

(***************************************************************************)
(* The file                                                                *)
(***************************************************************************)
Strings == Seq(Texts)

(* Nothing but the options that parse_options knows. *)
OptsWhole ==
  opts = [config |-> opts.config, mtu |-> opts.mtu, addrs |-> opts.addrs, dnses |-> opts.dnses,
          excluded |-> opts.excluded, included |-> opts.included]

(* A string is NULL or the texts it was given. *)
Holds(x, t) == x \in Strings \cup {NULL} /\ OrEmpty(x) = t

(* What is taken over from the first n lines. *)
ReadTo(n) ==
  /\ Holds(opts.addrs, FlatTo(Asked("address"), n))
  /\ Holds(opts.dnses, FlatTo(Asked("dns"), n))
  /\ Holds(opts.excluded, FlatTo(Asked("excluded"), n))
  /\ Holds(opts.included, FlatTo(Asked("included"), n))
  /\ Holds(opts.config, FlatTo(LeftToWg, n))

AllRead ==
  /\ opts.addrs \in Strings /\ opts.dnses \in Strings /\ opts.config \in Strings
  /\ opts.addrs = Flat(Asked("address")) /\ opts.dnses = Flat(Asked("dns"))
  /\ OrEmpty(opts.excluded) = Flat(Asked("excluded"))
  /\ OrEmpty(opts.included) = Flat(Asked("included"))
  /\ opts.config = Flat(LeftToWg)

InSection(in, n) == in \in BOOLEAN /\ (in <=> InInterface(n))

FileInv ==
  /\ file \in Files /\ packages \in Packages /\ host \in Hosts
  /\ OptsWhole
  /\ opts.excluded \in Strings \cup {NULL} /\ opts.included \in Strings \cup {NULL}
  /\ phase = "parse" =>
        lineno \in 0 .. Len(file) /\ InSection(inInterface, lineno) /\ ReadTo(lineno)
  /\ phase # "parse" /\ Short => phase # "crashed" /\ AllRead

\* A longer set has the sequences of a shorter one.
LEMMA WiderSeq ==
  ASSUME NEW S, NEW T, S \subseteq T, NEW s \in Seq(S)
  PROVE  s \in Seq(T)
  OBVIOUS

\* The tokens and the lines of a file are texts.
LEMMA LinesAreTexts ==
  ASSUME FilesFormed, NEW f \in Files, NEW j \in DOMAIN f
  PROVE  f[j].v \in Strings /\ <<f[j]>> \in Strings
<1>1. f[j].v \in Seq(Range(f[j].v))
  BY Zenon DEF FilesFormed
<1>2. f[j] \in Range(f)
  BY Zenon DEF Range
<1>3. f[j] \in Lines
  BY <1>2, Zenon DEF Lines
<1>4. Range(f[j].v) \in {Range(l.v) : l \in Lines}
  BY <1>3, Zenon
<1>5. f[j] \in Texts /\ Range(f[j].v) \subseteq Texts
  BY <1>3, <1>4, Zenon DEF Texts
<1>6. \A v : v \in Seq(Range(v)) /\ Range(v) \subseteq Texts => v \in Seq(Texts)
  BY WiderSeq
<1>7. \A t, T : t \in T => <<t>> \in Seq(T)
  OBVIOUS
<1> QED  BY <1>1, <1>5, <1>6, <1>7, Zenon DEF Strings

\* The strings are not null pointers.
LEMMA NotNull ==
  ASSUME FilesFormed
  PROVE  NULL \notin Strings /\ <<>> \in Strings
  BY DEF FilesFormed, Strings

\* A file is as long as its lists of what is asked.
LEMMA FileLines ==
  ASSUME FilesFormed, file \in Files
  PROVE  /\ Len(file) \in Nat /\ DOMAIN file = 1 .. Len(file)
         /\ Len(LeftToWg) = Len(file) /\ \A k : Len(Asked(k)) = Len(file)
<1>1. file \in Seq(Range(file))
  BY Zenon DEF FilesFormed
<1>2. Len(file) \in Nat /\ DOMAIN file = 1 .. Len(file)
  BY <1>1
<1>3. ASSUME NEW k PROVE Len(Asked(k)) = Len(file)
  BY <1>2 DEF Asked
<1>4. Len(LeftToWg) = Len(file)
  BY <1>2 DEF LeftToWg
<1> QED  BY <1>2, <1>3, <1>4

\* concat_and_free adds to what a string holds.
LEMMA JoinedHolds ==
  ASSUME FilesFormed, NEW x, NEW t, Holds(x, t), NEW piece \in Strings
  PROVE  Holds(Joined(x, piece), t \o piece)
<1>1. NULL \notin Strings /\ \A s \in Strings : <<>> \o s = s /\ s \o piece \in Strings
  BY DEF FilesFormed, Strings
<1>2. CASE x = NULL
  BY <1>1, <1>2, Zenon DEF Holds, Joined, OrEmpty
<1>3. CASE x # NULL
  BY <1>1, <1>3, Zenon DEF Holds, Joined, OrEmpty
<1> QED  BY <1>2, <1>3

\* Nothing more is held when nothing is added.
LEMMA StillHolds ==
  ASSUME FilesFormed, NEW x, NEW t, Holds(x, t)
  PROVE  Holds(x, t \o <<>>)
<1>1. \A s \in Strings : s \o <<>> = s
  BY DEF Strings
<1>2. <<>> \in Strings
  BY NotNull
<1>3. t \in Strings
  BY <1>2, Zenon DEF Holds, OrEmpty
<1> QED  BY <1>1, <1>3, Zenon DEF Holds

\* A string holds what it held and the piece it is given, if any.
LEMMA TakesMore ==
  ASSUME FilesFormed, NEW x, NEW y, NEW t, NEW u, NEW piece \in Strings, NEW c,
         Holds(x, t), y = IF c THEN Joined(x, piece) ELSE x, u = t \o (IF c THEN piece ELSE <<>>)
  PROVE  Holds(y, u)
<1>1. CASE c
  <2>1. y = Joined(x, piece) /\ u = t \o piece
    BY <1>1, Zenon
  <2> QED  BY <2>1, JoinedHolds, Zenon
<1>2. CASE ~c
  <2>1. y = x /\ u = t \o <<>>
    BY <1>2, Zenon
  <2> QED  BY <2>1, StillHolds, Zenon
<1> QED  BY <1>1, <1>2

\* What a line does to the options.
LEMMA LineTakes ==
  ASSUME OptsWhole, NEW l, NEW in \in BOOLEAN,
         opts' = IF in THEN Takes(l) ELSE [opts EXCEPT !.config = Joined(@, <<l>>)]
  PROVE  /\ OptsWhole'
         /\ opts'.addrs = IF in /\ l.k = "address" /\ l.v # <<>> THEN Joined(opts.addrs, l.v) ELSE opts.addrs
         /\ opts'.dnses = IF in /\ l.k = "dns" /\ l.v # <<>> THEN Joined(opts.dnses, l.v) ELSE opts.dnses
         /\ opts'.excluded = IF in /\ l.k = "excluded" THEN Joined(opts.excluded, l.v) ELSE opts.excluded
         /\ opts'.included = IF in /\ l.k = "included" THEN Joined(opts.included, l.v) ELSE opts.included
         /\ opts'.config = IF in /\ l.k \in Known /\ (l.v # <<>> \/ l.k \in Lists) THEN opts.config
                           ELSE Joined(opts.config, <<l>>)
<1> DEFINE J(x) == Joined(x, l.v)
           C == Joined(opts.config, <<l>>)
           Some == l.v # <<>>
<1>0. \A f : Opt(l, f) = [opts EXCEPT ![f] = J(opts[f])]
  BY DEF Opt
<1>1. CASE ~in
  <2>1. opts' = [opts EXCEPT !.config = C]
    BY <1>1
  <2> HIDE DEF J, C, Some
  <2> QED  BY <2>1, <1>1 DEF OptsWhole, C
<1>2. CASE in /\ l.k = "address" /\ Some
  <2>1. opts' = [opts EXCEPT !.addrs = J(opts.addrs)]
    BY <1>2, <1>0 DEF Takes
  <2> HIDE DEF J, C
  <2> QED  BY <2>1, <1>2 DEF OptsWhole, J, Known, Lists
<1>3. CASE in /\ l.k = "dns" /\ Some
  <2>1. opts' = [opts EXCEPT !.dnses = J(opts.dnses)]
    BY <1>3, <1>0 DEF Takes
  <2> HIDE DEF J, C
  <2> QED  BY <2>1, <1>3 DEF OptsWhole, J, Known, Lists
<1>4. CASE in /\ l.k = "excluded"
  <2>1. opts' = [opts EXCEPT !.excluded = J(opts.excluded)]
    BY <1>4, <1>0 DEF Takes
  <2> HIDE DEF J, C, Some
  <2> QED  BY <2>1, <1>4 DEF OptsWhole, J, Known, Lists
<1>5. CASE in /\ l.k = "included"
  <2>1. opts' = [opts EXCEPT !.included = J(opts.included)]
    BY <1>5, <1>0 DEF Takes
  <2> HIDE DEF J, C, Some
  <2> QED  BY <2>1, <1>5 DEF OptsWhole, J, Known, Lists
<1>6. CASE in /\ l.k = "mtu" /\ Some
  <2>1. opts' = [opts EXCEPT !.mtu = l.v[1].mtu]
    BY <1>6 DEF Takes
  <2> HIDE DEF J, C
  <2> QED  BY <2>1, <1>6 DEF OptsWhole, Known, Lists
<1>7. CASE in /\ ~(l.k \in Known /\ (Some \/ l.k \in Lists))
  <2>1. opts' = [opts EXCEPT !.config = C]
    BY <1>7 DEF Takes, Known, Lists
  <2> HIDE DEF J, C
  <2> QED  BY <2>1, <1>7 DEF OptsWhole, C, Known, Lists
<1> QED  BY <1>1, <1>2, <1>3, <1>4, <1>5, <1>6, <1>7 DEF Known, Lists

\* Whether a line is in an [Interface] section follows from the line before it.
LEMMA NextSection ==
  ASSUME NEW n \in Nat, InSection(inInterface, n), NEW l, l = file[n + 1]
  PROVE  InSection(Section(l), n + 1)
<1> DEFINE Sec(h, m) == \A i \in h + 1 .. m : file[i].k # "section"
<1>1. \A j \in Nat : InInterface(j) <=> \E h \in 1 .. j : file[h].k = "interface" /\ Sec(h, j)
  BY Zenon DEF InInterface
<1>2. \A h \in 1 .. n : Sec(h, n + 1) <=> Sec(h, n) /\ file[n + 1].k # "section"
  <2> SUFFICES ASSUME NEW h \in 1 .. n PROVE Sec(h, n + 1) <=> Sec(h, n) /\ file[n + 1].k # "section"
    OBVIOUS
  <2>1. \A i : i \in h + 1 .. n + 1 <=> i \in h + 1 .. n \/ i = n + 1
    OBVIOUS
  <2> QED  BY <2>1, Zenon
<1>3. Sec(n + 1, n + 1)
  <2>1. \A i : i \notin n + 1 + 1 .. n + 1
    OBVIOUS
  <2> QED  BY <2>1, Zenon
<1>4. n + 1 \in Nat /\ \A h : h \in 1 .. n + 1 <=> h \in 1 .. n \/ h = n + 1
  OBVIOUS
<1> HIDE DEF Sec
<1>5. InInterface(n + 1) <=> l.k = "interface" \/ (InInterface(n) /\ l.k # "section")
  BY <1>1, <1>2, <1>3, <1>4, Zenon DEF InSection
<1> QED  BY <1>5 DEF Section, InSection

\* What is read from n lines and the next one.
LEMMA ReadNext ==
  ASSUME FilesFormed, FileInv, ParseLine
  PROVE  FileInv'
<1> DEFINE n == lineno + 1
           l == file[n]
           in == Section(l)
<1>1. /\ phase = "parse" /\ phase' = "parse" /\ lineno < Len(file) /\ lineno' = n
      /\ file' = file /\ packages' = packages /\ host' = host
      /\ inInterface' = in
      /\ opts' = IF in THEN Takes(l) ELSE [opts EXCEPT !.config = Joined(@, <<l>>)]
  BY DEF ParseLine
<1>2. /\ file \in Files /\ packages \in Packages /\ host \in Hosts /\ OptsWhole
      /\ lineno \in 0 .. Len(file) /\ InSection(inInterface, lineno) /\ ReadTo(lineno)
  BY <1>1, Zenon DEF FileInv
<1>3. Len(file) \in Nat /\ DOMAIN file = 1 .. Len(file)
      /\ Len(LeftToWg) = Len(file) /\ \A k : Len(Asked(k)) = Len(file)
  BY <1>2, FileLines
<1>4. n \in 1 .. Len(file) /\ lineno \in Nat /\ n - 1 = lineno /\ n \in 0 .. Len(file)
  BY <1>1, <1>2, <1>3
<1>5. l.v \in Strings /\ <<l>> \in Strings
  BY <1>2, <1>3, <1>4, LinesAreTexts
<1>6. InSection(in, n) /\ in \in BOOLEAN
  BY <1>2, <1>4, NextSection DEF InSection
<1>7. /\ OptsWhole'
      /\ opts'.addrs = IF in /\ l.k = "address" /\ l.v # <<>> THEN Joined(opts.addrs, l.v) ELSE opts.addrs
      /\ opts'.dnses = IF in /\ l.k = "dns" /\ l.v # <<>> THEN Joined(opts.dnses, l.v) ELSE opts.dnses
      /\ opts'.excluded = IF in /\ l.k = "excluded" THEN Joined(opts.excluded, l.v) ELSE opts.excluded
      /\ opts'.included = IF in /\ l.k = "included" THEN Joined(opts.included, l.v) ELSE opts.included
      /\ opts'.config = IF in /\ l.k \in Known /\ (l.v # <<>> \/ l.k \in Lists) THEN opts.config
                        ELSE Joined(opts.config, <<l>>)
  <2> HIDE DEF l, in
  <2> QED  BY <1>1, <1>2, <1>6, LineTakes
<1>8. ASSUME NEW k
      PROVE  /\ FlatTo(Asked(k), n) = FlatTo(Asked(k), lineno) \o Asked(k)[n]
             /\ Asked(k)[n] = IF l.k = k /\ in THEN l.v ELSE <<>>
  <2>1. FlatTo(Asked(k), n) = FlatTo(Asked(k), n - 1) \o Asked(k)[n]
    BY <1>3, <1>4, FlatSteps, Zenon
  <2>2. Asked(k)[n] = IF l.k = k /\ in THEN l.v ELSE <<>>
    BY <1>3, <1>4, <1>6, Zenon DEF Asked, InSection
  <2> QED  BY <2>1, <2>2, <1>4, Zenon
<1>9. /\ FlatTo(LeftToWg, n) = FlatTo(LeftToWg, lineno) \o LeftToWg[n]
      /\ LeftToWg[n] = IF in /\ l.k \in Known /\ (l.v # <<>> \/ l.k \in Lists) THEN <<>> ELSE <<l>>
  <2>1. FlatTo(LeftToWg, n) = FlatTo(LeftToWg, n - 1) \o LeftToWg[n]
    BY <1>3, <1>4, FlatSteps, Zenon
  <2>2. LeftToWg[n] = IF in /\ l.k \in Known /\ (l.v # <<>> \/ l.k \in Lists) THEN <<>> ELSE <<l>>
    BY <1>3, <1>4, <1>6, Zenon DEF LeftToWg, KeptBack, InSection
  <2> QED  BY <2>1, <2>2, <1>4, Zenon
<1> HIDE DEF l, in, n
<1>10. Holds(opts'.addrs, FlatTo(Asked("address"), n))
  <2> DEFINE c == in /\ l.k = "address" /\ l.v # <<>>
  <2>1. Asked("address")[n] = IF c THEN l.v ELSE <<>>
    <3>1. Asked("address")[n] = IF l.k = "address" /\ in THEN l.v ELSE <<>>
      BY <1>8, Zenon
    <3> QED  BY <3>1, Zenon
  <2>2. FlatTo(Asked("address"), n) = FlatTo(Asked("address"), lineno) \o (IF c THEN l.v ELSE <<>>)
    BY <1>8, <2>1, Zenon
  <2>3. opts'.addrs = IF c THEN Joined(opts.addrs, l.v) ELSE opts.addrs
    BY <1>7, Zenon
  <2>4. Holds(opts.addrs, FlatTo(Asked("address"), lineno))
    BY <1>2, Zenon DEF ReadTo
  <2> HIDE DEF c
  <2> QED  BY <1>5, <2>2, <2>3, <2>4, TakesMore, Zenon
<1>11. Holds(opts'.dnses, FlatTo(Asked("dns"), n))
  <2> DEFINE c == in /\ l.k = "dns" /\ l.v # <<>>
  <2>1. Asked("dns")[n] = IF c THEN l.v ELSE <<>>
    <3>1. Asked("dns")[n] = IF l.k = "dns" /\ in THEN l.v ELSE <<>>
      BY <1>8, Zenon
    <3> QED  BY <3>1, Zenon
  <2>2. FlatTo(Asked("dns"), n) = FlatTo(Asked("dns"), lineno) \o (IF c THEN l.v ELSE <<>>)
    BY <1>8, <2>1, Zenon
  <2>3. opts'.dnses = IF c THEN Joined(opts.dnses, l.v) ELSE opts.dnses
    BY <1>7, Zenon
  <2>4. Holds(opts.dnses, FlatTo(Asked("dns"), lineno))
    BY <1>2, Zenon DEF ReadTo
  <2> HIDE DEF c
  <2> QED  BY <1>5, <2>2, <2>3, <2>4, TakesMore, Zenon
<1>12. Holds(opts'.excluded, FlatTo(Asked("excluded"), n))
  <2> DEFINE c == in /\ l.k = "excluded"
  <2>1. Asked("excluded")[n] = IF c THEN l.v ELSE <<>>
    <3>1. Asked("excluded")[n] = IF l.k = "excluded" /\ in THEN l.v ELSE <<>>
      BY <1>8, Zenon
    <3> QED  BY <3>1, Zenon
  <2>2. FlatTo(Asked("excluded"), n) = FlatTo(Asked("excluded"), lineno) \o (IF c THEN l.v ELSE <<>>)
    BY <1>8, <2>1, Zenon
  <2>3. opts'.excluded = IF c THEN Joined(opts.excluded, l.v) ELSE opts.excluded
    BY <1>7, Zenon
  <2>4. Holds(opts.excluded, FlatTo(Asked("excluded"), lineno))
    BY <1>2, Zenon DEF ReadTo
  <2> HIDE DEF c
  <2> QED  BY <1>5, <2>2, <2>3, <2>4, TakesMore, Zenon
<1>13. Holds(opts'.included, FlatTo(Asked("included"), n))
  <2> DEFINE c == in /\ l.k = "included"
  <2>1. Asked("included")[n] = IF c THEN l.v ELSE <<>>
    <3>1. Asked("included")[n] = IF l.k = "included" /\ in THEN l.v ELSE <<>>
      BY <1>8, Zenon
    <3> QED  BY <3>1, Zenon
  <2>2. FlatTo(Asked("included"), n) = FlatTo(Asked("included"), lineno) \o (IF c THEN l.v ELSE <<>>)
    BY <1>8, <2>1, Zenon
  <2>3. opts'.included = IF c THEN Joined(opts.included, l.v) ELSE opts.included
    BY <1>7, Zenon
  <2>4. Holds(opts.included, FlatTo(Asked("included"), lineno))
    BY <1>2, Zenon DEF ReadTo
  <2> HIDE DEF c
  <2> QED  BY <1>5, <2>2, <2>3, <2>4, TakesMore, Zenon
<1>14. Holds(opts'.config, FlatTo(LeftToWg, n))
  <2> DEFINE c == ~(in /\ l.k \in Known /\ (l.v # <<>> \/ l.k \in Lists))
  <2>1. LeftToWg[n] = IF c THEN <<l>> ELSE <<>>
    BY <1>9, Zenon
  <2>2. FlatTo(LeftToWg, n) = FlatTo(LeftToWg, lineno) \o (IF c THEN <<l>> ELSE <<>>)
    BY <1>9, <2>1, Zenon
  <2>3. opts'.config = IF c THEN Joined(opts.config, <<l>>) ELSE opts.config
    BY <1>7, Zenon
  <2>4. Holds(opts.config, FlatTo(LeftToWg, lineno))
    BY <1>2, Zenon DEF ReadTo
  <2> HIDE DEF c
  <2> QED  BY <1>5, <2>2, <2>3, <2>4, TakesMore, Zenon
<1>15. LeftToWg' = LeftToWg /\ \A k : Asked(k)' = Asked(k)
  BY <1>1, Zenon DEF LeftToWg, KeptBack, Asked, InInterface
<1>16. InSection(inInterface, lineno)'
  BY <1>1, <1>6, Zenon DEF InSection, InInterface
<1>17. ReadTo(lineno)'
  BY <1>1, <1>10, <1>11, <1>12, <1>13, <1>14, <1>15, Zenon DEF ReadTo
<1>18. (opts.excluded \in Strings \cup {NULL} /\ opts.included \in Strings \cup {NULL})'
  BY <1>12, <1>13, Zenon DEF Holds
<1> QED  BY <1>1, <1>2, <1>4, <1>7, <1>16, <1>17, <1>18, Zenon DEF FileInv

\* Before the first line nothing is read.
LEMMA FileInvInit ==
  ASSUME FilesFormed, OInit
  PROVE  FileInv
<1>1. /\ file \in Files /\ packages \in Packages /\ host \in Hosts /\ phase = "parse" /\ lineno = 0
      /\ inInterface = FALSE /\ opts = NoOpts
  BY DEF OInit, NothingRead
<1>2. Len(file) \in Nat /\ Len(LeftToWg) \in Nat /\ \A k : Len(Asked(k)) \in Nat
  BY <1>1, FileLines
<1>3. FlatTo(LeftToWg, 0) = <<>> /\ \A k : FlatTo(Asked(k), 0) = <<>>
  BY <1>2, FlatSteps, Zenon
<1>4. Holds(NULL, <<>>)
  BY Zenon DEF Holds, OrEmpty
<1>5. opts.config = NULL /\ opts.addrs = NULL /\ opts.dnses = NULL /\ opts.excluded = NULL
      /\ opts.included = NULL /\ OptsWhole
  BY <1>1 DEF NoOpts, OptsWhole
<1>6. ReadTo(0)
  BY <1>3, <1>4, <1>5, Zenon DEF ReadTo
<1>7. \A h : h \notin 1 .. 0
  OBVIOUS
<1>8. InSection(FALSE, 0)
  BY <1>7, Zenon DEF InSection, InInterface
<1>9. 0 \in 0 .. Len(file)
  BY <1>2
<1> QED  BY <1>1, <1>5, <1>6, <1>8, <1>9, Zenon DEF FileInv

\* After the last line everything is.
LEMMA ReadAll ==
  ASSUME FilesFormed, FileInv, ParseEnd
  PROVE  FileInv'
<1>1. /\ phase = "parse" /\ phase' = "apply" /\ lineno = Len(file)
      /\ file' = file /\ packages' = packages /\ host' = host
      /\ opts' = [opts EXCEPT !.config = OrEmpty(@), !.addrs = OrEmpty(@), !.dnses = OrEmpty(@)]
  BY DEF ParseEnd
<1>2. /\ file \in Files /\ packages \in Packages /\ host \in Hosts /\ OptsWhole
      /\ opts.excluded \in Strings \cup {NULL} /\ opts.included \in Strings \cup {NULL}
      /\ ReadTo(lineno)
  BY <1>1, Zenon DEF FileInv
<1>3. Len(LeftToWg) = lineno /\ \A k : Len(Asked(k)) = lineno
  BY <1>1, <1>2, FileLines
<1>4. /\ opts'.config = OrEmpty(opts.config) /\ opts'.addrs = OrEmpty(opts.addrs)
      /\ opts'.dnses = OrEmpty(opts.dnses) /\ opts'.excluded = opts.excluded
      /\ opts'.included = opts.included /\ OptsWhole'
  BY <1>1, <1>2 DEF OptsWhole
<1>5. \A x : x \in Strings \cup {NULL} => OrEmpty(x) \in Strings
  BY NotNull, Zenon DEF OrEmpty
<1>6. LeftToWg' = LeftToWg /\ \A k : Asked(k)' = Asked(k)
  BY <1>1, Zenon DEF LeftToWg, KeptBack, Asked, InInterface
<1>7. FlatTo(LeftToWg, lineno) = Flat(LeftToWg) /\ \A k : FlatTo(Asked(k), lineno) = Flat(Asked(k))
  BY <1>3, Zenon DEF Flat
<1>8. opts'.config \in Strings /\ opts'.addrs \in Strings /\ opts'.dnses \in Strings
  BY <1>2, <1>4, <1>5, Zenon DEF ReadTo, Holds
<1>9. /\ opts'.addrs = Flat(Asked("address")) /\ opts'.dnses = Flat(Asked("dns"))
      /\ OrEmpty(opts'.excluded) = Flat(Asked("excluded"))
      /\ OrEmpty(opts'.included) = Flat(Asked("included"))
      /\ opts'.config = Flat(LeftToWg)
  BY <1>2, <1>4, <1>7, Zenon DEF ReadTo, Holds
<1>10. AllRead'
  BY <1>6, <1>8, <1>9, Zenon DEF AllRead
<1> QED  BY <1>1, <1>2, <1>4, <1>10, Zenon DEF FileInv

\* What is read stays, and no string is missing.
LEMMA StaysRead ==
  ASSUME FilesFormed, FileInv, LongLine \/ Crash \/ Apply \/ ExcludedUid \/ IncludedUid \/ UsersEnd \/ UNCHANGED ovars
  PROVE  FileInv'
<1>1. file' = file /\ packages' = packages /\ host' = host /\ opts' = opts
      /\ lineno' = lineno /\ inInterface' = inInterface
  BY DEF LongLine, Crash, Apply, ExcludedUid, IncludedUid, UsersEnd, ovars
<1>2. LeftToWg' = LeftToWg /\ (\A k : Asked(k)' = Asked(k)) /\ (Short' <=> Short)
      /\ (\A n : InInterface(n)' <=> InInterface(n))
  BY <1>1, Zenon DEF LeftToWg, KeptBack, Asked, InInterface, Short
<1>3. (AllRead' <=> AllRead) /\ (OptsWhole' <=> OptsWhole)
  BY <1>1, <1>2, Zenon DEF AllRead, OptsWhole
<1>4. CASE UNCHANGED ovars
  <2>1. phase' = phase
    BY <1>4 DEF ovars
  <2>2. (ReadTo(lineno)' <=> ReadTo(lineno))
        /\ (InSection(inInterface, lineno)' <=> InSection(inInterface, lineno))
    BY <1>1, <1>2, Zenon DEF ReadTo, InSection
  <2> QED  BY <1>1, <1>2, <1>3, <2>1, <2>2, Zenon DEF FileInv
<1>5. CASE LongLine
  <2>1. phase' = "apply" /\ ~Short
    <3>1. phase' = "apply" /\ lineno < Len(file) /\ file[lineno + 1].k = "long" /\ phase = "parse"
      BY <1>5 DEF LongLine
    <3>2. Len(file) \in Nat /\ DOMAIN file = 1 .. Len(file) /\ lineno \in 0 .. Len(file)
      BY <3>1, FileLines DEF FileInv
    <3>3. lineno + 1 \in DOMAIN file
      BY <3>1, <3>2
    <3> QED  BY <3>1, <3>3, Zenon DEF Short
  <2>2. phase' # "parse"
    BY <2>1
  <2> QED  BY <1>1, <1>2, <1>3, <2>1, <2>2, Zenon DEF FileInv
<1>6. CASE Crash
  <2>1. phase = "apply" /\ phase' = "crashed" /\ NULL \in {opts.config, opts.addrs, opts.dnses}
    BY <1>6, Zenon DEF Crash
  <2>2. phase # "parse" /\ phase' # "parse"
    BY <2>1
  <2>3. ~Short
    BY <2>1, <2>2, NotNull, Zenon DEF FileInv, AllRead
  <2> QED  BY <1>1, <1>2, <1>3, <2>2, <2>3, Zenon DEF FileInv
<1>7. CASE Apply \/ ExcludedUid \/ IncludedUid \/ UsersEnd
  <2>1. phase \in {"apply", "users"} /\ phase' \in {"refused", "users", "up"}
    BY <1>7 DEF Apply, ExcludedUid, IncludedUid, UsersEnd
  <2>2. phase # "parse" /\ phase' # "parse" /\ phase' # "crashed"
    BY <2>1
  <2> QED  BY <1>1, <1>2, <1>3, <2>2, Zenon DEF FileInv
<1> QED  BY <1>4, <1>5, <1>6, <1>7

\* Every step keeps what was read in order.
LEMMA FileInvNext ==
  ASSUME FilesFormed, FileInv, [ONext]_ovars
  PROVE  FileInv'
  BY ReadNext, ReadAll, StaysRead, Zenon DEF ONext

\* What was read is what the file says.
LEMMA FileInvSplits ==
  ASSUME FileInv
  PROVE  SplitsTheFile
<1>1. CASE phase = "parse"
  <2>1. phase # "crashed"
    BY <1>1
  <2> QED  BY <1>1, <2>1, Zenon DEF SplitsTheFile
<1>2. CASE phase # "parse"
  BY <1>2, Zenon DEF FileInv, AllRead, SplitsTheFile
<1> QED  BY <1>1, <1>2

(***************************************************************************)
(* The uids                                                                *)
(***************************************************************************)
\* There is no way to put a numbers apart in fewer places.
LEMMA Pigeonhole ==
  ASSUME NEW a \in Nat, NEW b \in Nat, NEW f, \A i \in 1 .. a : f[i] \in 1 .. b,
         \A i, j \in 1 .. a : f[i] = f[j] => i = j
  PROVE  a =< b
<1> DEFINE Apt(n, m, g) == /\ \A i \in 1 .. n : g[i] \in 1 .. m
                           /\ \A i, j \in 1 .. n : g[i] = g[j] => i = j
           T == {n \in Nat : \E m \in Nat : m < n /\ \E g : Apt(n, m, g)}
<1> SUFFICES ASSUME a > b PROVE FALSE
  OBVIOUS
<1>1. T \subseteq Nat
  OBVIOUS
<1>2. T # {}
  <2>1. b < a /\ Apt(a, b, f)
    OBVIOUS
  <2> HIDE DEF Apt
  <2> QED  BY <2>1
<1>3. PICK n \in T : \A i \in T : n =< i
  <2> HIDE DEF T
  <2> QED  BY <1>1, <1>2, Least
<1> HIDE DEF Apt
<1>4. PICK m \in Nat : m < n /\ \E g : Apt(n, m, g)
  OBVIOUS
<1>5. PICK g : Apt(n, m, g)
  BY <1>4
<1>6. n \in Nat /\ n \in 1 .. n /\ n - 1 \in Nat /\ ~(n =< n - 1)
  BY <1>4
<1> DEFINE h == [i \in 1 .. n - 1 |-> IF g[i] = m THEN g[n] ELSE g[i]]
<1>7. g[n] \in 1 .. m /\ m - 1 \in Nat /\ m - 1 < n - 1
  BY <1>4, <1>5, <1>6 DEF Apt
<1>8. \A i \in 1 .. n - 1 : i \in 1 .. n /\ i # n /\ g[i] \in 1 .. m /\ g[i] # g[n]
  BY <1>5, <1>6 DEF Apt
<1>9. \A i \in 1 .. n - 1 : h[i] = IF g[i] = m THEN g[n] ELSE g[i]
  OBVIOUS
<1> HIDE DEF h
<1>10. \A i \in 1 .. n - 1 : h[i] \in 1 .. m - 1
  BY <1>7, <1>8, <1>9
<1>11. \A i, j \in 1 .. n - 1 : h[i] = h[j] => i = j
  BY <1>5, <1>8, <1>9 DEF Apt
<1>12. Apt(n - 1, m - 1, h)
  BY <1>10, <1>11 DEF Apt
<1>13. n - 1 \in T
  BY <1>6, <1>7, <1>12
<1> HIDE DEF T
<1> QED  BY <1>3, <1>6, <1>13

(* The list get_uid_list makes for the names in s. *)
ListOf(us, s) ==
  /\ us \in Seq(1 .. Top)
  /\ \A a, b \in 1 .. Len(us) : a < b => us[a] <= us[b]
  /\ Range(us) = UidsOf(s)
  /\ Len(us) < Allocated(s)

\* get_uid_list finds the uids of the names it is given, in order, and has room for them.
LEMMA UidListMade ==
  ASSUME FilesFormed, packages \in Packages, NEW s \in Strings \cup {NULL}, GetUidList(s)
  PROVE  ListOf(uids', s)
<1> DEFINE names == OrEmpty(s)
           M == Matches(s)
<1>1. names \in Strings /\ (s = NULL => names = <<>>) /\ (s # NULL => names = s)
  BY NotNull, Zenon DEF OrEmpty
<1>2. Len(names) \in Nat /\ DOMAIN names = 1 .. Len(names)
  BY <1>1 DEF Strings
<1>3. /\ packages \in Seq(Range(packages))
      /\ \A a \in DOMAIN packages : packages[a].uid \in 0 .. Top
      /\ \A a, b \in DOMAIN packages : packages[a].name = packages[b].name => a = b
  BY Zenon DEF FilesFormed
<1>4. PICK n \in 0 .. Len(packages) * Len(OrEmpty(s)) :
        \E match \in Bijection(1 .. n, M) :
            /\ uids' = [j \in 1 .. n |-> packages[match[j][1]].uid]
            /\ \A a, b \in 1 .. n : a < b => uids'[a] <= uids'[b]
  BY Zenon DEF GetUidList
<1>5. PICK match \in Bijection(1 .. n, M) :
            /\ uids' = [j \in 1 .. n |-> packages[match[j][1]].uid]
            /\ \A a, b \in 1 .. n : a < b => uids'[a] <= uids'[b]
  BY <1>4, Zenon
<1>6. n \in Nat
  BY <1>4
<1>7. /\ \A j \in 1 .. n : match[j] \in M
      /\ \A i, j \in 1 .. n : match[i] = match[j] => i = j
      /\ \A m \in M : \E j \in 1 .. n : match[j] = m
  BY <1>5, Zenon DEF Bijection, Injection, Surjection, IsInjective
<1>8. \A m \in M : /\ m[1] \in DOMAIN packages /\ m[2] \in DOMAIN names /\ m = <<m[1], m[2]>>
                   /\ packages[m[1]].uid # 0 /\ packages[m[1]].name = s[m[2]]
  BY DEF Matches
<1>9. ASSUME NEW x, NEW y, x \in DOMAIN packages, y \in DOMAIN names,
             packages[x].uid # 0, packages[x].name = s[y]
      PROVE  <<x, y>> \in M
  BY <1>9 DEF Matches
<1> HIDE DEF M
<1>10. /\ Len(uids') = n /\ DOMAIN uids' = 1 .. n
       /\ \A j \in 1 .. n : uids'[j] = packages[match[j][1]].uid
  BY <1>5, <1>6
<1>11. uids' \in Seq(1 .. Top)
  <2>1. \A j \in 1 .. n : packages[match[j][1]].uid \in 0 .. Top /\ packages[match[j][1]].uid # 0
    BY <1>3, <1>7, <1>8, Zenon
  <2>2. Top \in Nat
    BY DEF FilesFormed
  <2>3. \A u : u \in 0 .. Top /\ u # 0 => u \in 1 .. Top
    BY <2>2
  <2>4. \A j \in 1 .. n : packages[match[j][1]].uid \in 1 .. Top
    BY <2>1, <2>3, Zenon
  <2>5. uids' \in [1 .. n -> 1 .. Top]
    BY <1>5, <2>4, Zenon
  <2>6. \A S : uids' \in [1 .. n -> S] => uids' \in Seq(S)
    BY <1>6
  <2> QED  BY <2>5, <2>6, Zenon
<1>12. Range(uids') = UidsOf(s)
  <2>1. ASSUME NEW x \in Range(uids') PROVE x \in UidsOf(s)
    <3>0. PICK i \in DOMAIN uids' : x = uids'[i]
      BY Zenon DEF Range
    <3>1. PICK j \in 1 .. n : x = packages[match[j][1]].uid
      BY <1>10, <3>0, Zenon
    <3>2. match[j][1] \in DOMAIN packages /\ match[j][2] \in DOMAIN names
          /\ packages[match[j][1]].uid # 0 /\ packages[match[j][1]].name = s[match[j][2]]
      BY <1>7, <1>8, Zenon
    <3>3. s = names
      BY <1>1, <1>2, <3>2
    <3>4. packages[match[j][1]].name \in Range(names)
      BY <3>2, <3>3, Zenon DEF Range
    <3>5. packages[match[j][1]] \in Range(packages)
      BY <3>2, Zenon DEF Range
    <3> QED  BY <3>1, <3>2, <3>4, <3>5, Zenon DEF UidsOf
  <2>2. ASSUME NEW x \in UidsOf(s) PROVE x \in Range(uids')
    <3>1. PICK p \in Range(packages) : p.uid # 0 /\ p.name \in Range(names) /\ x = p.uid
      BY Zenon DEF UidsOf
    <3>2. PICK a \in DOMAIN packages : p = packages[a]
      BY <3>1, Zenon DEF Range
    <3>3. PICK b \in DOMAIN names : p.name = names[b]
      BY <3>1, Zenon DEF Range
    <3>4. s = names
      BY <1>1, <1>2, <3>3
    <3>5. <<a, b>> \in M
      BY <1>9, <3>1, <3>2, <3>3, <3>4, Zenon
    <3>6. PICK j \in 1 .. n : match[j] = <<a, b>>
      BY <1>7, <3>5, Zenon
    <3>7. match[j][1] = a
      BY <3>6
    <3>8. uids'[j] = x
      BY <1>10, <3>1, <3>2, <3>7, Zenon
    <3> QED  BY <1>10, <3>8, Zenon DEF Range
  <2> QED  BY <2>1, <2>2, Zenon
<1>13. n =< Len(names)
  <2> DEFINE f == [j \in 1 .. n |-> match[j][2]]
  <2>1. \A j \in 1 .. n : f[j] = match[j][2]
    OBVIOUS
  <2> HIDE DEF f
  <2>2. ASSUME NEW j \in 1 .. n
        PROVE  /\ match[j][1] \in DOMAIN packages /\ f[j] \in 1 .. Len(names)
               /\ packages[match[j][1]].name = s[f[j]] /\ match[j] = <<match[j][1], f[j]>>
    <3> DEFINE m == match[j]
    <3>1. m \in M /\ f[j] = m[2]
      BY <1>7, <2>1, Zenon
    <3> HIDE DEF m
    <3>2. /\ m[1] \in DOMAIN packages /\ m[2] \in DOMAIN names /\ m = <<m[1], m[2]>>
          /\ packages[m[1]].name = s[m[2]]
      BY <1>8, <3>1, Zenon
    <3> QED  BY <1>2, <3>1, <3>2, Zenon DEF m
  <2>3. ASSUME NEW i \in 1 .. n, NEW j \in 1 .. n, f[i] = f[j] PROVE i = j
    <3>1. packages[match[i][1]].name = packages[match[j][1]].name
      BY <2>2, <2>3, Zenon
    <3>2. match[i][1] = match[j][1]
      BY <1>3, <2>2, <3>1, Zenon
    <3>3. match[i] = match[j]
      BY <2>2, <2>3, <3>2, Zenon
    <3> QED  BY <1>7, <3>3, Zenon
  <2> QED  BY <1>2, <1>6, <2>2, <2>3, Pigeonhole
<1>14. Len(uids') < Allocated(s)
  <2>1. CASE s = NULL
    BY <1>1, <1>6, <1>10, <1>13, <2>1 DEF Allocated
  <2>2. CASE s # NULL
    BY <1>1, <1>2, <1>6, <1>10, <1>13, <2>2 DEF Allocated
  <2> QED  BY <2>1, <2>2
<1> QED  BY <1>5, <1>10, <1>11, <1>12, <1>14, Zenon DEF ListOf

\* Multiples of a number are no closer than the number.
LEMMA Multiples ==
  ASSUME NEW b \in Nat \ {0}, NEW p \in Int, NEW q \in Int, p < q
  PROVE  b * p + b =< b * q
<1>1. PICK d \in Nat : q = p + 1 + d
  BY q - p - 1 \in Nat
<1>2. b * q = b * p + b + b * d
  BY <1>1
<1>3. b * d \in Nat /\ b * p \in Int
  OBVIOUS
<1> QED  BY <1>2, <1>3

\* A quotient and a remainder are the only ones.
LEMMA OneRemainder ==
  ASSUME NEW b \in Nat \ {0}, NEW p \in Int, NEW q \in Int, NEW r \in 0 .. b - 1, NEW t \in 0 .. b - 1,
         b * p + r = b * q + t
  PROVE  r = t
<1>1. b * p \in Int /\ b * q \in Int
  OBVIOUS
<1>2. CASE p < q
  <2>1. b * p + b =< b * q
    BY <1>2, Multiples
  <2> QED  BY <1>1, <2>1
<1>3. CASE q < p
  <2>1. b * q + b =< b * p
    BY <1>3, Multiples
  <2> QED  BY <1>1, <2>1
<1>4. CASE p = q
  BY <1>1, <1>4
<1> QED  BY <1>2, <1>3, <1>4

\* A remainder counts up to the divisor and starts again.
LEMMA ModStep ==
  ASSUME NEW a \in Nat, NEW b \in Nat \ {0}
  PROVE  /\ a % b \in 0 .. b - 1
         /\ (a + 1) % b = IF (a % b) + 1 = b THEN 0 ELSE (a % b) + 1
<1>1. ASSUME NEW n \in Nat PROVE n % b \in 0 .. b - 1 /\ n \div b \in Int /\ n = b * (n \div b) + (n % b)
  OBVIOUS
<1>2. /\ a % b \in 0 .. b - 1 /\ a \div b \in Int /\ a = b * (a \div b) + (a % b)
      /\ (a + 1) % b \in 0 .. b - 1 /\ (a + 1) \div b \in Int
      /\ a + 1 = b * ((a + 1) \div b) + ((a + 1) % b)
  BY <1>1, a + 1 \in Nat
<1>3. CASE (a % b) + 1 = b
  <2>1. a + 1 = b * ((a \div b) + 1) + 0
    BY <1>2, <1>3
  <2>2. b * ((a \div b) + 1) + 0 = b * ((a + 1) \div b) + ((a + 1) % b)
    BY <1>2, <2>1
  <2>3. (a \div b) + 1 \in Int /\ 0 \in 0 .. b - 1
    BY <1>2
  <2>4. 0 = (a + 1) % b
    BY <1>2, <2>2, <2>3, OneRemainder
  <2> QED  BY <1>2, <1>3, <2>4
<1>4. CASE (a % b) + 1 # b
  <2>1. a + 1 = b * (a \div b) + ((a % b) + 1)
    BY <1>2
  <2>2. b * (a \div b) + ((a % b) + 1) = b * ((a + 1) \div b) + ((a + 1) % b)
    BY <1>2, <2>1
  <2>3. (a % b) + 1 \in 0 .. b - 1
    BY <1>2, <1>4
  <2>4. (a % b) + 1 = (a + 1) % b
    BY <1>2, <2>2, <2>3, OneRemainder
  <2> QED  BY <1>2, <1>4, <2>4
<1> QED  BY <1>3, <1>4

(***************************************************************************)
(* The ranges                                                              *)
(***************************************************************************)
Pairs == Int \X Int

(* x is in a range of a command, or of one of the commands. *)
In(rs, x) == \E i \in DOMAIN rs : x \in rs[i][1] .. rs[i][2]
Sent(us, x) == \E j \in DOMAIN us : In(us[j], x)

\* Appending leaves the elements where they are.
LEMMA AppendIs ==
  ASSUME NEW S, NEW s \in Seq(S), NEW e \in S
  PROVE  /\ Append(s, e) \in Seq(S) /\ Len(Append(s, e)) = Len(s) + 1 /\ Len(s) \in Nat
         /\ \A i : i \in DOMAIN Append(s, e) <=> i \in DOMAIN s \/ i = Len(s) + 1
         /\ \A i \in DOMAIN s : Append(s, e)[i] = s[i]
         /\ Append(s, e)[Len(s) + 1] = e
  OBVIOUS

\* A range that is appended is in, and so is what was.
LEMMA InAppend ==
  ASSUME NEW rs \in Seq(Pairs), NEW r \in Pairs, NEW x
  PROVE  In(Append(rs, r), x) <=> In(rs, x) \/ x \in r[1] .. r[2]
<1> DEFINE a == Append(rs, r)
           n == Len(rs) + 1
<1>1. /\ \A i : i \in DOMAIN a <=> i \in DOMAIN rs \/ i = n
      /\ \A i \in DOMAIN rs : a[i] = rs[i]
      /\ a[n] = r
  BY AppendIs
<1> HIDE DEF a, n
<1> QED  BY <1>1, Zenon DEF In, a

\* A command that is appended is sent, and so is what was.
LEMMA SentAppend ==
  ASSUME NEW us \in Seq(Seq(Pairs)), NEW rs \in Seq(Pairs), NEW x
  PROVE  Sent(Append(us, rs), x) <=> Sent(us, x) \/ In(rs, x)
<1> DEFINE a == Append(us, rs)
           n == Len(us) + 1
<1>1. /\ \A i : i \in DOMAIN a <=> i \in DOMAIN us \/ i = n
      /\ \A i \in DOMAIN us : a[i] = us[i]
      /\ a[n] = rs
  <2> DEFINE S == Seq(Pairs)
  <2> HIDE DEF S
  <2>1. us \in Seq(S) /\ rs \in S
    BY Zenon DEF S
  <2> QED  BY <2>1, AppendIs
<1> HIDE DEF a, n
<1> QED  BY <1>1, Zenon DEF Sent, a

(* The commands are neither empty nor too long. *)
Fit(us) == \A j \in DOMAIN us : Len(us[j]) \in 1 .. Batch

\* Commands that fit and one more that does.
LEMMA FitAppend ==
  ASSUME NEW us \in Seq(Seq(Pairs)), NEW rs \in Seq(Pairs), Fit(us), Len(rs) \in 1 .. Batch
  PROVE  Append(us, rs) \in Seq(Seq(Pairs)) /\ Fit(Append(us, rs))
<1> DEFINE a == Append(us, rs)
           n == Len(us) + 1
<1>1. /\ a \in Seq(Seq(Pairs))
      /\ \A i : i \in DOMAIN a <=> i \in DOMAIN us \/ i = n
      /\ \A i \in DOMAIN us : a[i] = us[i]
      /\ a[n] = rs
  <2> DEFINE S == Seq(Pairs)
  <2> HIDE DEF S
  <2>1. us \in Seq(S) /\ rs \in S
    BY Zenon DEF S
  <2>2. /\ a \in Seq(S)
        /\ \A i : i \in DOMAIN a <=> i \in DOMAIN us \/ i = n
        /\ \A i \in DOMAIN us : a[i] = us[i]
        /\ a[n] = rs
    BY <2>1, AppendIs
  <2> QED  BY <2>2, Zenon DEF S
<1> HIDE DEF a, n
<1> QED  BY <1>1, Zenon DEF Fit, a

(* What was gathered and sent so far. *)
Gathered(us, rs, n) ==
  us \in Seq(Seq(Pairs)) /\ rs \in Seq(Pairs) /\ Fit(us) /\ n \in Nat /\ Len(rs) = n % Batch

\* A range that is added is gathered or sent with what was gathered before it.
LEMMA AddsRange ==
  ASSUME FilesFormed, Gathered(users, ranges, args), NEW r \in Pairs, Adds(r)
  PROVE  /\ Gathered(users', ranges', args')
         /\ \A x : Sent(users', x) \/ In(ranges', x) <=> Sent(users, x) \/ In(ranges, x) \/ x \in r[1] .. r[2]
<1> DEFINE a == Append(ranges, r)
<1>1. users \in Seq(Seq(Pairs)) /\ ranges \in Seq(Pairs) /\ Fit(users) /\ args \in Nat /\ Len(ranges) = args % Batch
  BY Zenon DEF Gathered
<1>2. Batch \in Nat \ {0}
  BY DEF FilesFormed
<1>3. a \in Seq(Pairs) /\ Len(a) = Len(ranges) + 1 /\ Len(ranges) \in Nat
  BY <1>1, AppendIs
<1>4. args' = args + 1 /\ args' \in Nat
  BY <1>1 DEF Adds
<1>5. args % Batch \in 0 .. Batch - 1 /\ args' % Batch = IF (args % Batch) + 1 = Batch THEN 0 ELSE (args % Batch) + 1
  BY <1>1, <1>2, <1>4, ModStep, Zenon
<1>6. \A x : In(a, x) <=> In(ranges, x) \/ x \in r[1] .. r[2]
  BY <1>1, InAppend, Zenon
<1>7. CASE args' % Batch = 0
  <2>1. users' = Append(users, a) /\ ranges' = <<>>
    BY <1>7, Zenon DEF Adds
  <2>2. Len(a) \in 1 .. Batch
    BY <1>1, <1>2, <1>3, <1>5, <1>7
  <2>3. users' \in Seq(Seq(Pairs)) /\ Fit(users')
    BY <1>1, <1>3, <2>1, <2>2, FitAppend, Zenon
  <2>4. ranges' \in Seq(Pairs) /\ Len(ranges') = 0 /\ \A x : ~In(ranges', x)
    BY <2>1 DEF In
  <2>5. \A x : Sent(users', x) <=> Sent(users, x) \/ In(a, x)
    BY <1>1, <1>3, <2>1, SentAppend, Zenon
  <2>6. Gathered(users', ranges', args')
    BY <1>4, <1>7, <2>3, <2>4, Zenon DEF Gathered
  <2> QED  BY <1>6, <2>4, <2>5, <2>6, Zenon
<1>8. CASE args' % Batch # 0
  <2>1. users' = users /\ ranges' = a
    BY <1>8, Zenon DEF Adds
  <2>2. Len(ranges') = args' % Batch
    BY <1>1, <1>2, <1>3, <1>5, <1>8, <2>1
  <2>3. Gathered(users', ranges', args')
    BY <1>1, <1>3, <1>4, <2>1, <2>2, Zenon DEF Gathered
  <2> QED  BY <1>6, <2>1, <2>3, Zenon
<1> QED  BY <1>7, <1>8

(***************************************************************************)
(* The users                                                               *)
(***************************************************************************)
(* x is among the first n uids; it is covered once they have been gone through. *)
Passed(us, n, x) == \E j \in 1 .. n : us[j] = x
Reached(black, us, n, from, x) == IF black THEN x \in 0 .. from - 1 /\ ~Passed(us, n, x) ELSE Passed(us, n, x)
StartOf(black, us, n) == IF black /\ n # 0 THEN us[n] + 1 ELSE 0

Untouched == nth = 0 /\ start = 0 /\ ranges = <<>> /\ args = 0 /\ users = <<>>

Gathering ==
  /\ nth \in 0 .. Len(uids) /\ start = StartOf(Blacklist, uids, nth)
  /\ Gathered(users, ranges, args)
  /\ \A x : Sent(users, x) \/ In(ranges, x) <=> Reached(Blacklist, uids, nth, start, x)

\* What cmd_up made of the options.
Configured ==
  network # NULL =>
    /\ network.addrs = set_addr(opts.addrs) /\ network.dns = set_dnses(opts.dnses)
    /\ network.mtu = set_mtu(host, opts.mtu) /\ (network.drop6 <=> ShouldBlockIpv6(host))

UsersInv ==
  /\ phase \in {"parse", "apply", "crashed", "refused", "users", "up"}
  /\ phase \in {"parse", "apply", "crashed"} => network = NULL
  /\ phase \in {"parse", "apply", "crashed", "refused"} => Untouched
  /\ phase \in {"users", "up"} => ListOf(uids, Selected)
  /\ phase = "users" => Gathering
  /\ phase = "up" => UsersAsAsked /\ Fit(users)
  /\ Configured

\* A uid more has been gone through.
LEMMA PassedMore ==
  ASSUME NEW us, NEW n \in Nat, NEW x
  PROVE  Passed(us, n + 1, x) <=> Passed(us, n, x) \/ us[n + 1] = x
<1>1. \A j : j \in 1 .. n + 1 <=> j \in 1 .. n \/ j = n + 1
  OBVIOUS
<1> QED  BY <1>1, Zenon DEF Passed

\* The uids that have been gone through are below the start of the next range.
LEMMA PassedBelow ==
  ASSUME NEW us, NEW n \in Nat, NEW m \in Nat, n =< m, us \in [1 .. m -> 1 .. Top],
         \A a, b \in 1 .. m : a < b => us[a] <= us[b], Top \in Nat
  PROVE  StartOf(TRUE, us, n) \in Nat /\ \A x : Passed(us, n, x) => x \in Nat /\ x < StartOf(TRUE, us, n)
<1> DEFINE s == StartOf(TRUE, us, n)
<1>1. \A j \in 1 .. n : j \in 1 .. m /\ us[j] \in 1 .. Top
  OBVIOUS
<1>2. CASE n = 0
  <2>1. s = 0 /\ \A j : j \notin 1 .. n
    BY <1>2 DEF StartOf
  <2>2. \A x : ~Passed(us, n, x)
    BY <2>1, Zenon DEF Passed
  <2>3. s \in Nat
    BY <2>1, 0 \in Nat, Zenon
  <2> QED  BY <2>2, <2>3, Zenon
<1>3. CASE n # 0
  <2>1. n \in 1 .. n /\ n \in 1 .. m /\ us[n] \in 1 .. Top
    BY <1>1, <1>3
  <2>2. s = us[n] + 1
    BY <1>3, Zenon DEF StartOf
  <2> HIDE DEF s
  <2>3. \A j \in 1 .. n : us[j] <= us[n]
    <3> SUFFICES ASSUME NEW j \in 1 .. n PROVE us[j] <= us[n]
      OBVIOUS
    <3>1. CASE j = n
      BY <3>1, <2>1
    <3>2. CASE j # n
      <4>1. j \in 1 .. m /\ n \in 1 .. m /\ j < n
        BY <1>1, <2>1, <3>2
      <4> QED  BY <4>1, Zenon
    <3> QED  BY <3>1, <3>2
  <2>4. s \in Nat /\ \A j \in 1 .. n : us[j] \in Nat /\ us[j] < s
    BY <1>1, <2>1, <2>2, <2>3
  <2>5. \A x : Passed(us, n, x) => x \in Nat /\ x < s
    BY <2>4, Zenon DEF Passed
  <2> QED  BY <2>4, <2>5, Zenon DEF s
<1> QED  BY <1>2, <1>3

\* The complement of a uid more: the gap before it, if there is one.
LEMMA GapBefore ==
  ASSUME NEW us, NEW n \in Nat, NEW m \in Nat, n < m, us \in [1 .. m -> 1 .. Top],
         \A a, b \in 1 .. m : a < b => us[a] <= us[b], Top \in Nat,
         NEW x
  PROVE  LET s == StartOf(TRUE, us, n)
             u == us[n + 1]
         IN  Reached(TRUE, us, n + 1, u + 1, x) <=> Reached(TRUE, us, n, s, x) \/ x \in s .. u - 1
<1> DEFINE s == StartOf(TRUE, us, n)
           u == us[n + 1]
<1>1. n + 1 \in 1 .. m /\ u \in 1 .. Top /\ n =< m
  OBVIOUS
<1>2. s \in Nat /\ (Passed(us, n, x) => x \in Nat /\ x < s)
  BY <1>1, PassedBelow, Zenon
<1>3. s =< u + 1 /\ (s = u + 1 => Passed(us, n, u))
  <2>1. CASE n = 0
    <3>1. s = 0
      BY <2>1 DEF StartOf
    <3> HIDE DEF s, u
    <3> QED  BY <1>1, <3>1
  <2>2. CASE n # 0
    <3>1. n \in 1 .. n /\ n \in 1 .. m /\ n < n + 1 /\ us[n] \in 1 .. Top
      BY <2>2
    <3>2. s = us[n] + 1
      BY <2>2, Zenon DEF StartOf
    <3>3. us[n] <= u
      BY <1>1, <3>1, Zenon
    <3> HIDE DEF s, u
    <3>4. s =< u + 1 /\ (s = u + 1 => us[n] = u)
      BY <1>1, <3>1, <3>2, <3>3
    <3> QED  BY <3>1, <3>4, Zenon DEF Passed
  <2> QED  BY <2>1, <2>2
<1> HIDE DEF s, u
<1>4. Reached(TRUE, us, n + 1, u + 1, x) <=> x \in 0 .. (u + 1) - 1 /\ ~Passed(us, n, x) /\ x # u
  <2>1. Passed(us, n + 1, x) <=> Passed(us, n, x) \/ u = x
    BY PassedMore, Zenon DEF u
  <2>2. Reached(TRUE, us, n + 1, u + 1, x) <=> x \in 0 .. (u + 1) - 1 /\ ~Passed(us, n + 1, x)
    BY Zenon DEF Reached
  <2>3. u = x <=> x = u
    OBVIOUS
  <2> QED  BY <2>1, <2>2, <2>3, Zenon
<1>5. Reached(TRUE, us, n, s, x) <=> x \in 0 .. s - 1 /\ ~Passed(us, n, x)
  BY Zenon DEF Reached
<1>6. u \in Nat
  BY <1>1
<1>7. x \in 0 .. (u + 1) - 1 /\ ~Passed(us, n, x) /\ x # u
      <=> (x \in 0 .. s - 1 /\ ~Passed(us, n, x)) \/ x \in s .. u - 1
  BY <1>2, <1>3, <1>6
<1>8. Reached(TRUE, us, n + 1, u + 1, x) <=> Reached(TRUE, us, n, s, x) \/ x \in s .. u - 1
  BY <1>4, <1>5, <1>7, Zenon
<1> QED  BY <1>8, Zenon DEF s, u

\* What was sent is covered.
LEMMA CoveredIs ==
  ASSUME NEW us, NEW x
  PROVE  x \in UNION {r[1] .. r[2] : r \in UNION {Range(us[j]) : j \in DOMAIN us}} <=> Sent(us, x)
<1> DEFINE C == UNION {Range(us[j]) : j \in DOMAIN us}
           D == UNION {r[1] .. r[2] : r \in C}
<1>1. \A r : r \in C <=> \E j \in DOMAIN us : r \in Range(us[j])
  BY Zenon
<1>2. x \in D <=> \E r \in C : x \in r[1] .. r[2]
  BY Zenon
<1> HIDE DEF C, D
<1>3. x \in D <=> \E j \in DOMAIN us : \E r \in Range(us[j]) : x \in r[1] .. r[2]
  BY <1>1, <1>2, Zenon
<1>4. \A rs : (\E r \in Range(rs) : x \in r[1] .. r[2]) <=> In(rs, x)
  BY Zenon DEF Range, In
<1>5. x \in D <=> Sent(us, x)
  BY <1>3, <1>4, Zenon DEF Sent
<1> QED  BY <1>5, Zenon DEF C, D

\* Before the first line nothing is set up.
LEMMA UsersInvInit ==
  ASSUME OInit
  PROVE  UsersInv
<1>1. phase = "parse" /\ network = NULL /\ Untouched
  BY DEF OInit, NothingRead, Untouched
<1>2. phase \notin {"users", "up"} /\ phase # "users" /\ phase # "up"
  BY <1>1
<1>3. phase \in {"parse", "apply", "crashed", "refused", "users", "up"}
  BY <1>1
<1> QED  BY <1>1, <1>2, <1>3, Zenon DEF UsersInv, Configured

\* Nothing is set up by reading the file.
LEMMA ReadingSetsNothing ==
  ASSUME UsersInv, ParseLine \/ LongLine \/ ParseEnd \/ Crash
  PROVE  UsersInv'
<1>1. /\ phase \in {"parse", "apply"} /\ phase' \in {"parse", "apply", "crashed"} /\ network' = network
      /\ nth' = nth /\ start' = start /\ ranges' = ranges /\ args' = args /\ users' = users
  BY DEF ParseLine, LongLine, ParseEnd, Crash
<1>2. /\ phase \in {"parse", "apply", "crashed"} /\ phase \in {"parse", "apply", "crashed", "refused"}
      /\ phase' \in {"parse", "apply", "crashed", "refused"} /\ phase' \notin {"users", "up"}
      /\ phase' # "users" /\ phase' # "up"
      /\ phase' \in {"parse", "apply", "crashed", "refused", "users", "up"}
  BY <1>1
<1>3. network' = NULL /\ Untouched'
  BY <1>1, <1>2, Zenon DEF UsersInv, Untouched
<1> QED  BY <1>2, <1>3, Zenon DEF UsersInv, Configured

\* No line of `wg show endpoints' matches: the MTU is that of the default route.
LEMMA MtuIsDefault ==
  ASSUME FilesFormed, NEW h \in Hosts
  PROVE  set_mtu(h, 0) + 80 = DefaultMtu(h)
<1> DEFINE d == GetRouteMtu(h, "default")
           default == IF d = -1 THEN 1500 ELSE d
           matched == {l \in Range(EndpointLines(h)) : MatchesEndpoint(l)}
           lower == {default} \cup {m \in {GetRouteMtu(h, l[1]) : l \in matched} : m > 0}
<1>1. d \in Int
  BY Zenon DEF FilesFormed
<1>2. default \in Int
  <2> HIDE DEF d
  <2> QED  BY <1>1
<1>3. \A l \in matched : FALSE
  <2> SUFFICES ASSUME NEW l \in Range(EndpointLines(h)) PROVE ~MatchesEndpoint(l)
    BY Zenon
  <2>1. PICK j \in DOMAIN h.peers : l = <<"key", "tab", h.peers[j], "newline">>
    BY Zenon DEF Range, EndpointLines
  <2> QED  BY <2>1 DEF MatchesEndpoint
<1>4. set_mtu(h, 0) = (CHOOSE m \in lower : \A x \in lower : m <= x) - 80
  BY DEF set_mtu
<1> HIDE DEF matched
<1>5. lower = {default}
  BY <1>3, Zenon
<1> HIDE DEF lower, default
<1> DEFINE c == CHOOSE m \in lower : \A x \in lower : m <= x
<1>6. c \in lower
  <2>1. default \in lower /\ \A x \in lower : default <= x
    BY <1>2, <1>5
  <2> QED  BY <2>1, Zenon
<1>7. set_mtu(h, 0) = c - 80
  BY <1>4, Zenon
<1> HIDE DEF c
<1>8. c = default
  BY <1>5, <1>6
<1>9. set_mtu(h, 0) + 80 = default
  BY <1>2, <1>7, <1>8
<1> QED  BY <1>9, Zenon DEF default, DefaultMtu

\* Before the first uid nothing is gathered, and nothing is to be.
LEMMA NothingGathered ==
  ASSUME FilesFormed, NEW black, NEW us, us \in Seq(1 .. Top)
  PROVE  /\ 0 \in 0 .. Len(us) /\ 0 = StartOf(black, us, 0) /\ Gathered(<<>>, <<>>, 0)
         /\ \A x : Sent(<<>>, x) \/ In(<<>>, x) <=> Reached(black, us, 0, 0, x)
<1>1. 0 \in 0 .. Len(us) /\ 0 = StartOf(black, us, 0)
  BY DEF StartOf
<1>2. Batch \in Nat \ {0}
  BY DEF FilesFormed
<1>3. 0 % Batch = 0
  BY <1>2
<1>4. <<>> \in Seq(Seq(Pairs)) /\ <<>> \in Seq(Pairs) /\ Len(<<>>) = 0 /\ \A i : i \notin DOMAIN <<>>
  OBVIOUS
<1>5. Gathered(<<>>, <<>>, 0)
  BY <1>3, <1>4 DEF Gathered, Fit
<1>6. \A x : ~Sent(<<>>, x) /\ ~In(<<>>, x)
  BY <1>4, Zenon DEF Sent, In
<1>7. \A x : x \notin 1 .. 0 /\ x \notin 0 .. 0 - 1
  OBVIOUS
<1>8. \A x : ~Reached(black, us, 0, 0, x)
  BY <1>7, Zenon DEF Reached, Passed
<1> QED  BY <1>1, <1>5, <1>6, <1>8, Zenon

\* The uids are listed, and nothing is gathered yet.
LEMMA AppliesTheFile ==
  ASSUME FilesFormed, FileInv, UsersInv, Apply
  PROVE  UsersInv'
<1>1. /\ phase = "apply" /\ opts' = opts /\ host' = host /\ packages' = packages
      /\ nth' = nth /\ start' = start /\ ranges' = ranges /\ args' = args /\ users' = users
      /\ network' = [addrs |-> set_addr(opts.addrs), dns |-> set_dnses(opts.dnses),
                     mtu |-> set_mtu(host, opts.mtu), drop6 |-> ShouldBlockIpv6(host)]
  BY Zenon DEF Apply
<1>2. phase \in {"parse", "apply", "crashed", "refused"}
  BY <1>1
<1>3. Untouched /\ Untouched'
  BY <1>1, <1>2, Zenon DEF UsersInv, Untouched
<1>4. Configured'
  BY <1>1 DEF Configured
<1>5. CASE opts.excluded # NULL /\ opts.included # NULL
  <2>1. phase' = "refused"
    BY <1>5 DEF Apply
  <2>2. phase' \in {"parse", "apply", "crashed", "refused", "users", "up"}
        /\ phase' \notin {"parse", "apply", "crashed"} /\ phase' \notin {"users", "up"}
        /\ phase' # "users" /\ phase' # "up"
    BY <2>1
  <2> QED  BY <1>3, <1>4, <2>2, Zenon DEF UsersInv
<1>6. CASE ~(opts.excluded # NULL /\ opts.included # NULL)
  <2>1. phase' = "users" /\ GetUidList(Selected)
    BY <1>6, Zenon DEF Apply, Selected
  <2>2. packages \in Packages /\ Selected \in Strings \cup {NULL}
    BY Zenon DEF FileInv, Selected
  <2>3. ListOf(uids', Selected)
    BY <2>1, <2>2, UidListMade
  <2>4. ListOf(uids, Selected)'
    BY <1>1, <2>3, Zenon DEF ListOf, UidsOf, Selected, Blacklist
  <2>5. Gathering'
    BY <1>3, <2>4, NothingGathered, Zenon DEF Gathering, Untouched, ListOf
  <2>6. phase' \in {"parse", "apply", "crashed", "refused", "users", "up"}
        /\ phase' \notin {"parse", "apply", "crashed"} /\ phase' \notin {"parse", "apply", "crashed", "refused"}
        /\ phase' # "up"
    BY <2>1
  <2> QED  BY <1>4, <2>4, <2>5, <2>6, Zenon DEF UsersInv
<1> QED  BY <1>5, <1>6

\* Every uid of the list is a number up to the last.
LEMMA ListIs ==
  ASSUME FilesFormed, NEW s, ListOf(uids, s)
  PROVE  /\ Len(uids) \in Nat /\ uids \in [1 .. Len(uids) -> 1 .. Top] /\ Top \in Nat
         /\ \A a, b \in 1 .. Len(uids) : a < b => uids[a] <= uids[b]
<1>1. uids \in Seq(1 .. Top) /\ \A a, b \in 1 .. Len(uids) : a < b => uids[a] <= uids[b]
  BY Zenon DEF ListOf
<1>2. Top \in Nat
  BY DEF FilesFormed
<1> QED  BY <1>1, <1>2

\* There is a uid that has not been gone through.
LEMMA NextUid ==
  ASSUME NEW us, NEW m \in Nat, NEW n \in 0 .. m, n < m, us \in [1 .. m -> 1 .. Top], Top \in Nat
  PROVE  n \in Nat /\ n + 1 \in 1 .. m /\ n + 1 \in 0 .. m /\ us[n + 1] \in Int /\ n + 1 # 0
<1>1. n \in Nat /\ n + 1 \in 1 .. m /\ n + 1 \in 0 .. m /\ n + 1 # 0
  OBVIOUS
<1>2. us[n + 1] \in 1 .. Top
  BY <1>1, Zenon
<1> QED  BY <1>1, <1>2

\* What stays when a uid is gone through.
LEMMA UidGoneThrough ==
  ASSUME FilesFormed, UsersInv, ExcludedUid \/ IncludedUid, Gathering'
  PROVE  UsersInv'
<1>1. /\ phase = "users" /\ phase' = "users" /\ opts' = opts /\ host' = host /\ packages' = packages
      /\ uids' = uids /\ network' = network
  BY DEF ExcludedUid, IncludedUid
<1>2. /\ phase \in {"users", "up"} /\ phase' \in {"parse", "apply", "crashed", "refused", "users", "up"}
      /\ phase' \notin {"parse", "apply", "crashed"} /\ phase' \notin {"parse", "apply", "crashed", "refused"}
      /\ phase' # "up"
  BY <1>1
<1>3. ListOf(uids, Selected)'
  BY <1>1, <1>2, Zenon DEF UsersInv, ListOf, UidsOf, Selected, Blacklist
<1>4. Configured'
  <2>1. Configured
    BY Zenon DEF UsersInv
  <2> QED  BY <1>1, <2>1 DEF Configured
<1> QED  BY <1>2, <1>3, <1>4, Zenon DEF UsersInv

\* The gap before an excluded uid is added.
LEMMA ExcludesUid ==
  ASSUME FilesFormed, UsersInv, ExcludedUid
  PROVE  UsersInv'
<1> DEFINE u == uids[nth + 1]
           r == <<start, u - 1>>
<1>1. /\ phase = "users" /\ Blacklist /\ nth < Len(uids) /\ start' = u + 1 /\ nth' = nth + 1
      /\ opts' = opts /\ uids' = uids
      /\ IF start > u - 1 THEN UNCHANGED <<args, users, ranges>> ELSE Adds(r)
  BY DEF ExcludedUid
<1>2. phase \in {"users", "up"}
  BY <1>1
<1>3. Gathering /\ ListOf(uids, Selected)
  BY <1>1, <1>2, Zenon DEF UsersInv
<1>4. /\ Len(uids) \in Nat /\ uids \in [1 .. Len(uids) -> 1 .. Top] /\ Top \in Nat
      /\ \A a, b \in 1 .. Len(uids) : a < b => uids[a] <= uids[b]
  BY <1>3, ListIs
<1>5. /\ nth \in 0 .. Len(uids) /\ start = StartOf(TRUE, uids, nth) /\ Gathered(users, ranges, args)
      /\ \A x : Sent(users, x) \/ In(ranges, x) <=> Reached(TRUE, uids, nth, start, x)
  <2>1. Blacklist = TRUE
    BY <1>1 DEF Blacklist
  <2> QED  BY <1>3, <2>1, Zenon DEF Gathering
<1>6. nth \in Nat /\ nth + 1 \in 1 .. Len(uids) /\ nth + 1 \in 0 .. Len(uids) /\ u \in Int /\ nth + 1 # 0
  <2>1. Len(uids) \in Nat /\ nth \in 0 .. Len(uids) /\ nth < Len(uids)
    BY <1>1, <1>4, <1>5, Zenon
  <2> QED  BY <1>4, <2>1, NextUid, Zenon
<1>7. start \in Int
  <2>1. CASE nth = 0
    BY <1>5, <2>1 DEF StartOf
  <2>2. CASE nth # 0
    BY <1>4, <1>5, <2>2 DEF StartOf
  <2> QED  BY <2>1, <2>2
<1>8. \A x : Reached(TRUE, uids, nth + 1, u + 1, x) <=> Reached(TRUE, uids, nth, start, x) \/ x \in start .. u - 1
  BY <1>1, <1>4, <1>5, <1>6, GapBefore, Zenon
<1> HIDE DEF u
<1>9. /\ Gathered(users', ranges', args')
      /\ \A x : Sent(users', x) \/ In(ranges', x) <=> Sent(users, x) \/ In(ranges, x) \/ x \in start .. u - 1
  <2>1. CASE start > u - 1
    <3>1. users' = users /\ ranges' = ranges /\ args' = args
      BY <1>1, <2>1
    <3>2. \A x : x \notin start .. u - 1
      BY <1>6, <1>7, <2>1
    <3> QED  BY <1>5, <3>1, <3>2, Zenon
  <2>2. CASE ~(start > u - 1)
    <3>1. Adds(r)
      BY <1>1, <2>2
    <3>2. r \in Pairs /\ r[1] = start /\ r[2] = u - 1
      BY <1>6, <1>7 DEF Pairs
    <3> HIDE DEF r
    <3> QED  BY <1>5, <3>1, <3>2, AddsRange, Zenon
  <2> QED  BY <2>1, <2>2
<1>10. \A x : Sent(users', x) \/ In(ranges', x) <=> Reached(TRUE, uids, nth + 1, u + 1, x)
  BY <1>5, <1>8, <1>9, Zenon
<1>11. StartOf(TRUE, uids, nth + 1) = u + 1
  BY <1>6, Zenon DEF StartOf, u
<1>12. Blacklist' = TRUE
  BY <1>1 DEF Blacklist
<1>13. Gathering'
  BY <1>1, <1>6, <1>9, <1>10, <1>11, <1>12, Zenon DEF Gathering
<1> QED  BY <1>13, UidGoneThrough

\* An included uid is added.
LEMMA IncludesUid ==
  ASSUME FilesFormed, UsersInv, IncludedUid
  PROVE  UsersInv'
<1> DEFINE u == uids[nth + 1]
           r == <<u, u>>
<1>1. /\ phase = "users" /\ ~Blacklist /\ nth < Len(uids) /\ start' = start /\ nth' = nth + 1
      /\ opts' = opts /\ uids' = uids /\ Adds(r)
  BY DEF IncludedUid
<1>2. phase \in {"users", "up"}
  BY <1>1
<1>3. Gathering /\ ListOf(uids, Selected)
  BY <1>1, <1>2, Zenon DEF UsersInv
<1>4. /\ Len(uids) \in Nat /\ uids \in [1 .. Len(uids) -> 1 .. Top] /\ Top \in Nat
  BY <1>3, ListIs
<1>5. /\ nth \in 0 .. Len(uids) /\ start = 0 /\ Gathered(users, ranges, args)
      /\ \A x : Sent(users, x) \/ In(ranges, x) <=> Passed(uids, nth, x)
  BY <1>1, <1>3, Zenon DEF Gathering, StartOf, Reached
<1>6. nth \in Nat /\ nth + 1 \in 1 .. Len(uids) /\ nth + 1 \in 0 .. Len(uids) /\ u \in Int
  <2>1. Len(uids) \in Nat /\ nth \in 0 .. Len(uids) /\ nth < Len(uids)
    BY <1>1, <1>4, <1>5, Zenon
  <2> QED  BY <1>4, <2>1, NextUid, Zenon
<1>7. \A x : Passed(uids, nth + 1, x) <=> Passed(uids, nth, x) \/ u = x
  BY <1>6, PassedMore, Zenon
<1> HIDE DEF u
<1>8. r \in Pairs /\ r[1] = u /\ r[2] = u /\ \A x : x \in u .. u <=> u = x
  BY <1>6 DEF Pairs
<1> HIDE DEF r
<1>9. /\ Gathered(users', ranges', args')
      /\ \A x : Sent(users', x) \/ In(ranges', x) <=> Sent(users, x) \/ In(ranges, x) \/ x \in r[1] .. r[2]
  BY <1>1, <1>5, <1>8, AddsRange, Zenon
<1>10. \A x : Sent(users', x) \/ In(ranges', x) <=> Passed(uids, nth + 1, x)
  BY <1>5, <1>7, <1>8, <1>9, Zenon
<1>11. ~Blacklist'
  BY <1>1, Zenon DEF Blacklist
<1>12. Gathering'
  BY <1>1, <1>5, <1>6, <1>9, <1>10, <1>11, Zenon DEF Gathering, StartOf, Reached
<1> QED  BY <1>12, UidGoneThrough

\* The rest of the complement is added, and what was gathered is sent.
LEMMA SendsTheRest ==
  ASSUME FilesFormed, UsersInv, UsersEnd
  PROVE  UsersInv'
<1> DEFINE more == Blacklist /\ start < Top
           left == IF more THEN Append(ranges, <<start, Top>>) ELSE ranges
<1>1. /\ phase = "users" /\ phase' = "up" /\ nth = Len(uids)
      /\ users' = IF left = <<>> THEN users ELSE Append(users, left)
      /\ opts' = opts /\ host' = host /\ packages' = packages /\ uids' = uids /\ network' = network
  BY DEF UsersEnd
<1>2. /\ phase \in {"users", "up"} /\ phase' \in {"parse", "apply", "crashed", "refused", "users", "up"}
      /\ phase' \notin {"parse", "apply", "crashed"} /\ phase' \notin {"parse", "apply", "crashed", "refused"}
      /\ phase' # "users"
  BY <1>1
<1>3. Gathering /\ ListOf(uids, Selected) /\ Configured
  BY <1>1, <1>2, Zenon DEF UsersInv
<1>4. ListOf(uids, Selected)'
  BY <1>1, <1>3, Zenon DEF ListOf, UidsOf, Selected, Blacklist
<1>5. Configured'
  BY <1>1, <1>3 DEF Configured
<1>6. /\ Len(uids) \in Nat /\ uids \in [1 .. Len(uids) -> 1 .. Top] /\ Top \in Nat /\ Top # 0 /\ Batch \in Nat \ {0}
  BY <1>3, ListIs DEF FilesFormed
<1>7. /\ start = StartOf(Blacklist, uids, nth) /\ Gathered(users, ranges, args)
      /\ \A x : Sent(users, x) \/ In(ranges, x) <=> Reached(Blacklist, uids, nth, start, x)
  BY <1>3, Zenon DEF Gathering
<1>8. users \in Seq(Seq(Pairs)) /\ ranges \in Seq(Pairs) /\ Fit(users) /\ args \in Nat /\ Len(ranges) = args % Batch
  BY <1>7, Zenon DEF Gathered
<1>9. Len(ranges) \in 0 .. Batch - 1
  BY <1>6, <1>8, ModStep, Zenon
<1>10. start \in Nat /\ start =< Top + 1 /\ (Blacklist /\ start >= Top => nth # 0 /\ start = uids[nth] + 1)
  <2>1. CASE Blacklist /\ nth # 0
    <3>1. start = uids[nth] + 1 /\ nth \in 1 .. Len(uids)
      BY <1>1, <1>6, <1>7, <2>1 DEF StartOf
    <3>2. uids[nth] \in 1 .. Top
      BY <1>6, <3>1
    <3> QED  BY <1>6, <2>1, <3>1, <3>2
  <2>2. CASE ~(Blacklist /\ nth # 0)
    <3>1. start = 0
      BY <1>7, <2>2, Zenon DEF StartOf
    <3> QED  BY <1>6, <3>1
  <2> QED  BY <2>1, <2>2
<1>11. /\ left \in Seq(Pairs) /\ Len(left) \in 0 .. Batch
       /\ \A x : In(left, x) <=> In(ranges, x) \/ (more /\ x \in start .. Top)
  <2>1. CASE more
    <3> DEFINE r == <<start, Top>>
    <3>1. left = Append(ranges, r)
      BY <2>1, Zenon
    <3>2. r \in Pairs /\ r[1] = start /\ r[2] = Top
      BY <1>6, <1>10 DEF Pairs
    <3> HIDE DEF r, left, more
    <3>3. left \in Seq(Pairs) /\ Len(left) = Len(ranges) + 1
      BY <1>8, <3>1, <3>2, AppendIs
    <3>4. \A x : In(left, x) <=> In(ranges, x) \/ x \in start .. Top
      BY <1>8, <3>1, <3>2, InAppend, Zenon
    <3>5. Len(left) \in 0 .. Batch
      BY <1>6, <1>9, <3>3
    <3> QED  BY <2>1, <3>3, <3>4, <3>5, Zenon
  <2>2. CASE ~more
    <3>1. left = ranges
      BY <2>2, Zenon
    <3> HIDE DEF left, more
    <3>2. Len(ranges) \in 0 .. Batch
      BY <1>6, <1>9
    <3> QED  BY <1>8, <2>2, <3>1, <3>2, Zenon
  <2> QED  BY <2>1, <2>2
<1> HIDE DEF left
<1>12. Fit(users') /\ \A x : Sent(users', x) <=> Sent(users, x) \/ In(left, x)
  <2>1. CASE left = <<>>
    <3>1. users' = users
      BY <1>1, <2>1
    <3>2. \A i : i \notin DOMAIN <<>>
      OBVIOUS
    <3>3. \A x : ~In(left, x)
      BY <2>1, <3>2, Zenon DEF In
    <3> QED  BY <1>8, <3>1, <3>3, Zenon
  <2>2. CASE left # <<>>
    <3>1. users' = Append(users, left)
      BY <1>1, <2>2
    <3>2. Len(left) # 0
      BY <1>11, <2>2
    <3>3. Len(left) \in 1 .. Batch
      BY <1>6, <1>11, <3>2
    <3> QED  BY <1>8, <1>11, <3>1, <3>3, FitAppend, SentAppend, Zenon
  <2> QED  BY <2>1, <2>2
<1> HIDE DEF more
<1>13. \A x : Sent(users', x) <=> Reached(Blacklist, uids, nth, start, x) \/ (more /\ x \in start .. Top)
  BY <1>7, <1>11, <1>12, Zenon
<1>14. \A x : Passed(uids, nth, x) <=> x \in UidsOf(Selected)
  <2>1. DOMAIN uids = 1 .. nth
    BY <1>1, <1>6
  <2>2. \A x : x \in Range(uids) <=> Passed(uids, nth, x)
    BY <2>1, Zenon DEF Range, Passed
  <2> QED  BY <1>3, <2>2, Zenon DEF ListOf
<1>15. \A x : Sent(users', x) <=>
          x \in IF Blacklist THEN 0 .. Top \ (UidsOf(opts.excluded) \cup LeftOut) ELSE UidsOf(opts.included)
  <2>1. CASE Blacklist
    <3>1. Selected = opts.excluded
      BY <2>1, Zenon DEF Selected
    <3>2. \A x : Passed(uids, nth, x) => x \in Nat /\ x < start
      <4>1. nth \in Nat /\ nth =< Len(uids) /\ start = StartOf(TRUE, uids, nth)
            /\ \A a, b \in 1 .. Len(uids) : a < b => uids[a] <= uids[b]
        BY <1>1, <1>3, <1>6, <1>7, <2>1 DEF ListOf, StartOf
      <4> QED  BY <1>6, <4>1, PassedBelow, Zenon
    <3>3. \A x : x \in LeftOut <=> x = Top /\ Passed(uids, nth, Top - 1)
      BY <1>14, <3>1, Zenon DEF LeftOut
    <3>4. \A x : Sent(users', x) <=> (x \in 0 .. start - 1 /\ ~Passed(uids, nth, x)) \/ (more /\ x \in start .. Top)
      BY <1>13, <2>1, Zenon DEF Reached
    <3>5. ASSUME NEW x
          PROVE  Sent(users', x) <=>
                   x \in 0 .. Top /\ ~Passed(uids, nth, x) /\ ~(x = Top /\ Passed(uids, nth, Top - 1))
      <4>1. CASE start < Top
        <5>1. more
          BY <2>1, <4>1 DEF more
        <5>2. ~Passed(uids, nth, Top - 1)
          BY <1>6, <1>10, <3>2, <4>1
        <5>3. Passed(uids, nth, x) => x < start
          BY <3>2
        <5>4. x \in 0 .. Top <=> x \in 0 .. start - 1 \/ x \in start .. Top
          BY <1>6, <1>10, <4>1
        <5>5. x \in start .. Top => ~(x < start)
          BY <1>6, <1>10
        <5> QED  BY <3>4, <5>1, <5>2, <5>3, <5>4, <5>5, Zenon
      <4>2. CASE ~(start < Top)
        <5>1. ~more
          BY <4>2 DEF more
        <5>2. /\ nth \in 1 .. nth /\ start = uids[nth] + 1
              /\ uids[nth] \in 1 .. Top
          BY <1>1, <1>6, <1>10, <2>1, <4>2
        <5>3. Passed(uids, nth, uids[nth])
          BY <5>2, Zenon DEF Passed
        <5>4. CASE start = Top
          <6>1. uids[nth] = Top - 1 /\ (x \in 0 .. start - 1 <=> x \in 0 .. Top /\ x # Top)
            BY <1>6, <5>2, <5>4
          <6> QED  BY <3>4, <5>1, <5>3, <6>1, Zenon
        <5>5. CASE start = Top + 1
          <6>1. uids[nth] = Top /\ (x \in 0 .. start - 1 <=> x \in 0 .. Top)
            BY <1>6, <5>2, <5>5
          <6> QED  BY <3>4, <5>1, <5>3, <6>1, Zenon
        <5>6. start = Top \/ start = Top + 1
          BY <1>6, <1>10, <4>2
        <5> QED  BY <5>4, <5>5, <5>6, Zenon
      <4> QED  BY <4>1, <4>2, Zenon
    <3> QED  BY <1>14, <2>1, <3>1, <3>3, <3>5, Zenon
  <2>2. CASE ~Blacklist
    <3>1. Selected = opts.included /\ ~more
      BY <2>2, Zenon DEF Selected, more
    <3> QED  BY <1>13, <1>14, <2>2, <3>1, Zenon DEF Reached
  <2> QED  BY <2>1, <2>2
<1>16. \A x : x \in Covered' <=> Sent(users', x)
  BY CoveredIs, Zenon DEF Covered
<1>17. Covered' = IF Blacklist THEN 0 .. Top \ (UidsOf(opts.excluded) \cup LeftOut) ELSE UidsOf(opts.included)
  BY <1>15, <1>16, Zenon
<1>18. UsersAsAsked'
  BY <1>1, <1>17, Zenon DEF UsersAsAsked, LeftOut, UidsOf, Blacklist
<1> QED  BY <1>1, <1>2, <1>4, <1>5, <1>12, <1>18, Zenon DEF UsersInv

\* Nothing changes.
LEMMA UsersInvStutters ==
  ASSUME UsersInv, UNCHANGED ovars
  PROVE  UsersInv'
<1>1. /\ packages' = packages /\ host' = host /\ phase' = phase /\ opts' = opts /\ uids' = uids /\ nth' = nth
      /\ start' = start /\ ranges' = ranges /\ args' = args /\ users' = users /\ network' = network
  BY DEF ovars
<1>2. /\ Untouched' = Untouched /\ (ListOf(uids, Selected)' <=> ListOf(uids, Selected))
      /\ (Gathering' <=> Gathering)
  BY <1>1, Zenon DEF Untouched, ListOf, UidsOf, Selected, Blacklist, Gathering
<1>3. (UsersAsAsked' <=> UsersAsAsked) /\ (Fit(users)' <=> Fit(users))
  <2>1. Covered' = Covered /\ (\A ns : UidsOf(ns)' = UidsOf(ns)) /\ (Blacklist' <=> Blacklist)
    BY <1>1, Zenon DEF Covered, UidsOf, Blacklist
  <2> QED  BY <1>1, <2>1, Zenon DEF UsersAsAsked, LeftOut, Fit
<1>4. Configured => Configured'
  BY <1>1 DEF Configured
<1> QED  BY <1>1, <1>2, <1>3, <1>4, Zenon DEF UsersInv

\* Every step keeps the users as they are to be.
LEMMA UsersInvNext ==
  ASSUME FilesFormed, FileInv, UsersInv, [ONext]_ovars
  PROVE  UsersInv'
  BY ReadingSetsNothing, AppliesTheFile, ExcludesUid, IncludesUid, SendsTheRest, UsersInvStutters, Zenon DEF ONext

\* The commands fit while they are gathered and when all are sent, and so do the uids.
LEMMA UsersInvSuffices ==
  ASSUME FilesFormed, FileInv, UsersInv
  PROVE  UsersAsAsked /\ BatchesFit /\ UidsFit /\ SetsWhatIsAsked /\ MtuOfDefaultRoute
<1>1. UsersAsAsked
  <2>1. CASE phase = "up"
    BY <2>1, Zenon DEF UsersInv
  <2>2. CASE phase # "up"
    BY <2>2, Zenon DEF UsersAsAsked
  <2> QED  BY <2>1, <2>2
<1>2. Fit(users)
  <2>1. CASE phase = "up"
    BY <2>1, Zenon DEF UsersInv
  <2>2. CASE phase = "users"
    BY <2>2, Zenon DEF UsersInv, Gathering, Gathered
  <2>3. CASE phase \notin {"up", "users"}
    <3>1. phase \in {"parse", "apply", "crashed", "refused"}
      BY <2>3 DEF UsersInv
    <3>2. users = <<>>
      BY <3>1, Zenon DEF UsersInv, Untouched
    <3> QED  BY <3>2 DEF Fit
  <2> QED  BY <2>1, <2>2, <2>3
<1>3. BatchesFit
  BY <1>2, Zenon DEF Fit, BatchesFit
<1>4. UidsFit
  BY Zenon DEF UsersInv, UidsFit, ListOf
<1>5. host \in Hosts /\ Configured
  BY Zenon DEF FileInv, UsersInv
<1>6. MtuOfDefaultRoute
  BY <1>5, MtuIsDefault DEF Configured, MtuOfDefaultRoute
<1>7. SetsWhatIsAsked
  <2> SUFFICES ASSUME network # NULL
               PROVE  /\ Short => /\ network.addrs = set_addr(Flat(Asked("address")))
                                  /\ network.dns = set_dnses(Flat(Asked("dns")))
                      /\ Range(host.peers) \subseteq {"(none)"} \/ "v6" \in Range(host.peers) => ~network.drop6
    BY Zenon DEF SetsWhatIsAsked
  <2>1. phase # "parse"
    BY DEF UsersInv
  <2>2. Short => /\ network.addrs = set_addr(Flat(Asked("address")))
                 /\ network.dns = set_dnses(Flat(Asked("dns")))
    BY <1>5, <2>1, Zenon DEF Configured, FileInv, AllRead
  <2>3. Range(host.peers) \subseteq {"(none)"} => ~ShouldBlockIpv6(host)
    BY Zenon DEF ShouldBlockIpv6, Range
  <2>4. "v6" \in Range(host.peers) => ~ShouldBlockIpv6(host)
    BY Zenon DEF ShouldBlockIpv6, Range
  <2> QED  BY <1>5, <2>2, <2>3, <2>4, Zenon DEF Configured
<1> QED  BY <1>1, <1>3, <1>4, <1>6, <1>7, Zenon

\* Whatever the file, the applications and the host: wg-quick does what the file says.
THEOREM FileObeyed ==
  ASSUME FilesFormed
  PROVE  OSpec => []DoesWhatTheFileSays
<1>1. OInit => FileInv /\ UsersInv
  BY FileInvInit, UsersInvInit
<1>2. FileInv /\ UsersInv /\ [ONext]_ovars => (FileInv /\ UsersInv)'
  BY FileInvNext, UsersInvNext
<1>3. FileInv /\ UsersInv => DoesWhatTheFileSays
  BY FileInvSplits, UsersInvSuffices, Zenon DEF DoesWhatTheFileSays
<1> QED  BY <1>1, <1>2, <1>3, PTL DEF OSpec
=============================================================================

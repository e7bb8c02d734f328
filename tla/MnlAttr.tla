------------------------------ MODULE MnlAttr ------------------------------
(***************************************************************************)
(* The attribute layer of wg's netlink library, netlink.h: attributes and  *)
(* nests are put into a message in a buffer that still holds what was      *)
(* there before, and a received message is walked attribute by attribute.  *)
(*                                                                         *)
(* The buffer is kept by words of four bytes: every offset the code        *)
(* computes is a multiple of four.  A word is [len, type]; as an attribute *)
(* header it is nla_len and nla_type, as a payload its value is in len.    *)
(* Offsets and lengths are in bytes, as in the code.                       *)
(***************************************************************************)
EXTENDS Integers, Sequences

CONSTANTS
  BufLen,     (* mnl_ideal_socket_buffer_size()                            *)
  Buffers,    (* what a buffer may hold before a message is built in it, or
                 when a message has been received into it                  *)
  Attrs,      (* the attributes that may be put: [type, len, val]          *)
  Nest,       (* the type of attributes that hold attributes               *)
  Str,        (* the type of strings                                       *)
  NoNul,      (* the words of which no byte is zero                        *)
  TypeLen,    (* mnl_attr_data_type_len by type, 0 for any length          *)
  MaxOpen     (* nests that are open at once                               *)

Words == 0 .. (BufLen \div 4) - 1

VARIABLES
  phase,      (* "build", "parse" or "done"                                *)
  buf,
  nlmsg_len,
  open,       (* the nests that are open: their offset, and how many entries
                 of log were before them                                   *)
  log,        (* what the message holds: the attributes in order, with the
                 depth of their nest and what a reader should take from them *)
  built,      (* whether the message was built here                        *)
  frames,     (* the loops over attributes that are active, innermost last:
                 each with its offset and the end of its payload           *)
  visited,    (* what the callbacks saw                                    *)
  lastRead    (* the bytes the last callback touched: from, to; and whether
                 they are a string whose attribute does not terminate it   *)

vars == <<phase, buf, nlmsg_len, open, log, built, frames, visited, lastRead>>

MNL_ALIGN(len) == ((len + 3) \div 4) * 4

(* The netlink and the generic netlink header.                             *)
Headers == 20

Word(len, type) == [len |-> len, type |-> type]

At(pos) == buf[pos \div 4]

Entry(depth, type, val) == [depth |-> depth, type |-> type, val |-> val]

-----------------------------------------------------------------------------
(* A message is begun by __mnlg_msg_prepare, or is one the kernel sent.    *)
Init ==
  /\ buf \in Buffers
  /\ open = <<>> /\ log = <<>> /\ visited = <<>>
  /\ lastRead = [from |-> 0, to |-> 0, runsOn |-> FALSE]
  /\ \/ phase = "build" /\ built = TRUE /\ nlmsg_len = Headers /\ frames = <<>>
     \/ /\ phase = "parse" /\ built = FALSE
        /\ nlmsg_len \in Headers .. BufLen
        /\ frames = <<[pos |-> Headers, end |-> MNL_ALIGN(nlmsg_len)]>>

(* What a reader that knows the type takes from an attribute.              *)
OfItsLength(a) == a.len > 0 /\ TypeLen[a.type] \in {0, a.len}

(* mnl_attr_put at the tail: header, payload and padding.                  *)
mnl_attr_put(a) ==
  LET tail == MNL_ALIGN(nlmsg_len)
      size == 4 + MNL_ALIGN(a.len)
  IN  /\ buf' = [w \in Words |->
                   IF w = tail \div 4 THEN Word(4 + a.len, a.type)
                   ELSE IF w > tail \div 4 /\ w < (tail + size) \div 4 THEN Word(a.val, Nest)
                   ELSE buf[w]]
      /\ nlmsg_len' = nlmsg_len + size
      /\ log' = Append(log, Entry(Len(open), a.type, IF OfItsLength(a) THEN a.val ELSE 0))

(* The test of mnl_attr_put_check and of mnl_attr_nest_start_check.        *)
Fits(len) == nlmsg_len + 4 + MNL_ALIGN(len) =< BufLen

(* mnl_attr_put_check: an attribute that does not fit is not put.          *)
PutCheck ==
  /\ phase = "build"
  /\ \E a \in Attrs : Fits(a.len) /\ mnl_attr_put(a)
  /\ UNCHANGED <<phase, open, built, frames, visited, lastRead>>

(* mnl_attr_nest_start_check: only the type is written yet.                *)
NestStartCheck ==
  /\ phase = "build" /\ Len(open) < MaxOpen
  /\ Fits(0)
  /\ LET tail == MNL_ALIGN(nlmsg_len) IN
       /\ buf' = [buf EXCEPT ![tail \div 4] = Word(@.len, Nest)]
       /\ open' = Append(open, [start |-> tail, before |-> Len(log)])
  /\ nlmsg_len' = nlmsg_len + 4
  /\ log' = Append(log, Entry(Len(open), Nest, 0))
  /\ UNCHANGED <<phase, built, frames, visited, lastRead>>

Top == open[Len(open)]
Popped == SubSeq(open, 1, Len(open) - 1)

(* mnl_attr_nest_end: the length of the innermost nest is written.         *)
NestEnd ==
  /\ phase = "build" /\ open # <<>>
  /\ buf' = [buf EXCEPT ![Top.start \div 4] = Word(MNL_ALIGN(nlmsg_len) - Top.start, @.type)]
  /\ open' = Popped
  /\ UNCHANGED <<phase, nlmsg_len, log, built, frames, visited, lastRead>>

(* mnl_attr_nest_cancel: the innermost nest and what it holds are taken back. *)
NestCancel ==
  /\ phase = "build" /\ open # <<>>
  /\ nlmsg_len' = nlmsg_len - (MNL_ALIGN(nlmsg_len) - Top.start)
  /\ open' = Popped
  /\ log' = SubSeq(log, 1, Top.before)
  /\ UNCHANGED <<phase, buf, built, frames, visited, lastRead>>

(* The message is sent and, on the other side, mnl_attr_parse begins.      *)
Send ==
  /\ phase = "build" /\ open = <<>>
  /\ phase' = "parse"
  /\ frames' = <<[pos |-> Headers, end |-> MNL_ALIGN(nlmsg_len)]>>
  /\ UNCHANGED <<buf, nlmsg_len, open, log, built, visited, lastRead>>

-----------------------------------------------------------------------------
Frame == frames[Len(frames)]

(* mnl_attr_ok, the condition of the loops.                                *)
mnl_attr_ok(pos, len) == len >= 4 /\ At(pos).len >= 4 /\ At(pos).len =< len

(* mnl_attr_validate: an attribute of a fixed length has just that length,
   one of any length is not empty.                                         *)
mnl_attr_validate(type, len) == IF TypeLen[type] = 0 THEN len > 0 ELSE len = TypeLen[type]

(* What strcmp, strlen and strncpy read of mnl_attr_get_str: to the first byte
   that is zero, in whatever follows the attribute's header; a string without one
   before the end of the buffer is read beyond it.                         *)
StrEnd(pos) ==
  LET ends == {w \in Words : w >= pos \div 4 /\ buf[w] \notin NoNul}
  IN  IF ends = {} THEN BufLen + 4 ELSE 4 * (CHOOSE w \in ends : \A v \in ends : w =< v) + 4

(* What the callbacks saw, kept for as many attributes as the buffer holds. *)
Seen(e) == IF Len(visited) < BufLen \div 4 THEN Append(visited, e) ELSE visited

(* One turn of mnl_attr_for_each: the callback walks into a nest with
   mnl_attr_parse_nested, reads a string, whose length it does not look at, reads
   a value of the expected length, or leaves the attribute alone; the loop goes on
   behind it.                                                              *)
ParseAttr ==
  /\ phase = "parse" /\ frames # <<>>
  /\ mnl_attr_ok(Frame.pos, Frame.end - Frame.pos)
  /\ LET a == At(Frame.pos)
         outer == [frames EXCEPT ![Len(frames)].pos = @ + MNL_ALIGN(a.len)]
         valid == mnl_attr_validate(a.type, a.len - 4)
         size == IF TypeLen[a.type] = 0 THEN a.len - 4 ELSE TypeLen[a.type]
         to == IF a.type = Str THEN StrEnd(Frame.pos + 4)
               ELSE Frame.pos + 4 + IF valid THEN size ELSE 0
     IN  IF a.type = Nest
         THEN /\ frames' = Append(outer, [pos |-> Frame.pos + 4, end |-> Frame.pos + a.len])
              /\ visited' = Seen(Entry(Len(frames) - 1, Nest, 0))
              /\ lastRead' = [from |-> Frame.pos, to |-> Frame.pos + 4, runsOn |-> FALSE]
         ELSE /\ frames' = outer
              /\ visited' = Seen(Entry(Len(frames) - 1, a.type,
                                         IF valid THEN At(Frame.pos + 4).len ELSE 0))
              /\ lastRead' = [from |-> Frame.pos, to |-> to,
                              runsOn |-> a.type = Str /\ to > Frame.pos + MNL_ALIGN(a.len)]
  /\ UNCHANGED <<phase, buf, nlmsg_len, open, log, built>>

(* The end of a loop: its callback returns to the loop around it.          *)
LoopEnds ==
  /\ phase = "parse" /\ frames # <<>>
  /\ ~mnl_attr_ok(Frame.pos, Frame.end - Frame.pos)
  /\ frames' = SubSeq(frames, 1, Len(frames) - 1)
  /\ UNCHANGED <<phase, buf, nlmsg_len, open, log, built, visited, lastRead>>

ParseDone ==
  /\ phase = "parse" /\ frames = <<>>
  /\ phase' = "done"
  /\ UNCHANGED <<buf, nlmsg_len, open, log, built, frames, visited, lastRead>>

Done == phase = "done" /\ UNCHANGED vars

Write == PutCheck \/ NestStartCheck \/ NestEnd \/ NestCancel \/ Send
Parse == ParseAttr \/ LoopEnds \/ ParseDone

Next == Write \/ Parse \/ Done

Spec == Init /\ [][Next]_vars

(* A parse, once begun, runs on; a caller may stop building at any time.   *)
FairSpec == Spec /\ WF_vars(Parse)

-----------------------------------------------------------------------------

(* Neither a checked put nor the walk over a message, built here or received
   with any contents, touches a byte behind the buffer: the reads of a callback
   stay within the message.  Of strings this is shown for those that their
   attribute terminates, as the kernel does: the code relies on that, and reads on
   through one that is not.                                                *)
InsideBuffer ==
  /\ nlmsg_len =< BufLen
  /\ lastRead.runsOn \/ lastRead.to =< MNL_ALIGN(nlmsg_len)
  /\ \A i \in 1 .. Len(frames) : frames[i].end =< MNL_ALIGN(nlmsg_len)

(* What was put is what is read: whatever the buffer held before and whatever
   was cancelled, the callbacks see the attributes in order, each in its nest,
   with its value if it has the length of its type.                        *)
ReadsWhatWasPut == phase = "done" /\ built => visited = log
=============================================================================

---------------------------- MODULE PackedDevice ----------------------------
(***************************************************************************)
(* A device in one buffer, as the ioctls of OpenBSD and Windows take it:   *)
(* the interface, its peers and their allowed IPs follow each other, each  *)
(* structure at the end of the one before, as many as the counts say.      *)
(* A buffer maps the offsets at which structures were written to them.     *)
(***************************************************************************)
EXTENDS Integers, Sequences, SequencesExt

CONSTANTS IfaceLen, PeerLen, AipLen  (* sizes of the three structures *)

Empty == [x \in {} |-> 0]

Put(b, at, s) == [x \in DOMAIN b \cup {at} |-> IF x = at THEN s ELSE b[x]]

(* The end of what is at an offset. *)
PeerEnd(at, aips) == at + PeerLen + aips * AipLen

SizeOf(d) == FoldLeft(LAMBDA s, p : s + PeerLen + Len(p.aips) * AipLen, IfaceLen, d.peers)

(* The peer p and its allowed IPs, written from an offset on. *)
PutPeer(b, at, p) ==
  FoldLeft(LAMBDA acc, j : Put(acc, at + PeerLen + (j - 1) * AipLen, p.aips[j]),
           Put(b, at, [attrs |-> p.attrs, marks |-> p.marks, count |-> Len(p.aips)]),
           [j \in DOMAIN p.aips |-> j])

PeerOff(d, i) == FoldLeft(LAMBDA at, p : PeerEnd(at, Len(p.aips)), IfaceLen, SubSeq(d.peers, 1, i - 1))

(* What the kernel copies out. *)
Image(d) ==
  FoldLeft(LAMBDA b, i : PutPeer(b, PeerOff(d, i), d.peers[i]),
           Put(Empty, 0, [attrs |-> d.attrs, marks |-> d.marks, count |-> Len(d.peers)]),
           [i \in DOMAIN d.peers |-> i])

(* The allowed IPs of a peer that the counts lead to. *)
AipsAt(b, at) == [j \in 1 .. b[at].count |-> b[at + PeerLen + (j - 1) * AipLen]]

(* The device that the kernel finds in a buffer, walking as the counts say. *)
Found(b) ==
  LET Step(acc, i) == [at |-> PeerEnd(acc.at, b[acc.at].count),
                       peers |-> Append(acc.peers, [attrs |-> b[acc.at].attrs, marks |-> b[acc.at].marks,
                                                    aips |-> AipsAt(b, acc.at)])]
  IN  [attrs |-> b[0].attrs, marks |-> b[0].marks,
       peers |-> FoldLeft(Step, [at |-> IfaceLen, peers |-> <<>>], [i \in 1 .. b[0].count |-> i]).peers]
=============================================================================

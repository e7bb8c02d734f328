----------------------------- MODULE KeyCommands -----------------------------
(***************************************************************************)
(* The commands of wg that make keys, genkey and genpsk (genkey.c) and     *)
(* pubkey (pubkey.c), and wg_generate_preshared_key of the embeddable      *)
(* library, with the sources of randomness they try in turn: getentropy,   *)
(* getrandom, which may fill a part, and /dev/urandom, which may deliver   *)
(* the bytes in pieces or fail in between.                                 *)
(*                                                                         *)
(* A byte is "old" (whatever the stack held) or "random".  Standard input  *)
(* is a sequence of kinds of characters: of a key's text, blank (white     *)
(* space, or NUL, which is skipped as well) and anything else.             *)
(***************************************************************************)
EXTENDS Integers, Sequences

CONSTANTS
  KeyLen,       (* WG_KEY_LEN                                              *)
  TextLen,      (* WG_KEY_LEN_BASE64 - 1                                   *)
  Inputs        (* what standard input may hold                            *)

(* Lengths are numbers, and input is a sequence. *)
InputsRead ==
  KeyLen \in Nat /\ TextLen \in Nat /\ \A s \in Inputs : s \in Seq({"key", "blank", "other"})

VARIABLES
  cmd,          (* "genkey", "genpsk", "pubkey" or "library"               *)
  step,
  out,          (* the bytes of the key                                    *)
  i,            (* how many of them read() has filled                      *)
  fd,           (* whether /dev/urandom is open                            *)
  errno,
  stdin,        (* what is left of standard input                          *)
  input,        (* what it was                                             *)
  text,         (* what fread took                                         *)
  outcome       (* "none", "key", "error" or "abort"                       *)

kvars == <<cmd, step, out, i, fd, errno, stdin, input, text, outcome>>

Indices == 1 .. KeyLen
Old == [n \in Indices |-> "old"]
Random == [n \in Indices |-> "random"]

KInit ==
  /\ cmd \in {"genkey", "genpsk", "pubkey", "library"}
  /\ step = IF cmd = "pubkey" THEN "fread" ELSE "getentropy"
  /\ out = Old /\ i = 0 /\ fd = FALSE
  /\ errno \in {"0", "EOLD"}
  /\ input \in (IF cmd = "pubkey" THEN Inputs ELSE {<<>>}) /\ stdin = input
  /\ text = <<>> /\ outcome = "none"

Unread == UNCHANGED <<cmd, stdin, input, text>>

(* getentropy fills everything or nothing.                                 *)
GetEntropy ==
  /\ step = "getentropy"
  /\ \/ out' = Random /\ step' = "filled" /\ UNCHANGED errno
     \/ errno' = "ENOSYS" /\ step' = "getrandom" /\ UNCHANGED out
  /\ Unread /\ UNCHANGED <<i, fd, outcome>>

(* Mutant: any bytes will do.                                              *)
GetRandomSome ==
  /\ step = "getrandom"
  /\ \/ \E n \in Indices : /\ out' = [k \in Indices |-> IF k =< n THEN "random" ELSE out[k]]
                           /\ step' = "filled"
                           /\ UNCHANGED errno
     \/ errno' = "ENOSYS" /\ step' = "open" /\ UNCHANGED out
  /\ Unread /\ UNCHANGED <<i, fd, outcome>>

(* getrandom counts only when it filled all of the key.                    *)
GetRandom ==
  /\ step = "getrandom"
  /\ \/ \E n \in Indices : /\ out' = [k \in Indices |-> IF k =< n THEN "random" ELSE out[k]]
                           /\ step' = IF n = KeyLen THEN "filled" ELSE "open"
                           /\ UNCHANGED errno
     \/ errno' = "ENOSYS" /\ step' = "open" /\ UNCHANGED out
  /\ Unread /\ UNCHANGED <<i, fd, outcome>>

Fails == IF cmd = "library" THEN "abort" ELSE "error"

(* The loop of genkey.c starts with errno = 0.                             *)
Open ==
  /\ step = "open"
  /\ \/ /\ fd' = TRUE /\ step' = "read"
        /\ errno' = IF cmd = "library" THEN errno ELSE "0"
        /\ UNCHANGED outcome
     \/ fd' = FALSE /\ errno' = "EMFILE" /\ step' = "done" /\ outcome' = Fails
  /\ Unread /\ UNCHANGED <<out, i>>

(* read() gives one byte or more, which ends the loop when the key is full. *)
ReadSome ==
  /\ step = "read" /\ i < KeyLen
  /\ \E n \in 1 .. KeyLen - i :
       /\ out' = [k \in Indices |-> IF k \in i + 1 .. i + n THEN "random" ELSE out[k]]
       /\ i' = i + n
  /\ Unread /\ UNCHANGED <<step, fd, errno, outcome>>

(* read() fails, or gives nothing without an error: EIO.  The library's assertion
   ends the process.                                                       *)
ReadFails ==
  /\ step = "read" /\ i < KeyLen
  /\ errno' \in {"EINTR", IF errno = "0" THEN "EIO" ELSE errno}
  /\ IF cmd = "library" THEN step' = "done" /\ outcome' = "abort" /\ UNCHANGED fd
     ELSE step' = "done" /\ outcome' = "error" /\ fd' = FALSE
  /\ Unread /\ UNCHANGED <<out, i>>

(* The end of the loop: the file is closed.                                *)
ReadAll ==
  /\ step = "read" /\ i = KeyLen
  /\ fd' = FALSE /\ step' = "filled"
  /\ errno' = IF cmd = "library" THEN errno ELSE "0"
  /\ Unread /\ UNCHANGED <<out, i, outcome>>

(* The key is clamped by genkey, and printed.                              *)
Print_key ==
  /\ step = "filled"
  /\ step' = "done" /\ outcome' = "key"
  /\ Unread /\ UNCHANGED <<out, i, fd, errno>>

(* pubkey: fread wants the length of a key's text.                         *)
FRead ==
  /\ step = "fread"
  /\ IF Len(stdin) < TextLen
     THEN /\ errno' = "EINVAL" /\ outcome' = "error" /\ step' = "done"
          /\ UNCHANGED <<stdin, text>>
     ELSE /\ text' = SubSeq(stdin, 1, TextLen)
          /\ stdin' = SubSeq(stdin, TextLen + 1, Len(stdin))
          /\ step' = "trailing"
          /\ UNCHANGED <<errno, outcome>>
  /\ UNCHANGED <<cmd, input, out, i, fd>>

(* One getc: blanks are skipped, the end goes on, anything else is refused.  *)
Trailing ==
  /\ step = "trailing"
  /\ IF stdin = <<>> THEN step' = "decode" /\ UNCHANGED <<stdin, outcome>>
     ELSE IF Head(stdin) = "blank" THEN stdin' = Tail(stdin) /\ UNCHANGED <<step, outcome>>
     ELSE step' = "done" /\ outcome' = "error" /\ UNCHANGED stdin
  /\ UNCHANGED <<cmd, input, text, out, i, fd, errno>>

(* key_from_base64, which refuses what is not of a key's text.             *)
Decode ==
  /\ step = "decode"
  /\ outcome' = IF \A n \in 1 .. TextLen : text[n] = "key" THEN "key" ELSE "error"
  /\ step' = "done"
  /\ Unread /\ UNCHANGED <<out, i, fd, errno>>

Done == step = "done" /\ UNCHANGED kvars

KNext ==
  \/ GetEntropy \/ GetRandom \/ Open \/ ReadSome \/ ReadFails \/ ReadAll \/ Print_key
  \/ FRead \/ Trailing \/ Decode \/ Done

KSpec == KInit /\ [][KNext]_kvars /\ WF_kvars(KNext)

-----------------------------------------------------------------------------
(* A key that is printed or returned consists of random bytes only, however the
   sources failed and in whatever pieces they delivered.                   *)
KeysAreRandom == outcome = "key" /\ cmd # "pubkey" => out = Random

(* A failure of genkey has an errno for perror, and leaves no file open.   *)
FailuresAreExplained ==
  outcome = "error" /\ cmd \in {"genkey", "genpsk"} => errno \notin {"0", "EOLD"} /\ ~fd

(* A public key is printed only for an input that is one key and blanks, and for
   every such input.                                                       *)
OneKeyAndBlanks ==
  cmd = "pubkey" /\ step = "done" =>
    ((outcome = "key") <=>
       /\ Len(input) >= TextLen
       /\ \A n \in 1 .. Len(input) : input[n] = IF n =< TextLen THEN "key" ELSE "blank")

(* All of it: a key handed out is random in every byte, a failure has an errno and
   leaves no file open, and a public key is printed for exactly the inputs that
   are one key and blanks (get_random_bytes, wg_generate_preshared_key,
   pubkey_main).                                                           *)
OnlyKeysArePrinted == KeysAreRandom /\ FailuresAreExplained /\ OneKeyAndBlanks
=============================================================================

-------------------------- MODULE EndpointResolution --------------------------
(***************************************************************************)
(* parse_endpoint of config.c: the text of an endpoint is split into host  *)
(* and port, and the name is resolved again and again while the resolver   *)
(* fails for a reason that may pass, at most as often as the environment   *)
(* variable WG_ENDPOINT_RESOLUTION_RETRIES says, waiting longer each time. *)
(*                                                                         *)
(* The resolver (getaddrinfo) is external: it answers, fails for good or   *)
(* fails for now.  Delays are the code's microseconds.                     *)
(***************************************************************************)
EXTENDS Integers

CONSTANTS
  Environments, (* the environment variable: a number, "unset", "infinity", "bad" as [env, n] *)
  IntMax,       (* INT_MAX                                                  *)
  AttemptCap    (* where the count of attempts of an endless resolution stops *)

(* What the environment may hold.  The count of the attempts of a resolution that
   ends stays below the cap.                                                  *)
SettingsCounted ==
  /\ IntMax \in Nat /\ AttemptCap \in Nat /\ AttemptCap > 15
  /\ \A s \in Environments :
       /\ s.env \in {"number", "unset", "infinity", "bad"} /\ s.n \in Nat
       /\ s.n <= IntMax => s.n < AttemptCap

VARIABLES
  stage,     (* "begin", "try", "sleep", "resolved", "ok", "failed", "exit"  *)
  setting,   (* what the environment says                                    *)
  retries,   (* the code's counter; negative: without end                    *)
  timeout,   (* the next delay                                               *)
  attempts,  (* calls of getaddrinfo, up to AttemptCap                       *)
  why,       (* the last failure: "none", "text", "permanent", "transient", "family", "memory" *)
  heap       (* what is allocated: "mutable", "resolved"                     *)

evars == <<stage, setting, retries, timeout, attempts, why, heap>>

EInit ==
  /\ stage = "begin" /\ setting \in Environments
  /\ retries = 0 /\ timeout = 1000000 /\ attempts = 0 /\ why = "none" /\ heap = {}

parse_dns_retries ==
  CASE setting.env = "unset" -> 15
    [] setting.env = "infinity" -> -1
    [] OTHER -> setting.n

BadSetting == setting.env = "bad" \/ (setting.env = "number" /\ setting.n > IntMax)

(* The checks before the loop: memory for the copy, an empty text, a bracket
   without its mate, no port.  A setting that does not parse ends wg.         *)
Begin ==
  /\ stage = "begin"
  /\ \/ /\ BadSetting
        /\ stage' = "exit" /\ heap' = {"mutable"} /\ UNCHANGED <<retries, why>>
     \/ /\ ~BadSetting
        /\ retries' = parse_dns_retries
        /\ \/ stage' = "failed" /\ why' = "memory" /\ heap' = {}
           \/ stage' = "failed" /\ why' = "text" /\ heap' = {}
           \/ stage' = "try" /\ heap' = {"mutable"} /\ UNCHANGED why
  /\ UNCHANGED <<setting, timeout, attempts>>

Count == attempts' = IF attempts < AttemptCap THEN attempts + 1 ELSE attempts

Resolve ==
  /\ stage = "try" /\ Count
  /\ stage' = "resolved" /\ heap' = heap \cup {"resolved"}
  /\ UNCHANGED <<setting, retries, timeout, why>>

(* EAI_NONAME, EAI_FAIL and EAI_NODATA end the loop. *)
FailPermanently ==
  /\ stage = "try" /\ Count
  /\ stage' = "failed" /\ why' = "permanent" /\ heap' = heap \ {"mutable"}
  /\ UNCHANGED <<setting, retries, timeout>>

(* --retries in place of retries--. *)
FailForNowEarly ==
  /\ stage = "try" /\ Count /\ why' = "transient"
  /\ retries' = IF retries >= 0 THEN retries - 1 ELSE retries
  /\ IF retries >= 0 /\ retries' = 0
     THEN stage' = "failed" /\ heap' = heap \ {"mutable"}
     ELSE stage' = "sleep" /\ UNCHANGED heap
  /\ UNCHANGED <<setting, timeout>>

(* retries >= 0 && !retries--: at zero the loop ends, above zero one retry is
   used up, below zero nothing is counted.                                    *)
FailForNow ==
  /\ stage = "try" /\ Count /\ why' = "transient"
  /\ retries' = IF retries >= 0 THEN retries - 1 ELSE retries
  /\ IF retries = 0
     THEN stage' = "failed" /\ heap' = heap \ {"mutable"}
     ELSE stage' = "sleep" /\ UNCHANGED heap
  /\ UNCHANGED <<setting, timeout>>

(* usleep, and the step of the for loop. *)
Sleep ==
  /\ stage = "sleep"
  /\ stage' = "try"
  /\ timeout' = IF (timeout * 6) \div 5 > 20000000 THEN 20000000 ELSE (timeout * 6) \div 5
  /\ UNCHANGED <<setting, retries, attempts, why, heap>>

(* The address is taken if it is an IPv4 or IPv6 one; all is freed either way. *)
Take ==
  /\ stage = "resolved" /\ heap' = heap \ {"resolved", "mutable"}
  /\ \/ stage' = "ok" /\ UNCHANGED why
     \/ stage' = "failed" /\ why' = "family"
  /\ UNCHANGED <<setting, retries, timeout, attempts>>

ENext == Begin \/ Resolve \/ FailPermanently \/ FailForNow \/ Sleep \/ Take

(* The process runs on, and a call of the resolver returns. *)
ESpec == EInit /\ [][ENext]_evars /\ WF_evars(ENext)

-----------------------------------------------------------------------------
(* The setting is the number of retries, of all but the first attempt: wg gives
   up on passing failures after exactly one attempt more than that, and not
   at all when the setting is infinity (wg(8), WG_ENDPOINT_RESOLUTION_RETRIES;
   the condition retries >= 0 && !retries-- of parse_endpoint).              *)
RetriesAsOften ==
  /\ stage = "failed" /\ why = "transient" =>
       /\ setting.env # "infinity"
       /\ attempts = parse_dns_retries + 1
  /\ stage \in {"try", "sleep"} /\ setting.env # "infinity" /\ attempts > 0 =>
       attempts <= parse_dns_retries + 1

(* The copy of the text and the resolver's answer are freed on every way out of
   parse_endpoint.                                                           *)
FreesAll == stage \in {"ok", "failed"} => heap = {}
=============================================================================

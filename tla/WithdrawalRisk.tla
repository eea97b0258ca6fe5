---------------------------- MODULE WithdrawalRisk ----------------------------
(***************************************************************************)
(* The rules of security/risk.py: what RiskService finds in a withdrawal   *)
(* request, and what it decides.                                           *)
(***************************************************************************)
EXTENDS Integers

CONSTANTS Devices,
          NoDevice,              \* the caller names no device
          WarnLimit, BlockLimit, \* AmountLimitRule
          ReviewLimit            \* DeviceNoveltyRule

ASSUME RiskAssumption == NoDevice \notin Devices /\ {WarnLimit, BlockLimit, ReviewLimit} \subseteq Nat

(* Where a request comes from.  An address is blocked, trusted or other;   *)
(* without a list of trusted addresses none is "other".                    *)
Origin == [ip : {"none", "trusted", "other", "blocked"}, device : Devices \cup {NoDevice}]

Finding == [rule : {"amount_limit", "ip_reputation", "device_novelty"}, severity : {"review", "block"}]
Found(rule, severity) == {[rule |-> rule, severity |-> severity]}

AmountLimit(amount) ==
  CASE amount >= BlockLimit -> Found("amount_limit", "block")
    [] amount < BlockLimit /\ amount >= WarnLimit -> Found("amount_limit", "review")
    [] OTHER -> {}

IpReputation(ip) ==
  CASE ip = "blocked" -> Found("ip_reputation", "block")
    [] ip = "other" -> Found("ip_reputation", "review")
    [] OTHER -> {}

New(device, known) == device \in Devices \ known

DeviceNovelty(amount, device, known) ==
  IF New(device, known) /\ amount >= ReviewLimit THEN Found("device_novelty", "review") ELSE {}

(* _build_decision and RiskDecision                                        *)
Blocked(findings) == \E f \in findings : f.severity = "block"
RequiresReview(findings) == \E f \in findings : f.severity = "review"

(* Mutant: no rule is asked after one that blocks.                         *)
Findings_UntilBlocked(amount, from, known) ==
  LET first == AmountLimit(amount) \cup IpReputation(from.ip) IN
  IF Blocked(first) THEN first ELSE first \cup DeviceNovelty(amount, from.device, known)

(* evaluate_withdrawal: every rule is asked, also after one that blocks,   *)
(* and a new device is stored whatever is decided.                         *)
Findings(amount, from, known) ==
  AmountLimit(amount) \cup IpReputation(from.ip) \cup DeviceNovelty(amount, from.device, known)

Stored(from, known) == {d \in {from.device} : New(d, known)}
=============================================================================

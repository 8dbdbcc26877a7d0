---------------------------- MODULE AnomalyHandler ----------------------------
(***************************************************************************)
(* The log of anomalies (AnomalyLogger.cpp) and the application that looks   *)
(* through it for those a rule answers with a block (AnomalyHandler.cpp).    *)
(* Every component may add an anomaly between two calls of the application;  *)
(* the ground, and the block that ends an under-voltage, register, activate  *)
(* and inactivate rules.                                                    *)
(***************************************************************************)
EXTENDS Naturals, Sequences, FiniteSets

CONSTANTS AnomalyCode,      \* the anomalies [group, local] that components add
          AL_RECORD_MAX,    \* 100; its last record only tells that the log is full
          Rules,            \* the number of rules: ids are 0..Rules-1
          DefaultRules,     \* load_default_rules_: id -> rule, the active ones
          NewRules,         \* the rules [id, code, cond, threshold] the ground registers
          MaxAnomalies      \* bound of this model on the counter of the log

Id   == 0..(Rules - 1)

(* An element never registered is zeroed: no anomaly has its code. *)
AL_SUCCESS == "AL_SUCCESS"
NoRule     == [code |-> AL_SUCCESS, cond |-> "AH_SINGLE", threshold |-> 0]

Rule == [code : AnomalyCode, cond : {"AH_SINGLE", "AH_CONTINUOUS", "AH_CUMULATE"},
         threshold : Nat]

ASSUME RulesAssumption ==
    /\ AL_SUCCESS \notin AnomalyCode
    /\ AL_RECORD_MAX \in Nat \ {0, 1}
    /\ Rules \in Nat \ {0}
    /\ DOMAIN DefaultRules \subseteq Id
    /\ \A id \in DOMAIN DefaultRules : DefaultRules[id] \in Rule
    /\ \A r \in NewRules :
         r.id \in Id /\ [code |-> r.code, cond |-> r.cond, threshold |-> r.threshold] \in Rule
    /\ MaxAnomalies \in Nat

VARIABLES log,              \* the records below al_.header: [code, run_length]
          counter,          \* al_.counter
          pos, count,       \* ahi_.al_pointer
          rules,            \* the rules: id -> rule or NoRule
          active            \* the ids of the active ones

(* For the properties only. *)
VARIABLE fresh      \* the anomalies since the last look, each with its run so far

al    == <<log, counter>>
ahi   == <<pos, count, rules, active>>
vars  == <<al, ahi, fresh>>

header == Len(log)

IsFull == header = AL_RECORD_MAX - 1

Init ==
    /\ log = <<>> /\ counter = 0
    /\ pos = 0 /\ count = 0
    /\ rules = [id \in Id |-> IF id \in DOMAIN DefaultRules THEN DefaultRules[id] ELSE NoRule]
    /\ active = DOMAIN DefaultRules
    /\ fresh = {}

-------------------------------------------------------------------------------
(* AL_add_anomaly: an anomaly like the latest makes its run longer.  When the   *)
(* log is full only the counter tells of it.                                 *)
Again(code) == header > 0 /\ log[header].code = code

RunNow(code) == IF Again(code) THEN log[header].run_length + 1 ELSE 1

Record(code) ==
    log' = IF Again(code)
           THEN [log EXCEPT ![header].run_length = @ + 1]
           ELSE Append(log, [code |-> code, run_length |-> 1])

AL_add_anomaly(code) ==
    /\ counter < MaxAnomalies
    /\ counter' = counter + 1
    /\ IF IsFull
       THEN UNCHANGED <<log, fresh>>
       ELSE /\ Record(code)
            /\ fresh' = fresh \cup {[code |-> code, run_length |-> RunNow(code)]}
    /\ UNCHANGED ahi

-------------------------------------------------------------------------------
(* check_rules_: the first of the active rules that the record satisfies.  The  *)
(* remainder of a cumulated count goes to a copy of the element (line 126), so  *)
(* AH_CUMULATE too compares the threshold with the run of one record.         *)
Holds(rule, record) ==
    /\ rule.code = record.code
    /\ \/ rule.cond = "AH_SINGLE"
       \/ rule.cond = "AH_CONTINUOUS" /\ rule.threshold < record.run_length
       \/ rule.cond = "AH_CUMULATE" /\ rule.threshold <= record.run_length

First(ids) == CHOOSE id \in ids : \A other \in ids : id <= other

Satisfied(ids, record) == {id \in ids : Holds(rules[id], record)}

(* respond_to_anomaly_: the block of the rule is deployed and the rule rests. *)
AfterRecord(ids, record) ==
    IF Satisfied(ids, record) = {} THEN ids ELSE ids \ {First(Satisfied(ids, record))}

(* Mutant: the look begins at the record after pos. *)
ActiveAfterSkips ==
    LET upto[i \in pos..header] ==
          IF i <= pos + 1 THEN active ELSE AfterRecord(upto[i - 1], log[i])
    IN  upto[header]

(* The rules that are active after the records pos..header-1 (from 0). *)
ActiveAfter ==
    LET upto[i \in pos..header] ==
          IF i = pos THEN active ELSE AfterRecord(upto[i - 1], log[i])
    IN  upto[header]

(* Mutant: the next look begins after the latest record. *)
SyncAfterLatest == pos' = header /\ count' = counter

(* The latest record is looked at again with the next anomaly, which may make   *)
(* its run longer.                                                           *)
Sync == pos' = header - 1 /\ count' = counter

(* AH_clear_log_. *)
ClearLog ==
    /\ log' = <<>> /\ counter' = 0
    /\ pos' = 0 /\ count' = 0

AH_exec ==
    /\ count # counter
    /\ IF count < counter
       THEN active' = ActiveAfter /\ Sync /\ UNCHANGED al
       ELSE ClearLog /\ UNCHANGED active
    /\ fresh' = {}
    /\ UNCHANGED rules

-------------------------------------------------------------------------------
(* The commands. *)

(* add_rule_ leaves the rule inactive. *)
AH_register_rule(r) ==
    /\ rules' = [rules EXCEPT ![r.id] =
                   [code |-> r.code, cond |-> r.cond, threshold |-> r.threshold]]
    /\ active' = active \ {r.id}
    /\ UNCHANGED <<al, pos, count, fresh>>

AH_activate_rule(id) ==
    /\ active' = active \cup {id}
    /\ UNCHANGED <<al, pos, count, rules, fresh>>

AH_inactivate_rule(id) ==
    /\ active' = active \ {id}
    /\ UNCHANGED <<al, pos, count, rules, fresh>>

AH_clear_log ==
    /\ ClearLog
    /\ fresh' = {}
    /\ UNCHANGED <<rules, active>>

(* cmdExec, for the commands of the handler. *)
Command ==
    \/ \E r \in NewRules : AH_register_rule(r)
    \/ \E id \in Id : AH_activate_rule(id) \/ AH_inactivate_rule(id)
    \/ AH_clear_log

Next ==
    \/ \E code \in AnomalyCode : AL_add_anomaly(code)
    \/ AH_exec
    \/ Command

Spec == Init /\ [][Next]_vars

-------------------------------------------------------------------------------
(* The handler and the log agree about what was looked at: the handler is never *)
(* ahead of the log (the branch of line 111, which throws the log away), and    *)
(* whatever was added since - also to the run of a record already looked at -   *)
(* makes it look, at a record from pos on.  The log stays within its array.      *)
NothingOutOfSight ==
    /\ count <= counter /\ header < AL_RECORD_MAX
    /\ fresh # {} => count < counter
    /\ \A f \in fresh :
         \E i \in (pos + 1)..header :
            log[i].code = f.code /\ log[i].run_length >= f.run_length

OnlyRuleFor(id) ==
    \A other \in active \ {id} : rules[other].code # rules[id].code

(* The next look answers every anomaly that satisfies an active rule, and for   *)
(* each rule also one that came several times, between others.  (One record    *)
(* answers to one rule only, so of two for the same code one may go without.)  *)
EveryAnomalyAnswered ==
    [][AH_exec =>
         \A id \in active, f \in fresh :
            Holds(rules[id], f) /\ OnlyRuleFor(id) => id \notin active']_vars

===============================================================================

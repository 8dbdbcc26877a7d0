------------------------- MODULE AnomalyHandlerProofs --------------------------
(***************************************************************************)
(* No anomaly is out of the handler's sight, and none that a rule is for goes *)
(* unanswered: for every number and kind of anomalies and rules, every size of *)
(* the log, and every command that changes the rules or clears the log.       *)
(***************************************************************************)
EXTENDS AnomalyHandler, PacketListProofs

Entry == [code : AnomalyCode, run_length : Nat]

AnyRule == Rule \cup {NoRule}

Types ==
    /\ log \in Seq(Entry)
    /\ counter \in Nat /\ pos \in Nat /\ count \in Nat
    /\ rules \in [Id -> AnyRule]
    /\ active \subseteq Id
    /\ fresh \subseteq Entry

(* The next look begins at the latest record or before it, and there is a record  *)
(* as soon as an anomaly was counted, also when the log is full.               *)
PointerInLog ==
    /\ counter > 0 => header > 0
    /\ header = 0 => pos = 0
    /\ header > 0 => pos < header

IInv == Types /\ PointerInLog /\ NothingOutOfSight

(* What was added since the last look is at a record from the pointer on. *)
InSight(f, p, l) ==
    \E i \in (p + 1)..Len(l) : l[i].code = f.code /\ l[i].run_length >= f.run_length

(* AL_add_anomaly, when the log is not full. *)
LEMMA AddingKeepsSight ==
    ASSUME IInv, NEW code \in AnomalyCode, AL_add_anomaly(code), ~IsFull
    PROVE  /\ log' \in Seq(Entry) /\ fresh' \subseteq Entry
           /\ Len(log') \in {header, header + 1} /\ Len(log') > 0 /\ Len(log') < AL_RECORD_MAX
           /\ pos < Len(log')
           /\ \A f \in fresh' : InSight(f, pos, log')
<1> DEFINE new == [code |-> code, run_length |-> RunNow(code)]
<1>0. /\ log \in Seq(Entry) /\ header \in Nat /\ header < AL_RECORD_MAX - 1
      /\ AL_RECORD_MAX \in Nat /\ pos \in Nat
      /\ \A i \in 1..header : log[i] \in Entry /\ log[i].run_length \in Nat
  <2>1. log \in Seq(Entry) /\ header \in Nat /\ AL_RECORD_MAX \in Nat /\ pos \in Nat
    BY RulesAssumption DEF IInv, Types, header
  <2>2. header < AL_RECORD_MAX - 1
    BY <2>1, RulesAssumption DEF IInv, NothingOutOfSight, IsFull
  <2>3. \A i \in 1..header : log[i] \in Entry
    BY <2>1 DEF header
  <2> QED
    BY <2>1, <2>2, <2>3 DEF Entry
<1>1. fresh' = fresh \cup {new} /\ Record(code)
  BY DEF AL_add_anomaly
<1>2. \A f \in fresh : f \in Entry /\ InSight(f, pos, log)
  BY DEF IInv, Types, NothingOutOfSight, InSight, header
<1>3. CASE Again(code)
  <2> DEFINE n == header
  <2>1. n \in 1..header /\ n = Len(log) /\ log[n].code = code /\ log[n] \in Entry
    BY <1>0, <1>3 DEF Again, header
  <2>2. RunNow(code) = log[n].run_length + 1 /\ new \in Entry
    BY <1>0, <1>3, <2>1 DEF RunNow, Entry
  <2>3. log' = [log EXCEPT ![n] = [log[n] EXCEPT !.run_length = log[n].run_length + 1]]
    BY <1>1, <1>3 DEF Record
  <2>4. [log[n] EXCEPT !.run_length = log[n].run_length + 1] = new
    BY <2>1, <2>2 DEF Entry
  <2> HIDE DEF new, n
  <2>5. log' = [log EXCEPT ![n] = new]
    BY <2>3, <2>4
  <2>6. /\ log' \in Seq(Entry) /\ Len(log') = Len(log)
        /\ log'[n] = new
        /\ \A i \in 1..Len(log) : i # n => log'[i] = log[i]
    BY <1>0, <2>1, <2>2, <2>5
  <2>7. new.code = code /\ new.run_length = log[n].run_length + 1
    BY <2>2 DEF new
  <2>8. pos < header
    BY <2>1, <1>0 DEF IInv, PointerInLog
  <2>9. InSight(new, pos, log')
    <3>1. n \in (pos + 1)..Len(log')
      BY <1>0, <2>1, <2>6, <2>8 DEF header
    <3>2. new.run_length \in Nat
      BY <2>2 DEF Entry
    <3> QED
      BY <2>6, <3>1, <3>2 DEF InSight
  <2>10. ASSUME NEW f \in fresh
         PROVE  InSight(f, pos, log')
    <3>1. PICK i \in (pos + 1)..Len(log) :
            log[i].code = f.code /\ log[i].run_length >= f.run_length
      BY <1>2 DEF InSight
    <3>2. i \in 1..Len(log) /\ i \in (pos + 1)..Len(log')
      BY <1>0, <2>6, <3>1 DEF header
    <3>3. f.run_length \in Nat /\ log[i].run_length \in Nat
      BY <1>0, <1>2, <3>2 DEF Entry, header
    <3>4. log'[i].code = f.code /\ log'[i].run_length >= f.run_length
      BY <2>1, <2>6, <2>7, <3>1, <3>2, <3>3
    <3> QED
      BY <3>2, <3>4 DEF InSight
  <2> QED
    BY <1>0, <1>1, <1>2, <2>1, <2>2, <2>6, <2>8, <2>9, <2>10 DEF header
<1>4. CASE ~Again(code)
  <2>1. log' = Append(log, new) /\ new.code = code /\ new.run_length = 1 /\ new \in Entry
    BY <1>1, <1>4 DEF Record, RunNow, Entry
  <2> HIDE DEF new
  <2>2. /\ log' \in Seq(Entry) /\ Len(log') = Len(log) + 1
        /\ log'[Len(log) + 1] = new
        /\ \A i \in 1..Len(log) : log'[i] = log[i]
    BY <1>0, <2>1
  <2>3. pos <= header
    BY <1>0 DEF IInv, PointerInLog
  <2>4. InSight(new, pos, log')
    <3>1. Len(log) + 1 \in (pos + 1)..Len(log')
      BY <1>0, <2>2, <2>3 DEF header
    <3> QED
      BY <2>1, <2>2, <3>1 DEF InSight
  <2>5. ASSUME NEW f \in fresh
        PROVE  InSight(f, pos, log')
    <3>1. PICK i \in (pos + 1)..Len(log) :
            log[i].code = f.code /\ log[i].run_length >= f.run_length
      BY <1>2 DEF InSight
    <3>2. i \in 1..Len(log) /\ i \in (pos + 1)..Len(log')
      BY <1>0, <2>2, <3>1 DEF header
    <3> QED
      BY <2>2, <3>1, <3>2 DEF InSight
  <2> QED
    BY <1>0, <1>1, <1>2, <2>1, <2>2, <2>3, <2>4, <2>5 DEF header
<1> QED
  BY <1>3, <1>4

LEMMA AddKeepsIInv ==
    ASSUME IInv, NEW code \in AnomalyCode, AL_add_anomaly(code)
    PROVE  IInv'
<1>1. /\ counter' = counter + 1 /\ counter \in Nat
      /\ UNCHANGED <<pos, count, rules, active>>
  BY DEF AL_add_anomaly, IInv, Types, ahi
<1>2. CASE IsFull
  <2>1. UNCHANGED <<log, fresh>>
    BY <1>2 DEF AL_add_anomaly
  <2>2. header > 0 /\ header' = header
    BY <1>2, <2>1, RulesAssumption DEF IsFull, header
  <2>3. Types'
    BY <1>1, <2>1 DEF IInv, Types
  <2>4. PointerInLog'
    BY <1>1, <2>2 DEF IInv, PointerInLog
  <2>5. NothingOutOfSight'
    <3>1. count \in Nat /\ count <= counter
      BY DEF IInv, Types, NothingOutOfSight
    <3> QED
      BY <1>1, <2>1, <2>2, <3>1 DEF IInv, NothingOutOfSight
  <2> QED
    BY <2>3, <2>4, <2>5 DEF IInv
<1>3. CASE ~IsFull
  <2>1. /\ log' \in Seq(Entry) /\ fresh' \subseteq Entry
        /\ Len(log') \in {header, header + 1} /\ Len(log') > 0 /\ Len(log') < AL_RECORD_MAX
        /\ pos < Len(log')
        /\ \A f \in fresh' : InSight(f, pos, log')
    BY <1>3, AddingKeepsSight
  <2>2. Types'
    BY <1>1, <2>1 DEF IInv, Types
  <2>3. PointerInLog'
    BY <1>1, <2>1 DEF PointerInLog, header
  <2>4. NothingOutOfSight'
    <3>1. count \in Nat /\ count <= counter
      BY DEF IInv, Types, NothingOutOfSight
    <3>2. count' <= counter' /\ count' < counter' /\ header' < AL_RECORD_MAX
      BY <1>1, <2>1, <3>1 DEF header
    <3>3. \A f \in fresh' :
            \E i \in (pos' + 1)..header' :
              log'[i].code = f.code /\ log'[i].run_length >= f.run_length
      BY <1>1, <2>1 DEF InSight, header
    <3> QED
      BY <3>2, <3>3 DEF NothingOutOfSight
  <2> QED
    BY <2>2, <2>3, <2>4 DEF IInv
<1> QED
  BY <1>2, <1>3

-------------------------------------------------------------------------------
(* The rules that a look leaves active are the last of a sequence of sets, one for  *)
(* every record.                                                               *)
LEMMA LookRecordByRecord ==
    ASSUME IInv, pos <= header
    PROVE  LET n == header - pos IN
           \E f : /\ ActiveAfter = f[n]
                  /\ f[0] = active
                  /\ \A k \in 1..n : f[k] = AfterRecord(f[k - 1], log[pos + k])
<1> DEFINE n == header - pos
           State == SUBSET Id
           G == [ks \in (1..n) \X State |-> AfterRecord(ks[2], log[pos + ks[1]])]
<1>1. n \in Nat /\ pos \in Nat /\ header \in Nat /\ header = pos + n
  BY DEF IInv, Types, header
<1>2. \A k \in 1..n, s \in State : G[<<k, s>>] = AfterRecord(s, log[pos + k])
  OBVIOUS
<1>3. StaysIn(State, n, G)
  BY <1>2 DEF StaysIn, AfterRecord
<1>4. active \in State
  BY DEF IInv, Types
<1> HIDE DEF n, G, State
<1>5. PICK f \in [0..n -> State] : Iterates(f, active, n, G)
  BY <1>1, <1>3, <1>4, IterationExists
<1>6. \A k \in 0..n : f[k] = IF k = 0 THEN active ELSE AfterRecord(f[k - 1], log[pos + k])
  <2> SUFFICES ASSUME NEW k \in 0..n, k # 0
               PROVE  f[k] = AfterRecord(f[k - 1], log[pos + k])
    BY <1>5 DEF Iterates
  <2>1. k \in 1..n /\ k - 1 \in 0..n
    BY <1>1
  <2> QED
    BY <1>2, <1>5, <2>1 DEF Iterates
<1> DEFINE IsLook(g) == g = [i \in pos..header |->
                          IF i = pos THEN active ELSE AfterRecord(g[i - 1], log[i])]
           upto == CHOOSE g : IsLook(g)
           h == [i \in pos..header |-> f[i - pos]]
<1>7. IsLook(h)
  <2> SUFFICES ASSUME NEW i \in pos..header
               PROVE  f[i - pos] = IF i = pos THEN active ELSE AfterRecord(h[i - 1], log[i])
    OBVIOUS
  <2>1. i - pos \in 0..n /\ pos + (i - pos) = i /\ (i = pos <=> i - pos = 0)
    BY <1>1
  <2>2. CASE i = pos
    BY <1>6, <2>1, <2>2
  <2>3. CASE i # pos
    <3>1. i - 1 \in pos..header /\ (i - 1) - pos = (i - pos) - 1
      BY <1>1, <2>3
    <3>2. h[i - 1] = f[(i - pos) - 1]
      BY <3>1
    <3> HIDE DEF h
    <3> QED
      BY <1>6, <2>1, <2>3, <3>2
  <2> QED
    BY <2>2, <2>3
<1> HIDE DEF h
<1>8. IsLook(upto)
  BY <1>7
<1>9. ActiveAfter = upto[header]
  BY DEF ActiveAfter
<1> HIDE DEF upto
<1>10. \A i \in pos..header :
         upto[i] = IF i = pos THEN active ELSE AfterRecord(upto[i - 1], log[i])
  BY <1>8
<1> DEFINE e == [k \in 0..n |-> upto[pos + k]]
<1>11. \A k \in 0..n : pos + k \in pos..header /\ (pos + k = pos <=> k = 0)
  BY <1>1
<1>12. e[n] = upto[header] /\ e[0] = active
  BY <1>1, <1>10, <1>11
<1>13. ASSUME NEW k \in 1..n
       PROVE  e[k] = AfterRecord(e[k - 1], log[pos + k])
  <2>1. k \in 0..n /\ k - 1 \in 0..n /\ pos + (k - 1) = (pos + k) - 1 /\ k # 0
    BY <1>1
  <2>2. e[k] = upto[pos + k] /\ e[k - 1] = upto[(pos + k) - 1]
    BY <2>1
  <2> HIDE DEF e
  <2> QED
    BY <1>10, <1>11, <2>1, <2>2
<1> HIDE DEF e
<1> QED
  BY <1>9, <1>12, <1>13 DEF n

(* A record that satisfies an active rule which is the only one for its anomaly    *)
(* is answered by it.                                                         *)
LEMMA OnlyRuleAnswers ==
    ASSUME IInv, NEW id \in active, OnlyRuleFor(id), NEW ids \in SUBSET active,
           NEW record, Holds(rules[id], record)
    PROVE  id \notin AfterRecord(ids, record)
<1>1. CASE id \notin ids
  BY <1>1 DEF AfterRecord
<1>2. CASE id \in ids
  <2>1. Satisfied(ids, record) = {id}
    BY <1>2 DEF Satisfied, Holds, OnlyRuleFor
  <2>2. id \in Nat
    BY RulesAssumption DEF IInv, Types, Id
  <2>3. First({id}) = id
    BY <2>2 DEF First
  <2> QED
    BY <2>1, <2>3 DEF AfterRecord
<1> QED
  BY <1>1, <1>2

(* A rule that holds of a run holds of a longer one. *)
LEMMA HoldsOfLonger ==
    ASSUME NEW rule \in AnyRule, NEW r \in Entry, NEW longer \in Entry,
           longer.code = r.code, longer.run_length >= r.run_length, Holds(rule, r)
    PROVE  Holds(rule, longer)
<1>1. rule.threshold \in Nat /\ r.run_length \in Nat /\ longer.run_length \in Nat
  BY DEF AnyRule, Rule, NoRule, Entry
<1> QED
  BY <1>1 DEF Holds

LEMMA LookAnswers ==
    ASSUME IInv, AH_exec, NEW id \in active, NEW f \in fresh,
           Holds(rules[id], f), OnlyRuleFor(id)
    PROVE  id \notin active'
<1>1. count < counter
  BY DEF IInv, NothingOutOfSight
<1>2. active' = ActiveAfter
  BY <1>1 DEF AH_exec
<1>3. /\ pos \in Nat /\ header \in Nat /\ f \in Entry /\ log \in Seq(Entry)
      /\ rules[id] \in AnyRule
  BY DEF IInv, Types, header
<1>4. PICK i \in (pos + 1)..header :
        log[i].code = f.code /\ log[i].run_length >= f.run_length
  BY DEF IInv, NothingOutOfSight
<1>5. log[i] \in Entry /\ pos <= header /\ i - pos \in 1..(header - pos) /\ pos + (i - pos) = i
  <2>1. i \in 1..Len(log)
    BY <1>3, <1>4 DEF header
  <2> QED
    BY <1>3, <1>4, <2>1
<1>6. Holds(rules[id], log[i])
  BY <1>3, <1>4, <1>5, HoldsOfLonger
<1> DEFINE n == header - pos
           at == i - pos
<1>7. PICK upto : /\ ActiveAfter = upto[n]
                  /\ upto[0] = active
                  /\ \A k \in 1..n : upto[k] = AfterRecord(upto[k - 1], log[pos + k])
  BY <1>5, LookRecordByRecord
<1>8. n \in Nat /\ at \in 1..n /\ pos + at = i
  BY <1>3, <1>5
<1> HIDE DEF n, at
<1> DEFINE D == {k \in Nat : k <= n => /\ upto[k] \subseteq active
                                       /\ k >= at => id \notin upto[k]}
<1>9. 0 \in D
  BY <1>7, <1>8
<1>10. ASSUME NEW k \in Nat, k \in D
       PROVE  k + 1 \in D
  <2> SUFFICES ASSUME k + 1 <= n
               PROVE  upto[k + 1] \subseteq active /\ (k + 1 >= at => id \notin upto[k + 1])
    OBVIOUS
  <2>1. k + 1 \in 1..n /\ (k + 1) - 1 = k
    BY <1>8
  <2>2. /\ upto[k] \subseteq active /\ (k >= at => id \notin upto[k])
        /\ upto[k + 1] = AfterRecord(upto[k], log[pos + (k + 1)])
    BY <1>7, <1>8, <1>10, <2>1
  <2>3. upto[k + 1] \subseteq upto[k]
    BY <2>2 DEF AfterRecord
  <2>4. CASE k + 1 = at
    <3>1. upto[k + 1] = AfterRecord(upto[k], log[i])
      BY <1>8, <2>2, <2>4
    <3>2. id \notin upto[k + 1]
      BY <1>6, <2>2, <3>1, OnlyRuleAnswers
    <3> QED
      BY <2>2, <2>3, <3>2
  <2>5. CASE k + 1 # at
    <3>1. k + 1 >= at => k >= at
      BY <1>8, <2>5
    <3> QED
      BY <2>2, <2>3, <3>1
  <2> QED
    BY <2>4, <2>5
<1> HIDE DEF D
<1>11. n \in D
  BY <1>8, <1>9, <1>10, SetInduction
<1>12. n >= at /\ n <= n
  BY <1>8
<1> QED
  BY <1>2, <1>7, <1>11, <1>12 DEF D

-------------------------------------------------------------------------------
LEMMA StepKeepsIInv == ASSUME IInv, [Next]_vars PROVE IInv'
<1>0. /\ log \in Seq(Entry) /\ counter \in Nat /\ pos \in Nat /\ count \in Nat
      /\ rules \in [Id -> AnyRule] /\ active \subseteq Id /\ header \in Nat
      /\ AL_RECORD_MAX \in Nat \ {0, 1}
  BY RulesAssumption DEF IInv, Types, header
<1>1. ASSUME NEW code \in AnomalyCode, AL_add_anomaly(code)
      PROVE  IInv'
  BY <1>1, AddKeepsIInv
<1>2. ASSUME ClearLog, fresh' = {}, rules' \in [Id -> AnyRule], active' \subseteq Id
      PROVE  IInv'
  <2>1. log' = <<>> /\ counter' = 0 /\ pos' = 0 /\ count' = 0 /\ header' = 0
    BY <1>2 DEF ClearLog, header
  <2>2. Types'
    BY <1>2, <2>1 DEF Types
  <2>3. PointerInLog'
    BY <2>1 DEF PointerInLog
  <2>4. NothingOutOfSight'
    BY <1>0, <1>2, <2>1 DEF NothingOutOfSight
  <2> QED
    BY <2>2, <2>3, <2>4 DEF IInv
<1>3. CASE AH_exec
  <2>1. fresh' = {} /\ rules' = rules
    BY <1>3 DEF AH_exec
  <2>2. CASE count < counter
    <3>1. /\ pos' = header - 1 /\ count' = counter /\ UNCHANGED <<log, counter>>
          /\ active' = ActiveAfter
      BY <1>3, <2>2 DEF AH_exec, Sync, al
    <3>2. header > 0 /\ pos < header
      BY <1>0, <2>2 DEF IInv, PointerInLog
    <3>3. active' \subseteq Id
      <4> DEFINE n == header - pos
                 State == SUBSET Id
      <4>2. n \in Nat /\ pos <= header
        BY <1>0, <3>2
      <4>1. PICK f : /\ ActiveAfter = f[n]
                     /\ f[0] = active
                     /\ \A k \in 1..n : f[k] = AfterRecord(f[k - 1], log[pos + k])
        BY <4>2, LookRecordByRecord
      <4> HIDE DEF n
      <4>3. \A k \in 1..n : f[k - 1] \in State => f[k] \in State
        BY <4>1 DEF AfterRecord
      <4>4. f[0] \in State
        BY <1>0, <4>1
      <4> HIDE DEF State
      <4>5. f[n] \in State
        BY <4>2, <4>3, <4>4, IterationStays
      <4> QED
        BY <3>1, <4>1, <4>5 DEF State
    <3>4. header' = header
      BY <3>1 DEF header
    <3>5. Types'
      BY <1>0, <2>1, <3>1, <3>2, <3>3 DEF Types
    <3>6. PointerInLog'
      BY <1>0, <3>1, <3>2, <3>4 DEF PointerInLog
    <3>7. NothingOutOfSight'
      BY <1>0, <2>1, <3>1, <3>4 DEF IInv, NothingOutOfSight
    <3> QED
      BY <3>5, <3>6, <3>7 DEF IInv
  <2>3. CASE ~(count < counter)
    BY <1>0, <1>2, <1>3, <2>1, <2>3 DEF AH_exec
  <2> QED
    BY <2>2, <2>3
<1>4. ASSUME UNCHANGED <<log, counter, pos, count, fresh>>,
             rules' \in [Id -> AnyRule], active' \subseteq Id
      PROVE  IInv'
  <2>1. header' = header
    BY <1>4 DEF header
  <2>2. Types'
    BY <1>4 DEF IInv, Types
  <2>3. PointerInLog'
    BY <1>4, <2>1 DEF IInv, PointerInLog
  <2>4. NothingOutOfSight'
    BY <1>4, <2>1 DEF IInv, NothingOutOfSight
  <2> QED
    BY <2>2, <2>3, <2>4 DEF IInv
<1>5. ASSUME NEW r \in NewRules, AH_register_rule(r)
      PROVE  IInv'
  <2>1. [code |-> r.code, cond |-> r.cond, threshold |-> r.threshold] \in AnyRule
    BY RulesAssumption DEF AnyRule
  <2>2. rules' \in [Id -> AnyRule] /\ active' \subseteq Id
    BY <1>0, <1>5, <2>1 DEF AH_register_rule
  <2>3. UNCHANGED <<log, counter, pos, count, fresh>>
    BY <1>5 DEF AH_register_rule, al
  <2> QED
    BY <1>4, <2>2, <2>3
<1>6. ASSUME NEW id \in Id, AH_activate_rule(id)
      PROVE  IInv'
  BY <1>0, <1>4, <1>6 DEF AH_activate_rule, al
<1>7. ASSUME NEW id \in Id, AH_inactivate_rule(id)
      PROVE  IInv'
  BY <1>0, <1>4, <1>7 DEF AH_inactivate_rule, al
<1>8. CASE AH_clear_log
  BY <1>0, <1>2, <1>8 DEF AH_clear_log
<1>9. CASE UNCHANGED vars
  BY <1>0, <1>4, <1>9 DEF vars, al, ahi
<1> QED
  BY <1>1, <1>3, <1>5, <1>6, <1>7, <1>8, <1>9 DEF Next, Command

LEMMA InitGivesIInv == ASSUME Init PROVE IInv
<1>1. header = 0 /\ AL_RECORD_MAX \in Nat \ {0, 1}
  BY RulesAssumption DEF Init, header
<1>2. Types
  <2>1. rules \in [Id -> AnyRule]
    BY RulesAssumption DEF Init, AnyRule
  <2>2. active \subseteq Id
    BY RulesAssumption DEF Init
  <2> QED
    BY <2>1, <2>2 DEF Init, Types
<1>3. PointerInLog /\ NothingOutOfSight
  BY <1>1 DEF Init, PointerInLog, NothingOutOfSight
<1> QED
  BY <1>2, <1>3 DEF IInv

LEMMA Invariance == Spec => []IInv
<1> QED
  BY InitGivesIInv, StepKeepsIInv, PTL DEF Spec

(* The handler is never ahead of the log, whatever is added between two calls and  *)
(* however full the log is: every anomaly added since the last call makes it look,   *)
(* at a record that holds it.                                                   *)
THEOREM InSightAlways == Spec => []NothingOutOfSight
<1>1. IInv => NothingOutOfSight
  BY DEF IInv
<1> QED
  BY <1>1, Invariance, PTL

(* A call of the handler answers every anomaly that came since the last one, if it   *)
(* satisfies the only active rule for it: the rule rests after it.                *)
THEOREM AllAnswered == Spec => EveryAnomalyAnswered
<1>1. ASSUME IInv, [Next]_vars
      PROVE  [AH_exec => \A id \in active, f \in fresh :
                Holds(rules[id], f) /\ OnlyRuleFor(id) => id \notin active']_vars
  BY <1>1, LookAnswers
<1> QED
  BY <1>1, Invariance, PTL DEF Spec, EveryAnomalyAnswered
===============================================================================

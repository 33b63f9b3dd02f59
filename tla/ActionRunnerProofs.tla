------------------------- MODULE ActionRunnerProofs -------------------------
(***************************************************************************)
(* What executeActions does and returns, for every list of actions, every  *)
(* number of attempts and targets, and every way an attempt may end.       *)
(***************************************************************************)
EXTENDS ActionRunner, FiniteSetTheorems, FunctionTheorems, TLAPS

(* The action at hand: what has been tried and answered at each stage. *)
RunnerType ==
    /\ plan \in Plans /\ plan \in Seq(AllActions)
    /\ action \in 1..Len(plan)
    /\ attempt \in Nat /\ attempt >= 1 /\ attempt <= Current.attempts
    /\ stage \in {"start", "relaying", "decide", "done"}
    /\ tried \in [Actions -> Nat]
    /\ ended \in [Actions -> Ends \cup {"none"}]

AtHand ==
    /\ tried[action] = IF stage = "start" THEN attempt - 1 ELSE attempt
    /\ stage \in {"start", "relaying"} => ~ Succeeded(ended[action])
    /\ stage = "done" => action = Len(plan) \/ ~ Succeeded(ended[action])

Behind == \A k \in Actions : k < action =>
              /\ tried[k] <= plan[k].attempts
              /\ \/ Succeeded(ended[k])
                 \/ tried[k] = plan[k].attempts /\ plan[k].goOn
Ahead == \A k \in Actions : k > action => tried[k] = 0 /\ ended[k] = "none"

(* A target that answered makes the attempt a success, which is not retried. *)
Sent ==
    /\ stage = "start" => served = {}
    /\ stage = "relaying" =>
          /\ answers \in [sends -> {"none", "ok", "failed"}]
          /\ \A u \in served : \E t \in sends : t[2] = u /\ answers[t] = "ok"
    /\ stage = "decide" /\ served # {} => Succeeded(ended[action])

RunInv == RunnerType /\ AtHand /\ Behind /\ Ahead /\ Sent

(* Actions are numbered from 1, and each is attempted at least once. *)
LEMMA PlanType ==
    ASSUME RunnerType
    PROVE  /\ Actions = 1..Len(plan) /\ Len(plan) \in Nat
           /\ action \in Actions /\ action \in Nat
           /\ \A k \in Actions : /\ plan[k].attempts \in Nat \ {0}
                                 /\ k \in Nat
<1>1. Actions = 1..Len(plan) /\ Len(plan) \in Nat
  BY DEF RunnerType, Actions
<1>2. \A k \in Actions : plan[k] \in AllActions
  BY <1>1 DEF RunnerType
<1> QED  BY <1>1, <1>2, PlansAssumption DEF RunnerType

LEMMA InitRun == Init => RunInv
<1> SUFFICES ASSUME Init PROVE RunInv
  OBVIOUS
<1>1. /\ plan \in Plans /\ plan \in Seq(AllActions) /\ plan # <<>>
      /\ action = 1 /\ attempt = 1 /\ stage = "start" /\ served = {}
  BY PlansAssumption DEF Init
<1>2. 1 \in 1..Len(plan) /\ Actions = 1..Len(plan)
  BY <1>1 DEF Actions
<1>3. plan[1].attempts \in Nat \ {0}
  BY <1>1, <1>2, PlansAssumption DEF AllActions
<1>4. RunnerType
  BY <1>1, <1>2, <1>3 DEF Init, RunnerType, Current
<1>5. AtHand /\ Behind /\ Ahead /\ Sent
  BY <1>1, <1>2 DEF Init, AtHand, Behind, Ahead, Sent, Succeeded
<1> QED  BY <1>4, <1>5 DEF RunInv

(* An attempt that is over: the end it had is that of the action at hand. *)
LEMMA OverRun ==
    ASSUME RunInv, stage \in {"start", "relaying"}, NEW end \in Ends, Ended(end),
           UNCHANGED <<plan, action, attempt>>,
           IF stage = "start" THEN Attempted ELSE UNCHANGED tried,
           served' = served, served # {} => Succeeded(end)
    PROVE  RunInv'
<1> USE PlanType DEF RunInv
<1>1. /\ Actions' = Actions /\ Current' = Current /\ stage' = "decide"
      /\ ended'[action] = end
      /\ \A k \in Actions : k # action => ended'[k] = ended[k] /\ tried'[k] = tried[k]
      /\ tried'[action] = attempt
      /\ ended' \in [Actions -> Ends \cup {"none"}] /\ tried' \in [Actions -> Nat]
  BY DEF Ended, Attempted, RunnerType, Actions, Current, AtHand
<1>2. RunnerType'
  BY <1>1 DEF RunnerType
<1>3. AtHand'
  BY <1>1 DEF AtHand
<1>4. Behind' /\ Ahead'
  BY <1>1 DEF Behind, Ahead
<1>5. Sent'
  BY <1>1 DEF Sent
<1> QED  BY <1>2, <1>3, <1>4, <1>5

LEMMA ExecuteRun == ASSUME RunInv, Execute PROVE RunInv'
<1>1. PICK end \in EndsOf(Current.kind) : Ended(end)
  BY DEF Execute
<1>2. end \in Ends
  BY <1>1 DEF EndsOf, Ends
<1> QED  BY <1>1, <1>2, OverRun DEF Execute, relayVars, RunInv, Sent

LEMMA StartRelayRun == ASSUME RunInv, StartRelay PROVE RunInv'
<1>1. CASE Ended("hop limit") \/ Ended("no targets")
  BY <1>1, OverRun DEF StartRelay, RunInv, Sent, Ends, RelayEnds
<1>2. CASE stage' = "relaying" /\ UNCHANGED ended
  <2> USE PlanType DEF RunInv
  <2>1. /\ UNCHANGED <<plan, action, attempt, served, ended>> /\ stage = "start"
        /\ tried' = [tried EXCEPT ![action] = @ + 1]
    BY <1>2 DEF StartRelay, Attempted
  <2>2. Actions' = Actions /\ Current' = Current /\ served' = {}
    BY <2>1 DEF Actions, Current, Sent
  <2>3. /\ \A k \in Actions : k # action => tried'[k] = tried[k]
        /\ tried'[action] = attempt /\ tried' \in [Actions -> Nat]
    BY <2>1 DEF RunnerType, AtHand
  <2>4. answers' \in [sends' -> {"none", "ok", "failed"}]
    BY <1>2 DEF StartRelay, Ended
  <2>5. RunnerType' /\ AtHand'
    BY <1>2, <2>1, <2>2, <2>3 DEF RunnerType, AtHand
  <2>6. Behind' /\ Ahead' /\ Sent'
    BY <1>2, <2>1, <2>2, <2>3, <2>4 DEF Behind, Ahead, Sent
  <2> QED  BY <2>5, <2>6
<1> QED  BY <1>1, <1>2 DEF StartRelay

LEMMA AnswerRun == ASSUME RunInv, NEW t \in sends, Answer(t) PROVE RunInv'
<1>1. UNCHANGED <<plan, action, attempt, stage, tried, ended, sends>> /\ stage = "relaying"
  BY DEF Answer
<1>2. RunnerType' /\ AtHand' /\ Behind' /\ Ahead'
  BY <1>1 DEF RunInv, RunnerType, AtHand, Behind, Ahead, Actions, Current
<1>3. answers \in [sends -> {"none", "ok", "failed"}] /\ answers[t] = "none"
  BY <1>1 DEF RunInv, Sent, Answer
<1>4. PICK a \in {"ok", "failed"} :
         /\ answers' = [answers EXCEPT ![t] = a]
         /\ served' = IF a = "ok" THEN served \cup {t[2]} ELSE served
  BY DEF Answer
<1>5. ASSUME NEW u \in served' PROVE \E s \in sends : s[2] = u /\ answers'[s] = "ok"
  <2>1. CASE u \in served
    BY <1>1, <1>3, <1>4, <2>1 DEF RunInv, Sent
  <2>2. CASE u \notin served
    BY <1>3, <1>4, <1>5, <2>2
  <2> QED  BY <2>1, <2>2
<1>6. Sent'
  BY <1>1, <1>3, <1>4, <1>5 DEF Sent
<1> QED  BY <1>2, <1>6 DEF RunInv

LEMMA EndRelayRun == ASSUME RunInv, EndRelay PROVE RunInv'
<1> DEFINE end == IF \E t \in sends : answers[t] = "ok" THEN "some" ELSE "none"
<1>1. Ended(end) /\ end \in Ends
  BY DEF EndRelay, Ends, RelayEnds
<1>2. served # {} => Succeeded(end)
  BY DEF EndRelay, RunInv, Sent, Succeeded
<1> QED  BY <1>1, <1>2, OverRun DEF EndRelay, relayVars

LEMMA RetryRun == ASSUME RunInv, Retry PROVE RunInv'
<1> USE PlanType DEF RunInv
<1>1. /\ UNCHANGED <<plan, action, tried, ended, served>> /\ Actions' = Actions
      /\ Current' = Current /\ attempt' = attempt + 1 /\ attempt < Current.attempts
      /\ stage = "decide" /\ stage' = "start" /\ ~ Succeeded(ended[action])
  BY DEF Retry, MayRetry, relayVars, Actions, Current
<1>2. RunnerType'
  BY <1>1 DEF RunnerType, Current
<1>3. AtHand' /\ Behind' /\ Ahead' /\ Sent'
  BY <1>1 DEF AtHand, Behind, Ahead, Sent, RunnerType
<1> QED  BY <1>2, <1>3

LEMMA SettleRun == ASSUME RunInv, Settle PROVE RunInv'
<1> USE PlanType DEF RunInv
<1>1. /\ UNCHANGED <<plan, tried, ended>> /\ Actions' = Actions /\ served' = {}
      /\ stage = "decide" /\ tried[action] = attempt
      /\ Succeeded(ended[action]) \/ attempt = Current.attempts
  BY DEF Settle, MayRetry, Actions, RunnerType, AtHand, Current
<1>2. CASE MovesOn /\ action < Len(plan)
  <2>1. action' = action + 1 /\ attempt' = 1 /\ stage' = "start" /\ action' \in Actions
    BY <1>2 DEF Settle
  <2>2. RunnerType'
    BY <1>1, <2>1 DEF RunnerType, Current
  <2>3. AtHand' /\ Sent'
    <3>1. tried[action + 1] = 0 /\ ended[action + 1] = "none"
      BY <2>1 DEF Ahead
    <3>2. tried'[action'] = 0 /\ ended'[action'] = "none"
      BY <1>1, <2>1, <3>1
    <3>3. ~ Succeeded(ended'[action'])
      BY <3>2 DEF Succeeded
    <3>4. tried'[action'] = attempt' - 1
      BY <2>1, <3>2
    <3>5. AtHand'
      BY <2>1, <3>3, <3>4 DEF AtHand
    <3> QED  BY <1>1, <2>1, <3>5 DEF Sent
  <2>4. Behind' /\ Ahead'
    BY <1>1, <1>2, <2>1 DEF Behind, Ahead, MovesOn, Current, RunnerType
  <2> QED  BY <2>2, <2>3, <2>4
<1>3. CASE ~ (MovesOn /\ action < Len(plan))
  <2>1. stage' = "done" /\ UNCHANGED <<action, attempt>>
    BY <1>3 DEF Settle
  <2>2. action = Len(plan) \/ ~ Succeeded(ended[action])
    BY <1>3 DEF MovesOn, RunnerType
  <2> QED  BY <1>1, <2>1, <2>2 DEF RunnerType, AtHand, Behind, Ahead, Sent, Current
<1> QED  BY <1>2, <1>3

(* RunInv is kept by every step of the runner. *)
LEMMA NextRun == RunInv /\ [Next]_vars => RunInv'
<1>1. ASSUME RunInv, UNCHANGED vars PROVE RunInv'
  BY <1>1 DEF vars, RunInv, RunnerType, AtHand, Behind, Ahead, Sent, Actions, Current
<1> QED  BY <1>1, ExecuteRun, StartRelayRun, AnswerRun, EndRelayRun, RetryRun, SettleRun DEF Next

-----------------------------------------------------------------------------
(* The runner leaves an action only after a success or all its attempts. *)
THEOREM Ordered == Spec => []OneByOne
<1>1. ASSUME RunInv PROVE OneByOne
  <2> USE PlanType DEF RunInv
  <2>1. tried[action] <= plan[action].attempts
    BY <1>1 DEF RunnerType, AtHand, Current
  <2> QED  BY <1>1, <2>1 DEF Behind, Ahead, OneByOne
<1> QED  BY InitRun, NextRun, <1>1, PTL DEF Spec

(* Nothing that succeeded is attempted again, and no target that answered  *)
(* is sent to by a retry.                                                  *)
THEOREM SucceedsOnce == Spec => NeverRedone
<1>1. ASSUME RunInv, [Next]_vars
      PROVE  /\ \A k \in Actions : tried'[k] # tried[k] => ~ Succeeded(ended[k])
             /\ stage' = "relaying" /\ stage = "start" => \A t \in sends' : t[2] \notin served
  <2>1. stage = "start" => served = {}
    BY <1>1 DEF RunInv, Sent
  <2>2. ASSUME NEW k \in Actions, tried'[k] # tried[k] PROVE ~ Succeeded(ended[k])
    <3>1. Attempted /\ stage = "start"
      BY <1>1, <2>2 DEF Next, vars, Execute, StartRelay, Answer, EndRelay, Retry, Settle
    <3>2. k = action
      BY <1>1, <2>2, <3>1 DEF Attempted, RunInv, RunnerType
    <3> QED  BY <1>1, <3>1, <3>2 DEF RunInv, AtHand
  <2> QED  BY <2>1, <2>2
<1> QED  BY InitRun, NextRun, <1>1, PTL DEF Spec, NeverRedone

-----------------------------------------------------------------------------
(***************************************************************************)
(* The result.  What is behind has been counted, and so has the action at  *)
(* hand once the rule is over; the last failure is the last of those that  *)
(* failed.                                                                 *)
(***************************************************************************)
Past == {k \in Actions : k < action \/ (k = action /\ stage = "done")}
Counted ==
    /\ completed = Cardinality(Past \cap Done)
    /\ lastFailed \in Past \cup {0}
    /\ lastFailed = 0 => Past \subseteq Done
    /\ lastFailed # 0 =>
          /\ ~ Succeeded(ended[lastFailed])
          /\ \A k \in Past : k > lastFailed => k \in Done

(* Settle counts the action at hand and no other. *)
LEMMA SettleCounts == ASSUME RunInv, Counted, Settle PROVE Counted'
<1>1. /\ UNCHANGED <<plan, ended>> /\ Actions' = Actions /\ Done' = Done
      /\ stage = "decide" /\ action \in Actions /\ action \in Nat
      /\ Actions = 1..Len(plan) /\ Len(plan) \in Nat
  BY PlanType DEF Settle, RunInv, Actions, Done
<1>2. Past' = Past \cup {action} /\ action \notin Past
  <2>1. CASE MovesOn /\ action < Len(plan)
    <3>1. action' = action + 1 /\ stage' = "start"
      BY <2>1 DEF Settle
    <3> QED  BY <1>1, <3>1 DEF Past
  <2>2. CASE ~ (MovesOn /\ action < Len(plan))
    <3>1. action' = action /\ stage' = "done"
      BY <2>2 DEF Settle
    <3> QED  BY <1>1, <3>1 DEF Past
  <2> QED  BY <2>1, <2>2
<1>3. \A k \in Past : k \in Nat /\ k < action /\ k # 0
  BY <1>1 DEF Past
<1>4. CASE Succeeded(ended[action])
  <2>1. completed' = completed + 1 /\ lastFailed' = lastFailed
    BY <1>4 DEF Settle, Tally
  <2>2. Past' \cap Done' = (Past \cap Done) \cup {action} /\ action \notin Past \cap Done
    BY <1>1, <1>2, <1>4 DEF Done
  <2>3. IsFiniteSet(Past \cap Done)
    <3>1. IsFiniteSet(1..Len(plan))
      BY <1>1, FS_Interval
    <3> QED  BY <1>1, <3>1, FS_Subset DEF Past
  <2>4. completed' = Cardinality(Past' \cap Done')
    BY <2>1, <2>2, <2>3, FS_AddElement DEF Counted
  <2>5. action \in Done'
    BY <1>1, <1>4 DEF Done
  <2>6. lastFailed' # 0 => ~ Succeeded(ended'[lastFailed'])
    BY <1>1, <2>1 DEF Counted
  <2> QED  BY <1>1, <1>2, <2>1, <2>4, <2>5, <2>6 DEF Counted
<1>5. CASE ~ Succeeded(ended[action])
  <2>1. completed' = completed /\ lastFailed' = action
    BY <1>5 DEF Settle, Tally
  <2>2. Past' \cap Done' = Past \cap Done
    BY <1>1, <1>2, <1>5 DEF Done
  <2>3. action # 0 /\ action \in Past' /\ ~ Succeeded(ended'[action])
    BY <1>1, <1>2, <1>5
  <2>4. \A k \in Past' : ~ (k > action)
    BY <1>1, <1>2, <1>3
  <2>5. completed' = Cardinality(Past' \cap Done')
    BY <2>1, <2>2 DEF Counted
  <2> QED  BY <2>1, <2>3, <2>4, <2>5 DEF Counted
<1> QED  BY <1>4, <1>5

(* The other steps settle nothing; an attempt ends only the action at hand. *)
LEMMA OthersCount ==
    ASSUME RunInv, Counted, Execute \/ StartRelay \/ (\E t \in sends : Answer(t)) \/ EndRelay
                            \/ Retry \/ UNCHANGED vars
    PROVE  Counted'
<1>1. /\ UNCHANGED <<plan, action, completed, lastFailed>> /\ Actions' = Actions
      /\ (stage = "done") = (stage' = "done")
  BY DEF Execute, StartRelay, Answer, EndRelay, Retry, Ended, vars, Actions
<1>2. Past' = Past
  BY <1>1 DEF Past
<1>3. \A k \in Past : ended'[k] = ended[k]
  <2> SUFFICES ASSUME NEW k \in Past PROVE ended'[k] = ended[k]
    OBVIOUS
  <2>1. k \in Actions /\ (k = action => stage = "done")
    BY PlanType DEF Past, RunInv
  <2>2. ended \in [Actions -> Ends \cup {"none"}]
    BY DEF RunInv, RunnerType
  <2>3. CASE Execute
    BY <2>1, <2>2, <2>3 DEF Execute, Ended
  <2>4. CASE StartRelay
    BY <2>1, <2>2, <2>4 DEF StartRelay, Ended
  <2>5. CASE EndRelay
    BY <2>1, <2>2, <2>5 DEF EndRelay, Ended
  <2>6. CASE (\E t \in sends : Answer(t)) \/ Retry \/ UNCHANGED vars
    BY <2>6 DEF Answer, Retry, vars
  <2> QED  BY <2>3, <2>4, <2>5, <2>6
<1>4. Past' \cap Done' = Past \cap Done
  BY <1>1, <1>2, <1>3 DEF Done, Past
<1> QED  BY <1>1, <1>2, <1>3, <1>4 DEF Counted

(* What executeActions returns is what happened. *)
THEOREM Truthful == Spec => []ResultTruthful
<1>1. Init => Counted
  <2> SUFFICES ASSUME Init PROVE Counted
    OBVIOUS
  <2>1. Past = {} /\ completed = 0 /\ lastFailed = 0
    BY InitRun, PlanType DEF Init, Past, RunInv
  <2> QED  BY <2>1, FS_EmptySet DEF Counted
<1>2. RunInv /\ Counted /\ [Next]_vars => Counted'
  BY SettleCounts, OthersCount DEF Next
<1>3. ASSUME RunInv, Counted PROVE ResultTruthful
  <2> SUFFICES ASSUME stage = "done"
               PROVE  /\ completed = Cardinality(Done)
                      /\ lastFailed = 0 <=> Done = Actions
                      /\ lastFailed # 0 =>
                            /\ ~ Succeeded(ended[lastFailed])
                            /\ \A k \in Actions : k > lastFailed /\ tried[k] > 0 => k \in Done
    BY DEF ResultTruthful
  <2> USE PlanType DEF RunInv
  <2>1. \A k \in Actions : k \in Past \/ (k > action /\ tried[k] = 0 /\ ended[k] = "none")
    BY <1>3 DEF Past, Ahead
  <2>2. Done \subseteq Past /\ Past \subseteq Actions /\ Done \subseteq Actions
    BY <1>3, <2>1 DEF Done, Past, Succeeded
  <2>3. Past \cap Done = Done
    BY <2>2
  <2>4. lastFailed # 0 => lastFailed \in Actions /\ lastFailed \notin Done
    BY <1>3, <2>2 DEF Counted, Done
  <2>5. lastFailed = 0 => Done = Actions
    <3>1. SUFFICES ASSUME lastFailed = 0 PROVE Actions \subseteq Done
      BY <2>2
    <3>2. action \in Done /\ action = Len(plan)
      BY <1>3, <3>1 DEF Counted, Past, AtHand, Done
    <3>3. Past = Actions
      BY <1>3, <3>2 DEF Past
    <3> QED  BY <1>3, <3>1, <3>3 DEF Counted
  <2>6. lastFailed # 0 => \A k \in Actions : k > lastFailed /\ tried[k] > 0 => k \in Done
    BY <1>3, <2>1 DEF Counted
  <2>7. Done = Actions => lastFailed = 0
    BY <2>4
  <2> QED  BY <1>3, <2>3, <2>5, <2>6, <2>7 DEF Counted
<1> QED  BY InitRun, NextRun, <1>1, <1>2, <1>3, PTL DEF Spec

-----------------------------------------------------------------------------
(***************************************************************************)
(* The waits.  What is known of the powers of two comes from counting the  *)
(* subsets of 1 .. n, of which there are 2^n (FS_SUBSET): those with n + 1 *)
(* are those without it once more.                                         *)
(***************************************************************************)
LEMMA Subsets ==
    ASSUME NEW n \in Nat
    PROVE  IsFiniteSet(SUBSET (1 .. n)) /\ Cardinality(SUBSET (1 .. n)) = 2^n
<1>1. IsFiniteSet(1 .. n) /\ Cardinality(1 .. n) = n
  BY FS_Interval
<1> QED  BY <1>1, FS_SUBSET

(* Powers of two count the subsets of 1..n, which makes them positive, *)
LEMMA PowerPositive == ASSUME NEW n \in Nat PROVE 2^n \in Nat \ {0}
<1>1. IsFiniteSet(SUBSET (1 .. n)) /\ Cardinality(SUBSET (1 .. n)) = 2^n
  BY Subsets
<1>2. {} \in SUBSET (1 .. n)
  OBVIOUS
<1> QED  BY <1>1, <1>2, FS_CardinalityType, FS_EmptySet

(* growing with n, as 1..m is a subset of 1..n, *)
LEMMA PowerGrows ==
    ASSUME NEW m \in Nat, NEW n \in Nat, m <= n
    PROVE  2^m <= 2^n
<1>1. SUBSET (1 .. m) \in SUBSET SUBSET (1 .. n)
  OBVIOUS
<1>2. /\ IsFiniteSet(SUBSET (1 .. n)) /\ Cardinality(SUBSET (1 .. n)) = 2^n
      /\ Cardinality(SUBSET (1 .. m)) = 2^m
  BY Subsets
<1>3. Cardinality(SUBSET (1 .. m)) <= Cardinality(SUBSET (1 .. n))
  BY <1>1, <1>2, FS_Subset
<1> QED  BY <1>2, <1>3

(* and twice as many for n + 1: each subset with n + 1 and without it. *)
LEMMA PowerDoubles == ASSUME NEW n \in Nat PROVE 2^(n + 1) = 2 * 2^n
<1> DEFINE Old == SUBSET (1 .. n)
           New == {s \in SUBSET (1 .. n + 1) : n + 1 \in s}
           f == [s \in Old |-> s \cup {n + 1}]
<1>1. IsFiniteSet(Old) /\ Cardinality(Old) = 2^n
  BY Subsets
<1>2. Cardinality(SUBSET (1 .. n + 1)) = 2^(n + 1)
  BY Subsets
<1>3. SUBSET (1 .. n + 1) = Old \cup New /\ Old \cap New = {}
  OBVIOUS
<1>4. f \in Bijection(Old, New)
  <2>1. f \in [Old -> New]
    OBVIOUS
  <2>2. ASSUME NEW s \in Old, NEW t \in Old, f[s] = f[t] PROVE s = t
    BY <2>2
  <2>3. ASSUME NEW t \in New PROVE \E s \in Old : f[s] = t
    <3>1. t \ {n + 1} \in Old /\ (t \ {n + 1}) \cup {n + 1} = t
      OBVIOUS
    <3> QED  BY <3>1
  <2> QED  BY <2>1, <2>2, <2>3, Fun_IsBij
<1> HIDE DEF f
<1>5. ExistsBijection(Old, New)
  BY <1>4, Fun_ExistsBij
<1> HIDE DEF Old, New
<1>6. IsFiniteSet(New) /\ Cardinality(New) = Cardinality(Old)
  BY <1>1, <1>5, FS_Bijection
<1>7. Cardinality(Old \cup New) = Cardinality(Old) + Cardinality(New) - Cardinality(Old \cap New)
  BY <1>1, <1>6, FS_Union
<1>8. Cardinality(Old) \in Nat /\ Cardinality(Old \cap New) = 0
  BY <1>1, <1>3, FS_CardinalityType, FS_EmptySet
<1>9. Cardinality(SUBSET (1 .. n + 1)) = Cardinality(Old) + Cardinality(Old)
  <2>1. Cardinality(SUBSET (1 .. n + 1)) = Cardinality(Old \cup New)
    BY <1>3, Zenon
  <2> QED  BY <1>6, <1>7, <1>8, <2>1
<1>10. 2^(n + 1) = 2^n + 2^n
  BY <1>1, <1>2, <1>9
<1> QED  BY <1>10, PowerPositive

(* Half of the integers of IntBits bits are negative. *)
LEMMA HalfRange == 2^IntBits = 2 * 2^(IntBits - 1)
<1>1. IntBits - 1 \in Nat /\ (IntBits - 1) + 1 = IntBits
  BY IntBitsAssumption
<1>2. 2^((IntBits - 1) + 1) = 2 * 2^(IntBits - 1)
  BY <1>1, PowerDoubles
<1> QED  BY <1>1, <1>2

(* A product that fits into the integers is computed exactly. *)
LEMMA Fits ==
    ASSUME NEW x \in Nat, x < 2^(IntBits - 1)
    PROVE  Wrapped(x) = x
<1>1. IntBits \in Nat \ {0} /\ IntBits - 1 \in Nat
  BY IntBitsAssumption
<1>2. PICK h \in Nat \ {0} : h = 2^(IntBits - 1)
  BY <1>1, PowerPositive
<1>3. 2^IntBits = 2 * h
  BY <1>2, HalfRange
<1>4. (x + h) % (2 * h) = x + h
  BY <1>2
<1> QED  BY <1>2, <1>3, <1>4 DEF Wrapped

(* An integer of IntBits bits is at most half the range. *)
LEMMA WrappedBelow ==
    ASSUME NEW x \in Int
    PROVE  Wrapped(x) \in Int /\ Wrapped(x) < 2^(IntBits - 1)
<1>1. IntBits \in Nat \ {0} /\ IntBits - 1 \in Nat
  BY IntBitsAssumption
<1>2. PICK h \in Nat \ {0} : h = 2^(IntBits - 1)
  BY <1>1, PowerPositive
<1>3. 2^IntBits = 2 * h
  BY <1>2, HalfRange
<1>4. (x + h) % (2 * h) \in 0 .. (2 * h - 1)
  BY <1>2
<1> QED  BY <1>2, <1>3, <1>4 DEF Wrapped

(* A multiplier is an integer, also when the one is shifted out. *)
LEMMA MultiplierType == ASSUME NEW n \in Nat \ {0} PROVE Multiplier(n) \in Int
<1>1. 2^(n - 1) \in Int
  BY PowerPositive
<1> QED  BY <1>1, WrappedBelow DEF Multiplier

(* The cap keeps the order. *)
LEMMA CappedGrows ==
    ASSUME NEW x \in Int, NEW y \in Int, x <= y
    PROVE  Capped(x) \in Int /\ Capped(x) <= Capped(y)
BY DEF Capped, MaxWait

(* A wait is a number, whatever the arithmetic comes to. *)
LEMMA WaitsType ==
    ASSUME NEW n \in Nat \ {0}, NEW base \in Nat
    PROVE  RetryWaits(n, base) \subseteq Int
<1>1. Interval(n, base) \in Int
  BY MultiplierType, WrappedBelow DEF Interval, Capped, MaxWait
<1> QED  BY <1>1 DEF RetryWaits, Jittered

(* The interval is the promised one while the product fits, *)
LEMMA IntervalExact ==
    ASSUME NEW n \in Nat \ {0}, NEW base \in Nat \ {0},
           base * 2^(n - 1) < 2^(IntBits - 1)
    PROVE  Interval(n, base) = Capped(base * 2^(n - 1))
<1>1. PICK p \in Nat \ {0} : p = 2^(n - 1)
  BY PowerPositive
<1>2. IntBits - 1 \in Nat
  BY IntBitsAssumption
<1>3. PICK h \in Nat \ {0} : h = 2^(IntBits - 1)
  BY <1>2, PowerPositive
<1>4. base * p \in Nat /\ base * p < h /\ p <= base * p
  BY <1>1, <1>3
<1>5. p < h
  BY <1>1, <1>3, <1>4
<1>6. n - 1 < IntBits
  <2> SUFFICES ASSUME IntBits <= n - 1 PROVE FALSE
    BY IntBitsAssumption
  <2>1. IntBits - 1 <= n - 1 /\ n - 1 \in Nat
    BY IntBitsAssumption
  <2>2. 2^(IntBits - 1) <= 2^(n - 1)
    BY <1>2, <2>1, PowerGrows
  <2> QED  BY <1>1, <1>3, <1>5, <2>2
<1>7. Multiplier(n) = p
  BY <1>1, <1>3, <1>5, <1>6, Fits DEF Multiplier
<1>8. Wrapped(base * p) = base * p
  BY <1>3, <1>4, Fits
<1> QED  BY <1>1, <1>7, <1>8 DEF Interval

(* and no longer when it wraps around. *)
LEMMA IntervalAtMost ==
    ASSUME NEW n \in Nat \ {0}, NEW base \in Nat \ {0}
    PROVE  Interval(n, base) \in Int /\ Interval(n, base) <= Capped(base * 2^(n - 1))
<1>1. PICK p \in Nat \ {0} : p = base * 2^(n - 1)
  BY PowerPositive
<1>2. PICK h \in Nat \ {0} : h = 2^(IntBits - 1)
  BY IntBitsAssumption, PowerPositive
<1>3. CASE p < h
  <2>1. Interval(n, base) = Capped(p)
    BY <1>1, <1>2, <1>3, IntervalExact
  <2> QED  BY <1>1, <2>1 DEF Capped, MaxWait
<1>4. CASE h <= p
  <2>1. PICK x \in Int : x = Wrapped(base * Multiplier(n))
    BY MultiplierType, WrappedBelow
  <2>2. x < h
    BY <1>2, <2>1, MultiplierType, WrappedBelow
  <2>3. x <= p
    BY <1>4, <2>2
  <2>4. Interval(n, base) = Capped(x)
    BY <2>1 DEF Interval
  <2> QED  BY <1>1, <2>3, <2>4, CappedGrows
<1> QED  BY <1>3, <1>4

(* The wait before a retry is at most 125 % of the promised interval, and  *)
(* at least 75 % of it while the product fits.                             *)
LEMMA WaitBounds ==
    ASSUME NEW n \in Nat \ {0}, NEW base \in Nat, NEW w \in RetryWaits(n, base)
    PROVE  LET product == base * 2^(n - 1)
           IN  /\ 0 <= w
               /\ 4 * w <= 5 * Capped(product)
               /\ product < 2^(IntBits - 1) => 4 * w + 3 >= 3 * Capped(product)
<1>1. PICK p \in Nat : p = base * 2^(n - 1)
  BY PowerPositive
<1>2. PICK c \in Nat : c = Capped(p)
  BY <1>1 DEF Capped, MaxWait
<1>3. CASE base = 0
  <2>1. w = 0 /\ p = 0
    BY <1>1, <1>3, PowerPositive DEF RetryWaits
  <2> QED  BY <1>1, <2>1 DEF Capped, MaxWait
<1>4. CASE base > 0
  <2>1. PICK i \in Int : i = Interval(n, base)
    BY <1>4, IntervalAtMost
  <2>2. i <= c
    BY <1>1, <1>2, <1>4, <2>1, IntervalAtMost
  <2>3. \/ w = 0 /\ i < 0
        \/ 0 <= i /\ w \in (3 * i) \div 4 .. (5 * i) \div 4
    <3>1. CASE i < 0
      BY <1>4, <2>1, <3>1 DEF RetryWaits
    <3>2. CASE 0 <= i
      <4>1. RetryWaits(n, base) = Jittered(i)
        BY <1>4, <2>1, <3>2 DEF RetryWaits
      <4> QED  BY <3>2, <4>1 DEF Jittered
    <3> QED  BY <2>1, <3>1, <3>2
  <2>4. 0 <= w /\ 4 * w <= 5 * c
    BY <2>2, <2>3
  <2>5. p < 2^(IntBits - 1) => 4 * w + 3 >= 3 * c
    <3> SUFFICES ASSUME p < 2^(IntBits - 1) PROVE 4 * w + 3 >= 3 * c
      OBVIOUS
    <3>1. i = c
      BY <1>1, <1>2, <1>4, <2>1, IntervalExact
    <3> QED  BY <2>3, <3>1
  <2> QED  BY <1>1, <1>2, <2>4, <2>5
<1> QED  BY <1>3, <1>4

(* The rest of the state, and the wait chosen before the attempt at hand. *)
RestType ==
    /\ hops \in Hops
    /\ DOMAIN answers = sends
    /\ \A t \in sends : answers[t] \in {"none", "ok", "failed"}
    /\ wait \in Int
    /\ completed \in Nat
    /\ lastFailed \in Actions \cup {0}

Waited ==
    stage = "start" /\ attempt > 1 => wait \in RetryWaits(attempt - 1, Current.interval)

(* A retry waits as promised: the one step that sets wait to more than 0. *)
LEMMA RetryWaited == ASSUME RunInv, Retry PROVE Waited' /\ wait' \in Int
<1>1. /\ wait' \in RetryWaits(attempt, Current.interval)
      /\ attempt' = attempt + 1 /\ Current' = Current
      /\ attempt \in Nat \ {0}
  BY DEF Retry, RunInv, RunnerType, Current
<1>2. attempt' - 1 = attempt
  BY <1>1
<1>3. Current.interval \in Nat
  <2>1. Current \in AllActions
    BY DEF RunInv, RunnerType, Current
  <2> QED  BY <2>1, PlansAssumption
<1> QED  BY <1>1, <1>2, <1>3, WaitsType DEF Waited

(* The rest of the type and Waited are kept by every step. *)
LEMMA NextRest == RunInv /\ RestType /\ Waited /\ [Next]_vars => (RestType /\ Waited)'
<1> SUFFICES ASSUME RunInv, RestType, Waited, [Next]_vars PROVE (RestType /\ Waited)'
  OBVIOUS
<1>1. CASE Execute
  <2>1. stage' = "decide" /\ UNCHANGED <<plan, hops, wait, completed, lastFailed, sends, answers>>
    BY <1>1 DEF Execute, Ended, relayVars
  <2> QED  BY <2>1 DEF RestType, Waited, Actions
<1>2. CASE StartRelay
  <2>1. /\ stage' \in {"decide", "relaying"}
        /\ UNCHANGED <<plan, hops, wait, completed, lastFailed>>
    BY <1>2 DEF StartRelay, Ended
  <2>2. \/ UNCHANGED <<sends, answers>>
        \/ answers' = [t \in sends' |-> "none"]
    BY <1>2 DEF StartRelay
  <2>3. DOMAIN answers' = sends' /\ \A t \in sends' : answers'[t] \in {"none", "ok", "failed"}
    BY <2>2 DEF RestType
  <2> QED  BY <2>1, <2>3 DEF RestType, Waited, Actions
<1>3. ASSUME NEW t \in sends, Answer(t) PROVE (RestType /\ Waited)'
  <2>1. /\ stage' = "relaying"
        /\ UNCHANGED <<plan, hops, wait, completed, lastFailed, sends>>
        /\ \E a \in {"ok", "failed"} : answers' = [answers EXCEPT ![t] = a]
    BY <1>3 DEF Answer
  <2>2. DOMAIN answers' = sends' /\ \A u \in sends' : answers'[u] \in {"none", "ok", "failed"}
    BY <2>1 DEF RestType
  <2> QED  BY <2>1, <2>2 DEF RestType, Waited, Actions
<1>4. CASE EndRelay
  <2>1. stage' = "decide" /\ UNCHANGED <<plan, hops, wait, completed, lastFailed, sends, answers>>
    BY <1>4 DEF EndRelay, Ended, relayVars
  <2> QED  BY <2>1 DEF RestType, Waited, Actions
<1>5. CASE Retry
  <2>1. UNCHANGED <<plan, hops, completed, lastFailed, sends, answers>>
    BY <1>5 DEF Retry, relayVars
  <2> QED  BY <1>5, <2>1, RetryWaited DEF RestType, Actions
<1>6. CASE Settle
  <2>1. /\ UNCHANGED <<plan, hops>> /\ wait' = 0 /\ sends' = {} /\ answers' = <<>>
        /\ attempt' = 1 \/ stage' = "done"
    BY <1>6 DEF Settle
  <2>2. completed' \in Nat /\ lastFailed' \in Actions \cup {0}
    BY <1>6, PlanType DEF Settle, Tally, RestType, RunInv
  <2> QED  BY <2>1, <2>2 DEF RestType, Waited, Actions
<1>7. CASE UNCHANGED vars
  BY <1>7 DEF vars, RestType, Waited, Actions, Current
<1> QED  BY <1>1, <1>2, <1>3, <1>4, <1>5, <1>6, <1>7 DEF Next

LEMMA InitRest == Init => RestType /\ Waited
BY DEF Init, RestType, Waited

(* The plan, the stage, the attempts, the answers and the wait keep their  *)
(* types: a wait stays an integer, also where the product wraps.           *)
THEOREM TypeCorrect == Spec => []TypeOK
<1>1. RunInv /\ RestType => TypeOK
  BY PlanType DEF RunInv, RunnerType, RestType, TypeOK, Current
<1> QED  BY <1>1, InitRun, NextRun, InitRest, NextRest, PTL DEF Spec

(* For integers of every width and attempts without bound: a wait is never *)
(* negative and at most 125 % of interval x 2^(attempt-1), capped at 5     *)
(* minutes before the jitter, whatever the product wraps to; and at least  *)
(* 75 % of it, rounded down to seconds, while the product fits.            *)
THEOREM WaitsAreBounded == Spec => []WaitsBounded
<1>1. RunInv /\ Waited => WaitsBounded
  <2> SUFFICES ASSUME RunInv, Waited, stage = "start", attempt > 1
               PROVE  /\ 0 <= wait
                      /\ 4 * wait <= 5 * Capped(Promised)
                      /\ Promised < 2^(IntBits - 1) => 4 * wait + 3 >= 3 * Capped(Promised)
    BY DEF WaitsBounded
  <2>1. attempt - 1 \in Nat \ {0} /\ (attempt - 1) - 1 = attempt - 2
    BY DEF RunInv, RunnerType
  <2>2. Current.interval \in Nat
    <3>1. Current \in AllActions
      BY DEF RunInv, RunnerType, Current
    <3> QED  BY <3>1, PlansAssumption
  <2>3. wait \in RetryWaits(attempt - 1, Current.interval)
    BY DEF Waited
  <2>4. Promised = Current.interval * 2^((attempt - 1) - 1)
    BY <2>1 DEF Promised
  <2> QED  BY <2>1, <2>2, <2>3, <2>4, WaitBounds
<1> QED  BY <1>1, InitRun, NextRun, InitRest, NextRest, PTL DEF Spec

=============================================================================

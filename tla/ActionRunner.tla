---------------------------- MODULE ActionRunner ----------------------------
(***************************************************************************)
(* One run of executeActions (internal/engine/engine.go): the actions of a *)
(* rule one after the other, each attempted until it succeeds or its       *)
(* attempts are used up, with a wait between attempts.  A relay action     *)
(* sends to its targets concurrently (internal/engine/relay.go) and its    *)
(* attempt ends when all of them have answered or timed out.               *)
(*                                                                         *)
(* How a command, a script or a webhook receiver behaves is left open: an  *)
(* attempt may end in every way the executor can report.                   *)
(***************************************************************************)
EXTENDS Backoff, Sequences, FiniteSets

CONSTANTS
    Plans,      \* the action lists of the rules
    Hops,       \* relay hop counts a request may carry
    Pool        \* targets that may be registered under the tag of an action

(***************************************************************************)
(* An action is [kind, attempts, interval, goOn, static, tagged, maxHops]: *)
(* goOn is continue_on_error; static is the sequence of target URLs of a   *)
(* relay, tagged whether it names a tag too.                               *)
(***************************************************************************)
AllActions == UNION {{p[i] : i \in DOMAIN p} : p \in Plans}

(* RuleConfig.Validate: at least one action, at least one attempt. *)
ASSUME PlansAssumption ==
    /\ Plans \subseteq Seq(AllActions) \ {<<>>}
    /\ \A a \in AllActions : a.attempts \in Nat \ {0} /\ a.interval \in Nat

VARIABLES
    plan,       \* the actions
    hops,       \* RequestData.RelayHops
    action,     \* the current action
    attempt,    \* the current attempt at it
    stage,      \* where executeActions is
    sends,      \* the targets of the relay attempt in progress
    answers,    \* target of the attempt -> "none", "ok" or "failed"
    wait,       \* the wait chosen before the next attempt
    completed,  \* the count executeActions returns
    lastFailed, \* the action whose result it returns, 0 for nil
    tried,      \* action -> attempts made at it so far
    ended,      \* action -> how its last attempt ended
    served      \* the targets that have answered a send of this action

vars == <<plan, hops, action, attempt, stage, sends, answers, wait,
          completed, lastFailed, tried, ended, served>>
relayVars == <<sends, answers, served>>

Actions == DOMAIN plan
Current == plan[action]

Init ==
    /\ plan \in Plans
    /\ hops \in Hops
    /\ action = 1
    /\ attempt = 1
    /\ stage = "start"
    /\ sends = {}
    /\ answers = <<>>
    /\ wait = 0
    /\ completed = 0
    /\ lastFailed = 0
    /\ tried = [i \in Actions |-> 0]
    /\ ended = [i \in Actions |-> "none"]
    /\ served = {}

-----------------------------------------------------------------------------
(* How an attempt can end.  A webhook is judged by its toActionResult: an  *)
(* error and a status of 400 or more are failures, any other status is     *)
(* not.                                                                    *)
ShellEnds == {"exit 0", "exit 1", "timeout", "not started"}
WebhookEnds == {"2xx", "3xx", "4xx", "5xx", "no response"}
RelayEnds == {"some", "none", "hop limit", "no targets"}
Ends == ShellEnds \cup WebhookEnds \cup RelayEnds

Succeeded(end) == end \in {"exit 0", "2xx", "3xx", "some"}

EndsOf(kind) == IF kind = "webhook" THEN WebhookEnds ELSE ShellEnds

(* The attempt is over; what follows is decided in Decide. *)
Ended(end) ==
    /\ ended' = [ended EXCEPT ![action] = end]
    /\ stage' = "decide"

Attempted == tried' = [tried EXCEPT ![action] = @ + 1]

(* executeSingleAction: a command, a script or a webhook. *)
Execute ==
    /\ stage = "start"
    /\ Current.kind \in {"command", "script", "webhook"}
    /\ Attempted
    /\ \E end \in EndsOf(Current.kind) : Ended(end)
    /\ UNCHANGED <<plan, hops, action, attempt, wait, completed, lastFailed, relayVars>>

(* resolveRelayTargets: the static targets as listed, then the registered  *)
(* ones that are not among them.                                           *)
Listed(static) == {static[i] : i \in DOMAIN static}
Resolved(static, found) ==
    {<<i, static[i]>> : i \in DOMAIN static}
    \cup {<<0, url>> : url \in found \ Listed(static)}

(* executeRelay: the hop limit, the targets, one goroutine for each. *)
StartRelay ==
    /\ stage = "start"
    /\ Current.kind = "relay"
    /\ Attempted
    /\ IF hops >= Current.maxHops
       THEN Ended("hop limit") /\ UNCHANGED <<sends, answers>>
       ELSE \E found \in IF Current.tagged THEN SUBSET Pool ELSE {{}} :
              LET targets == Resolved(Current.static, found)
              IN  IF targets = {}
                  THEN Ended("no targets") /\ UNCHANGED <<sends, answers>>
                  ELSE /\ sends' = targets
                       /\ answers' = [t \in targets |-> "none"]
                       /\ stage' = "relaying"
                       /\ UNCHANGED ended
    /\ UNCHANGED <<plan, hops, action, attempt, wait, completed, lastFailed, served>>

(* sendToTarget: a 2xx answer, or another answer, an error or a timeout. *)
Answer(t) ==
    /\ stage = "relaying"
    /\ answers[t] = "none"
    /\ \/ /\ answers' = [answers EXCEPT ![t] = "ok"]
          /\ served' = served \cup {t[2]}
       \/ /\ answers' = [answers EXCEPT ![t] = "failed"]
          /\ UNCHANGED served
    /\ UNCHANGED <<plan, hops, action, attempt, stage, sends, wait,
                   completed, lastFailed, tried, ended>>

(* Mutant of EndRelay: the wait is for successes. *)
EndRelayAllOk ==
    /\ stage = "relaying"
    /\ \A t \in sends : answers[t] = "ok"
    /\ Ended("some")
    /\ UNCHANGED <<plan, hops, action, attempt, wait, completed, lastFailed,
                   tried, relayVars>>

(* wg.Wait returns: one success is enough. *)
EndRelay ==
    /\ stage = "relaying"
    /\ \A t \in sends : answers[t] # "none"
    /\ Ended(IF \E t \in sends : answers[t] = "ok" THEN "some" ELSE "none")
    /\ UNCHANGED <<plan, hops, action, attempt, wait, completed, lastFailed,
                   tried, relayVars>>

-----------------------------------------------------------------------------
(* Mutants of MayRetry: one attempt too many; a retry of what succeeded. *)
MayRetryOnceMore == ~ Succeeded(ended[action]) /\ attempt <= Current.attempts
MayRetryAlways == attempt < Current.attempts

(* What follows an attempt: a retry, the next action, or the end. *)
MayRetry == ~ Succeeded(ended[action]) /\ attempt < Current.attempts

Retry ==
    /\ stage = "decide"
    /\ MayRetry
    /\ wait' \in RetryWaits(attempt, Current.interval)
    /\ attempt' = attempt + 1
    /\ stage' = "start"
    /\ UNCHANGED <<plan, hops, action, completed, lastFailed, tried, ended, relayVars>>

(* Mutant of MovesOn: continue_on_error is not looked at. *)
MovesOnAlways == TRUE

MovesOn == Succeeded(ended[action]) \/ Current.goOn

(* Mutant of Tally: the first failure is kept, not the last. *)
TallyFirst ==
    IF Succeeded(ended[action])
    THEN completed' = completed + 1 /\ UNCHANGED lastFailed
    ELSE lastFailed' = (IF lastFailed = 0 THEN action ELSE lastFailed) /\ UNCHANGED completed

Tally ==
    IF Succeeded(ended[action])
    THEN completed' = completed + 1 /\ UNCHANGED lastFailed
    ELSE lastFailed' = action /\ UNCHANGED completed

Settle ==
    /\ stage = "decide"
    /\ ~ MayRetry
    /\ Tally
    /\ IF MovesOn /\ action < Len(plan)
       THEN action' = action + 1 /\ attempt' = 1 /\ stage' = "start"
       ELSE stage' = "done" /\ UNCHANGED <<action, attempt>>
    /\ wait' = 0
    /\ sends' = {}
    /\ answers' = <<>>
    /\ served' = {}
    /\ UNCHANGED <<plan, hops, tried, ended>>

Next == Execute \/ StartRelay \/ (\E t \in sends : Answer(t)) \/ EndRelay
        \/ Retry \/ Settle

Spec == Init /\ [][Next]_vars

(* The goroutines run, and every action and every send ends: by itself or  *)
(* by its timeout.                                                         *)
FairSpec == Spec /\ WF_vars(Next)

-----------------------------------------------------------------------------
TypeOK ==
    /\ plan \in Plans
    /\ hops \in Hops
    /\ action \in Actions
    /\ attempt \in 1 .. Current.attempts
    /\ stage \in {"start", "relaying", "decide", "done"}
    /\ DOMAIN answers = sends
    /\ \A t \in sends : answers[t] \in {"none", "ok", "failed"}
    /\ wait \in Int
    /\ completed \in Nat
    /\ lastFailed \in Actions \cup {0}
    /\ tried \in [Actions -> Nat]
    /\ ended \in [Actions -> Ends \cup {"none"}]

(* "All retries are exhausted before continue_on_error is evaluated"       *)
(* (docs/configuration.md): the runner leaves an action behind only when   *)
(* it succeeded, or when all its attempts failed and the action lets the   *)
(* rule go on; it never runs ahead and never attempts too often.           *)
OneByOne ==
    \A k \in Actions :
        /\ k < action => \/ Succeeded(ended[k])
                         \/ tried[k] = plan[k].attempts /\ plan[k].goOn
        /\ k > action => tried[k] = 0
        /\ tried[k] <= plan[k].attempts

(* What executeActions returns: "the number of successfully completed      *)
(* actions and the result of the last failed action (nil when every action *)
(* succeeded)".  The record of an async task says succeeded just when it   *)
(* is nil.                                                                 *)
Done == {k \in Actions : Succeeded(ended[k])}
ResultTruthful ==
    stage = "done" =>
        /\ completed = Cardinality(Done)
        /\ lastFailed = 0 <=> Done = Actions
        /\ lastFailed # 0 =>
              /\ ~ Succeeded(ended[lastFailed])
              /\ \A k \in Actions : k > lastFailed /\ tried[k] > 0 => k \in Done

(* An action that has succeeded is not attempted again, and a relay target *)
(* whose answer was a success is not sent the request again by a retry,    *)
(* although a relay counts as failed or successful only as a whole.  (One  *)
(* whose answer came too late may be.)                                     *)
NeverRedone ==
    [][/\ \A k \in Actions : tried'[k] # tried[k] => ~ Succeeded(ended[k])
       /\ stage' = "relaying" /\ stage = "start" =>
              \A t \in sends' : t[2] \notin served]_vars

(* "Retry intervals grow automatically: interval x 2^(attempt-1) with 25%  *)
(* random jitter, capped at 5 minutes" (docs/configuration.md), with the   *)
(* arithmetic of the integers.  Whatever the product wraps to, a wait is   *)
(* never negative and never longer than the capped interval and its jitter,*)
(* which is applied after the cap; rounded down to whole seconds it is no  *)
(* shorter than that either, unless the product does not fit into Go's     *)
(* int: then a retry may come with no wait at all.                         *)
Promised == Current.interval * 2^(attempt - 2)
WaitsBounded ==
    stage = "start" /\ attempt > 1 =>
        /\ 0 <= wait
        /\ 4 * wait <= 5 * Capped(Promised)
        /\ Promised < 2^(IntBits - 1) => 4 * wait + 3 >= 3 * Capped(Promised)

(* The same sentence of the docs and the comment on calcRetryInterval, as  *)
(* they stand: "capped at 5 minutes".                                      *)
WaitsCapped == wait <= MaxWait

(* The actions of a rule come to an end. *)
Finishes == <>(stage = "done")

=============================================================================

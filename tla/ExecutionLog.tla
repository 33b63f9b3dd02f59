---------------------------- MODULE ExecutionLog ----------------------------
(***************************************************************************)
(* What the execution records promise a reader of GET /api/executions:     *)
(* the most recent executions, newest first, each one `running' until its  *)
(* own end is recorded and from then on with its own outcome.              *)
(***************************************************************************)
EXTENDS Naturals, Sequences

CONSTANTS
    Capacity,   \* how many executions are remembered
    Runs        \* executions

VARIABLES
    log         \* the remembered executions, newest first

Outcomes == {"succeeded", "failed"}

Remembered(run) == \E i \in DOMAIN log : log[i].run = run

Init == log = <<>>

Start(run) ==
    /\ ~ Remembered(run)
    /\ LET longer == <<[run |-> run, status |-> "running"]>> \o log
       IN  log' = IF Len(longer) > Capacity
                  THEN SubSeq(longer, 1, Capacity)
                  ELSE longer

Finish(run, outcome) ==
    /\ \E i \in DOMAIN log : log[i].run = run /\ log[i].status = "running"
    /\ log' = [i \in DOMAIN log |->
                 IF log[i].run = run
                 THEN [log[i] EXCEPT !.status = outcome]
                 ELSE log[i]]

Next == \E run \in Runs :
            \/ Start(run)
            \/ \E outcome \in Outcomes : Finish(run, outcome)

Spec == Init /\ [][Next]_log

=============================================================================

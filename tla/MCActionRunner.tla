---------------------------- MODULE MCActionRunner --------------------------
(* Action lists on which TLC checks ActionRunner. *)
EXTENDS ActionRunner

Action(kind, attempts, interval, goOn) ==
    [kind |-> kind, attempts |-> attempts, interval |-> interval, goOn |-> goOn,
     static |-> <<>>, tagged |-> FALSE, maxHops |-> 3]
Relay(attempts, goOn, static, tagged) ==
    [Action("relay", attempts, 0, goOn) EXCEPT !.static = static, !.tagged = tagged]

(* Every mix of attempts and continue_on_error over three actions. *)
MixedPlans ==
    {<<Action("command", n, 1, c), Relay(m, d, <<"u1", "u2">>, TRUE),
       Action("webhook", 2, 200, FALSE)>> :
         n \in 1 .. 2, m \in 1 .. 2, c \in BOOLEAN, d \in BOOLEAN}

(* Many retries, up to the cap and past the width of an integer. *)
LongPlans == {<<Action("command", 12, 8, FALSE)>>}

AllPlans == MixedPlans \cup LongPlans

=============================================================================

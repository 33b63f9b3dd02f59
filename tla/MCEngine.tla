------------------------------ MODULE MCEngine ------------------------------
(* Config lists and requests on which TLC checks Engine. *)
EXTENDS Engine, TLC

Block == [policy |-> "block", cooldown |-> 0]
Always == [policy |-> "always", cooldown |-> 0]
Cooldown(n) == [policy |-> "cooldown", cooldown |-> n]

Rule(name, exec) == [name |-> name, exec |-> exec]
Config(file, async, window, exec, rules) ==
    [file |-> file, name |-> <<file>>, async |-> async, window |-> window,
     exec |-> exec, rules |-> rules]

R1 == <<"r1">>
R2 == <<"r2">>

(* A request that passes auth and filters of a and b and matches the rules given. *)
Plain(id, target, rules) ==
    [id |-> id, target |-> target, auth |-> {"a", "b"}, filters |-> {"a", "b"},
     rules |-> rules]

Symmetry == Permutations(Handlers)

-----------------------------------------------------------------------------
(* Policies: config a runs synchronously, b in the background; block by    *)
(* default and by file level, always by rule; a reload turns a's block     *)
(* into always, or back.                                                   *)
PolicyLists ==
    {<<Config("a", FALSE, 0, aExec, <<Rule(R1, NoExec)>>),
       Config("b", TRUE, 0, Block, <<Rule(R1, NoExec), Rule(R2, Always)>>)>> :
        aExec \in {NoExec, Always}}
PolicyRequests ==
    {Plain(id, "a", {<<"a", R1>>}) : id \in IDs}
    \cup {Plain(id, "b", {<<"b", R1>>}) : id \in IDs}
    \cup {Plain(id, "b", {<<"b", R2>>}) : id \in IDs}

(* a runs its actions synchronously, b in the background. *)
A(window, exec, rules) == Config("a", FALSE, window, exec, rules)
B(window, exec, rules) == Config("b", TRUE, window, exec, rules)
Sync(cfg) == [cfg EXCEPT !.async = FALSE]

(* Chain: requests to /webhook try a and then b; a deduplicates.  A reload *)
(* swaps the configs, drops a rule and turns "always" into "block"; b.yml  *)
(* and b.yaml both go by the name b, which only `hookrun validate` rejects.*)
ChainLists ==
    {<<A(4, NoExec, <<Rule(R1, Always), Rule(R2, NoExec)>>),
       Sync(B(0, Always, <<Rule(R1, NoExec), Rule(R2, Block)>>))>>,
     <<Sync(B(4, Block, <<Rule(R1, NoExec)>>)),
       [Sync(B(0, Always, <<Rule(R2, NoExec)>>)) EXCEPT !.name = <<"c">>],
       A(4, Block, <<Rule(R2, NoExec), Rule(R1, NoExec)>>)>>}
ChainRequests ==
    {Plain("i1", AnyConfig, {<<"a", R1>>, <<"a", R2>>, <<"b", R1>>}),
     Plain("i1", AnyConfig, {<<"b", R2>>}),
     Plain("i2", "b", {<<"b", R2>>}),
     [Plain("i2", AnyConfig, {<<"a", R1>>, <<"b", R1>>, <<"b", R2>>})
         EXCEPT !.auth = {"b"}],
     [Plain("i2", AnyConfig, {<<"a", R1>>, <<"b", R2>>}) EXCEPT !.filters = {"a"}],
     [Plain("i2", "a", {<<"a", R1>>}) EXCEPT !.auth = {"b"}]}

(* One deduplicating config after another, as relays and senders retry. *)
RetryLists == {<<A(4, NoExec, <<Rule(R1, NoExec)>>), B(4, NoExec, <<Rule(R2, NoExec)>>)>>}
RetryRequests == {Plain("i1", AnyConfig, {<<"b", R2>>})}

(* A background task under cooldown beside one that takes the only slot, *)
(* in turn with the chain.                                               *)
CooldownLists ==
    {<<B(0, Cooldown(1), <<Rule(R1, NoExec), Rule(R2, Always)>>)>>}
LiveLists == ChainLists \cup CooldownLists

=============================================================================

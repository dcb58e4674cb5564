-------------------------- MODULE MCJitController --------------------------
(* Gadget types and programs for JitController.                            *)
EXTENDS JitController

Own(i) == [port |-> Local, index |-> i]
In(p, k) == [port |-> p, index |-> k]
Check(ms) == [measurements |-> ms, flipped |-> FALSE]
Err(f, u) == [finished |-> f, unfinished |-> u]

\* 1: two fresh virtual checks.
Prep == [inputs |-> <<>>, outputs |-> <<2>>, finished |-> <<>>,
         unfinished |-> <<Check(<<Own(3)>>), [Check(<<Own(2)>>) EXCEPT !.flipped = TRUE]>>,
         errors |-> <<Err(<<>>, <<1>>), Err(<<>>, <<1, 2>>)>>]
\* 2: compares the first one and renews it, passes the second one on.
Idle == [inputs |-> <<2>>, outputs |-> <<2>>,
         finished |-> <<Check(<<Own(1), In(1, 1)>>)>>,
         unfinished |-> <<Check(<<Own(1)>>), Check(<<In(1, 2)>>)>>,
         errors |-> <<Err(<<1>>, <<1>>), Err(<<>>, <<1, 2>>)>>]
\* 3: measures both; the first check takes in the second virtual check, too.
Measure == [inputs |-> <<2>>, outputs |-> <<>>,
            finished |-> <<Check(<<Own(1), In(1, 1), In(1, 2)>>),
                           Check(<<Own(2), Own(1), In(1, 2)>>)>>,
            unfinished |-> <<>>, errors |-> <<Err(<<1, 2>>, <<>>)>>]
\* 4: two ports, the checks of the first are copied to the second; between them a port
\* without checks.
Copy == [inputs |-> <<1, 1>>, outputs |-> <<1, 0, 1>>, finished |-> <<>>,
         unfinished |-> <<Check(<<In(1, 1)>>), Check(<<In(1, 1), In(2, 1)>>)>>,
         errors |-> <<Err(<<>>, <<2>>), Err(<<>>, <<1, 2>>)>>]
\* 5, 6: ends of Copy; what the first port brings cancels.
Half == [inputs |-> <<>>, outputs |-> <<1>>, finished |-> <<>>,
         unfinished |-> <<Check(<<Own(1)>>)>>, errors |-> <<Err(<<>>, <<1>>)>>]
Both == [inputs |-> <<1, 0, 1>>, outputs |-> <<>>,
         finished |-> <<Check(<<Own(1), In(1, 1), In(3, 1)>>), Check(<<In(1, 1)>>)>>,
         unfinished |-> <<>>, errors |-> <<Err(<<2>>, <<>>)>>]
Alphabet == <<Prep, Idle, Measure, Copy, Half, Both>>

To(g, p) == [gid |-> g, port |-> p]
Program(gids, gtype, connectors, inBatch, max) ==
    [gids |-> gids, gtype |-> gtype, connectors |-> connectors, batch |-> inBatch,
     cache_enabled |-> TRUE, late |-> {}, faults |-> max > 0, resets |-> max]

Memory(b) == Program(1 .. 3, <<1, 2, 3>>, <<<<>>, <<To(1, 1)>>, <<To(2, 1)>>>>, b, 0)
Cancelling == Program(1 .. 4, <<5, 5, 4, 6>>,
                      <<<<>>, <<>>, <<To(1, 1), To(2, 1)>>, <<To(3, 1), To(3, 2), To(3, 3)>>>>,
                      {3, 4}, 0)
Short == Program(1 .. 2, <<1, 3>>, <<<<>>, <<To(1, 1)>>>>, {1, 2}, 1)
\* Its error model waits for a gadget that never comes.
Open == Program({1}, <<5>>, <<<<>>>>, {}, 2)
Late == [Open EXCEPT !.late = {5}]

AllSetups == {Memory({}), [Memory({1, 2, 3}) EXCEPT !.cache_enabled = FALSE], Cancelling,
              Short, Open, Late}
=============================================================================

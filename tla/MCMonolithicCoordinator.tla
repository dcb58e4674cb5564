---------------------- MODULE MCMonolithicCoordinator ----------------------
(* Programs for MonolithicCoordinator.                                     *)
EXTENDS MonolithicCoordinator

To(g, k) == [gid |-> g, port |-> k]

Program(inputs, outputs, checks, shape) ==
    [gids |-> Gids, inputs |-> inputs, outputs |-> outputs,
     readouts |-> [g \in Gids |-> {}], measured |-> [g \in Gids |-> {}],
     touched |-> [g \in Gids |-> {}], checks |-> checks, errors |-> checks,
     chained |-> {}, retried |-> {}, shape |-> shape]

\* 1 -> 2, both ports of 1 into 2; 3 alone.  The check of 1 looks ahead at 2; 2
\* is decoded twice.
Double == [Program(<<<<>>, <<To(1, 0), To(1, 1)>>, <<>>>>, <<{0, 1}, {}, {}>>, {1},
                   <<"a", "a", "b">>)
             EXCEPT !.checks = {1, 2}, !.measured[1] = {2}, !.retried = {2},
                    !.readouts[2] = {1}]

\* 1 -> 3 <- 2: the two parts are joined by 3.  The check of 2 looks ahead at 3, the
\* errors of 2 flip the check of 3.
Merge == [Program(<<<<>>, <<>>, <<To(1, 0), To(2, 0)>>>>, <<{0}, {0}, {}>>, {2},
                  <<"a", "a", "a">>)
            EXCEPT !.checks = {2, 3}, !.measured[2] = {3}, !.touched[2] = {3}, !.chained = {2}]

\* Two parts with equal relative programs, no check models.
Twins == Program(<<<<>>, <<To(1, 0)>>, <<>>>>, <<{0}, {}, {}>>, {}, <<"a", "a", "a">>)

\* 1 -> 2, with everything that can be cut off.
Pair(chained) ==
    [Program(<<<<>>, <<To(1, 0)>>, <<>>>>, <<{0}, {}, {}>>, {1}, <<"a", "a", "a">>)
       EXCEPT !.gids = {1, 2}, !.measured[1] = {2}, !.chained = chained]

\* 2 -> 1: the frame of 1 is not there when its correction is loaded.
Backward == [Program(<<<<To(2, 0)>>, <<>>, <<>>>>, <<{}, {0}, {}>>, {2}, <<"a", "a", "a">>)
               EXCEPT !.gids = {1, 2}]

Setup(async, persistent, faults) ==
    [async_expand |-> async, persistent_decoder |-> persistent, faults |-> faults]

Complete ==
    {<<p, Setup(TRUE, TRUE, FALSE)>> : p \in {Double, Merge, Twins}}
    \cup {<<Double, Setup(FALSE, FALSE, FALSE)>>}
    \cup {<<Pair({}), Setup(TRUE, TRUE, TRUE)>>, <<Pair({1}), Setup(TRUE, FALSE, TRUE)>>,
          <<Backward, Setup(FALSE, FALSE, TRUE)>>}
=============================================================================

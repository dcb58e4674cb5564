------------------------ MODULE MCPauliFrameTracker ------------------------
(* Programs for PauliFrameTracker.                                         *)
EXTENDS PauliFrameTracker

Peer(g, k) == [gid |-> g, port |-> k]
Readout(g) == [gid |-> g, readout |-> 1]

\* Every bit that can depend on another does.
Dense(inputs, outs, readouts, measurements, remote) ==
    LET t == [outputs |-> outs]
        columns == {One} \cup ((DOMAIN inputs) \X {1, 2})
    IN  [inputs |-> inputs, outputs |-> outs, readouts |-> readouts,
         measurements |-> measurements, remote_readouts |-> remote,
         measurement_indices |-> [r \in readouts |-> measurements],
         correction_propagation |-> [o \in Out(t) |-> columns],
         readout_propagation |-> [r \in readouts |-> columns],
         logical_correction |-> [o \in Out(t) |-> readouts],
         physical_correction |-> [o \in Out(t) |-> measurements],
         remote_correction |-> [o \in Out(t) |-> DOMAIN remote]]

\* 1 -> 2 -> 4 and 1 -> 3 -> 4: a correction of 1 visits 4 twice.
Diamond == <<Dense(<<>>, <<{1}, {1}>>, {}, {1}, <<>>),
             Dense(<<Peer(1, 1)>>, <<{1}>>, {}, {}, <<>>),
             Dense(<<Peer(1, 2)>>, <<{1}>>, {}, {}, <<>>),
             Dense(<<Peer(2, 1), Peer(3, 1)>>, <<>>, {1}, {}, <<>>)>>

\* 1 -> 3, and 3 uses a readout of 2; 4 behind 3 uses one of 1.
Conditional == <<Dense(<<>>, <<{1, 2}>>, {1}, {}, <<>>),
                 Dense(<<>>, <<>>, {1}, {1}, <<>>),
                 Dense(<<Peer(1, 1)>>, <<{1}>>, {}, {}, <<Readout(2)>>),
                 Dense(<<Peer(3, 1)>>, <<{1}>>, {1}, {}, <<Readout(1)>>)>>

Small == {Diamond, Conditional}
=============================================================================

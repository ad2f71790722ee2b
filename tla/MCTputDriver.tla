---------------------------- MODULE MCTputDriver -----------------------------
(***************************************************************************)
(* Instances of the throughput driver for TLC.                              *)
(***************************************************************************)
EXTENDS TputDriver, TLC

\* Two slots of one virtual network and two threads; the first one uses its
\* slot twice.  Or it creates two attachments and leaves them.
Drive ==
    [num_nets |-> 1, top_net_size |-> 2, law_bias |-> 0, singleNetwork |-> FALSE,
     just_count |-> FALSE, justCreate |-> FALSE, threads |-> 2, num_attachments |-> 3]

Driving == {Drive, [Drive EXCEPT !.justCreate = TRUE, !.num_attachments = 2]}

\* Only the layout of the networks: main creates them and then exits, because
\* more attachments are asked for than there are slots, or it estimates.
Laying ==
    [num_nets : 1 .. 6, top_net_size : 1 .. 20, law_bias : 0 .. 3, singleNetwork : BOOLEAN,
     just_count : BOOLEAN, justCreate : {TRUE}, threads : {1}, num_attachments : {1000}]

CommandLines == Driving \cup Laying

Event3(status, fault, signal) ==
    "status" :> status @@ "fault" :> fault @@ "signal" :> signal

Limits == {Event3(2, 0, 0), Event3(1, 1, 0), Event3(1, 0, 1), Event3(0, 1, 1)}
=============================================================================

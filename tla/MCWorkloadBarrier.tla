-------------------------- MODULE MCWorkloadBarrier --------------------------
(* WorkloadBarrier on small queues, one credit for each class: on one port, *)
(* a control record behind two data records; on two ports, two bulk records *)
(* and a primary port that carries the lifecycle frames alone.              *)
EXTENDS WorkloadBarrier

CONSTANTS a1, a2

OneCredit == [c \in Classes |-> 1]
OneData == [primary |-> <<"data">>, bulk |-> <<>>]
Mixed == [primary |-> <<"data", "data", "control">>, bulk |-> <<>>]
TwoBulk == [primary |-> <<>>, bulk |-> <<"data", "data">>]
=============================================================================

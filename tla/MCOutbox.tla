------------------------------ MODULE MCOutbox ------------------------------
(***************************************************************************)
(* A small instance of Outbox: two peers, one of them on the primary's     *)
(* side, and each effect of send_msg.                                      *)
(***************************************************************************)
EXTENDS Outbox

CONSTANTS x, y

Send(kind, to) == [kind |-> kind, to |-> to]

Scenario(messages, effects) == [traffic |-> messages, effects |-> effects]

SomeScenarios ==
    {Scenario(<<Send("Vote", y), Send("Timeout", All)>>, <<"Failure">>),
     Scenario(<<Send("Timeout", All), Send("Vote", y)>>, <<"Egress">>),
     Scenario(<<Send("Header", All), Send("ConsensusVote", y)>>, <<"Partition", "Partition">>),
     Scenario(<<Send("Commit", All), Send("ConsensusVote", x)>>, <<"VoteDelay">>),
     Scenario(<<Send("Header", All)>>, <<"Equivocate">>),
     Scenario(<<Send("Prepare", All), Send("Commit", All)>>, <<"PrepareDelay">>)}
=============================================================================

--------------------------- MODULE MCSlotConsensus ---------------------------
(***************************************************************************)
(* Four replicas: f = 1, a quorum is 3, f + 1 is 2, the fast path takes 4. *)
(* On slot 1 the leaders of views 1, 2 and 3 are r3, r4 and r1; on slot 2  *)
(* they are r4, r1 and r2.                                                 *)
(***************************************************************************)
EXTENDS SlotConsensus, TLC

CONSTANTS r1, r2, r3, r4

FourReplicas == <<r1, r2, r3, r4>>
All == {r1, r2, r3, r4}

\* On slot 2, r2 and r3 lead none of the first two views.
Followers == Permutations({r2, r3})

ReachOf(prepare, confirm, commit, timeout) ==
    [type \in {"Prepare", "Confirm", "Commit", "Timeout"} |->
        CASE type = "Prepare" -> prepare
          [] type = "Confirm" -> confirm
          [] type = "Commit" -> commit
          [] type = "Timeout" -> timeout]

\* A Commit stays with its leader, and only the leader of the next view hears
\* the Timeouts: r4 on slot 1, r1 on slot 2.
ToNextLeader == ReachOf(All, {r1, r2}, {}, {r4})
\* On slot 2 the leader r4 of view 1 stays there and counts what is late.
WithoutFirstLeader == ReachOf({r1, r2, r3}, {r2, r3}, {}, {r1})
\* The leader r3 of view 1 of slot 1 never proposes: r4 and another replica that
\* does not lead hear the Timeouts.
FirstLeaderLate == ReachOf(All, All, All, {r1, r4})

OthersInView1 == {r1, r2, r4} \X {1}
OthersInView1OfSlot2 == {r1, r2, r3} \X {1}

\* Two view changes among three replicas: the Confirm of each view stays with
\* its leader, so r3 reports the QC of view 1 and r4 that of view 2 to r1, the
\* leader of view 3.
TwiceInThree == {r1, r3, r4} \X {1, 2}
NoConfirms == ReachOf({r1, r4, r3}, {}, {}, {r1, r3, r4})

\* States that differ in the arrival order of the Timeouts of view 1 are
\* explored once: those Timeouts report nothing, in any order.
Arrived(s) == {s[i] : i \in DOMAIN s}
OrderOfView1 ==
    <<views, timers, timer_futures, last_voted_consensus, high_qcs,
      committed_slots, consensus_instances, qc_makers, confirm_makers, use_fast_path, msgs,
      [r \in Replicas |-> <<Arrived(tc_makers[r][1]), tc_makers[r][2]>>]>>
=============================================================================

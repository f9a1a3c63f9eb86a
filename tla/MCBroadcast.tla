---------------------------- MODULE MCBroadcast ----------------------------
(* Broadcast for TLC: one device and one user; a request to broadcast at   *)
(* once (naming a recipient twice), one whose scheduled_at nobody can      *)
(* parse, and a message scheduled for instant 1.                           *)
EXTENDS Broadcast

CONSTANTS j1, j2, r1, r2, u1, d1

MCDeviceOwner == [d \in {d1} |-> u1]

MCBroadcastNow ==
    [kind |-> "broadcast", user |-> u1, device |-> d1,
     to |-> <<r1, r2, r1>>, when |-> "absent", at |-> 0]

MCBroadcastUnparsable == [MCBroadcastNow EXCEPT !.when = "unparsable", !.to = <<r2>>]

MCScheduleAt1 ==
    [kind |-> "schedule", user |-> u1, device |-> d1,
     to |-> <<r1>>, when |-> "instant", at |-> 1]

MCRequests == {MCBroadcastNow, MCBroadcastUnparsable, MCScheduleAt1}

\* For the instances with several jobs and one recipient.
MCNarrowRequests == {[MCBroadcastUnparsable EXCEPT !.to = <<r1>>], MCScheduleAt1}

MCShortRequests == {[MCBroadcastNow EXCEPT !.to = <<r1, r2>>], MCScheduleAt1}
=============================================================================

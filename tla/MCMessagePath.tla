---------------------------- MODULE MCMessagePath ----------------------------
(* Instances of MessagePath: four messages, and one that is requeued.      *)
EXTENDS MessagePath, SessionLockFifo

CONSTANTS s1, s2, alice, bob, l1, l2

FourAndCopy == 1..5
OneCopy == {5}
TwoSessions == {s1, s2}
TwoLocks == {l1, l2}
SessionIds == {s1, s2, alice, bob}

Event(k, s, who, by) == [kind |-> k, umo |-> s, sender |-> who, by |-> by]
Text(s, who) == Event("text", s, who, "umo")
Mention(s, who) == Event("mention", s, who, "umo")
Command(s, who, by) == Event("command", s, who, by)

(* Texts alone; two waiters under one id, and under two ids that one       *)
(* message has; a message that finds a waiter, and one that does not.      *)
SomeCasts == {
  <<Text(s1, alice), Text(s2, bob), Text(s1, bob), Text(s1, alice), NoEvent>>,
  <<Mention(s1, alice), Command(s1, bob, "umo"),
    Text(s1, alice), NoEvent, NoEvent>>,
  <<Command(s1, alice, "sender"), Mention(s1, alice),
    Text(s1, alice), NoEvent, NoEvent>>,
  <<Command(s1, alice, "umo"), Text(s1, alice),
    Text(s2, bob), NoEvent, NoEvent>>,
  <<Mention(s1, alice), Text(s2, bob), Text(s1, bob), Text(s1, alice), NoEvent>>}

Stall(n) == [count |-> n, strategy |-> "stall"]
Discard(n) == [count |-> n, strategy |-> "discard"]

SomeLimits == {Stall(0), Stall(2), Discard(2)}
=============================================================================

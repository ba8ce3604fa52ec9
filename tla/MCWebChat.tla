----------------------------- MODULE MCWebChat -----------------------------
(* Instances of WebChat: three requests and a message from somewhere else. *)
EXTENDS WebChat

CONSTANTS r1, r2, r3, n1

ThreeRequests == {r1, r2, r3}

SecondRequest == {r2}
FirstRequest  == {r1}

OneNotice == {n1}

(* Everything posted may arrive.                                           *)
Of(posts, cuts, pieces, kinds, others) ==
  [posts |-> posts, arrive |-> posts, cuts |-> cuts, pieces |-> pieces,
   kinds |-> kinds, outside |-> others]

(* Two requests that say something or nothing, with and without others;    *)
(* the queues removed twice, and then with a request after each removal; a *)
(* stream and a whole answer with all that can come on their queues; and   *)
(* three requests of which two may be captured.                            *)
ChatCasts ==
  { Of({r1, r2}, {r1, r2}, 1, {"delta", "text"}, 0),
    Of({r1, r2}, {r1}, 1, {"delta"}, 1),
    Of({r1, r2}, {r1, r2}, 0, {}, 1),
    Of({r1, r2}, {}, 0, {}, 2),
    [Of({r1, r2, r3}, {}, 0, {}, 2) EXCEPT !.arrive = {r2}],
    Of({r1}, {r1}, 3, {"delta", "text", "call", "result"}, 1),
    Of({r1}, {r1}, 2, Kinds, 1),
    Of({r1}, {r1}, 3, Kinds, 0),
    Of({r2}, {r2}, 2, Kinds, 1),
    Of({r2}, {r2}, 3, Kinds, 0),
    Of({r1, r2, r3}, {r1}, 0, {}, 0) }
=============================================================================

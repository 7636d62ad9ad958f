---------------------------- MODULE ReplayWindow ----------------------------
(***************************************************************************)
(* SlidingReplayWindow (src/src/internal/replay.ts): the last windowSize   *)
(* distinct counters that were accepted.  A window of size 0 is disabled.  *)
(***************************************************************************)
EXTENDS Integers, Sequences

newWindow(size) == [windowSize |-> size, seen |-> {}, queue |-> <<>>]

check(w, ctr) == w.windowSize = 0 \/ ctr \notin w.seen

\* The oldest counter makes room when the queue is full.
evicted(w) ==
    IF Len(w.queue) >= w.windowSize
      THEN [w EXCEPT !.seen = @ \ {Head(w.queue)}, !.queue = Tail(@)]
      ELSE w

accept(w, ctr) ==
    IF w.windowSize = 0 \/ ctr \in w.seen
      THEN w
      ELSE LET v == evicted(w)
           IN  [v EXCEPT !.seen = @ \cup {ctr}, !.queue = Append(@, ctr)]

clear(w) == [w EXCEPT !.seen = {}, !.queue = <<>>]
=============================================================================

------------------------------- MODULE MCReplay -------------------------------
(* Small strategy-lab requests, for TLC. *)
EXTENDS Replay

Bar(o, h, l, c) == [open |-> o, high |-> h, low |-> l, close |-> c]

\* Candles inside the levels, touching the stop, the target or both, and
\* opening beyond each of them.
Bars == {Bar(3, 3, 3, 3), Bar(3, 4, 2, 4), Bar(3, 6, 3, 5), Bar(4, 4, 1, 2),
         Bar(3, 5, 2, 3), Bar(1, 2, 1, 2), Bar(6, 6, 4, 5)}

Sides == {[side |-> "LONG", stop_loss |-> 2, target |-> 5],
          [side |-> "SHORT", stop_loss |-> 5, target |-> 2],
          [side |-> "LONG", stop_loss |-> 1, target |-> 6]}

Signals ==
  {[after |-> n, side |-> x.side, stop_loss |-> x.stop_loss, target |-> x.target] :
     n \in 0 .. 2, x \in Sides}

ConfigOf(slippage, hold) ==
  [initial_capital |-> 10, quantity |-> 1, slippage_points |-> slippage,
   cost_rate |-> 1, max_holding_bars |-> hold]

NoWalk == [enabled |-> FALSE, train_size |-> 1, test_size |-> 1, step_size |-> 1]

\* Replays of up to two signals on two or three candles.
Replays ==
  {[candles |-> cs, signals |-> ss, config |-> c, walk_forward |-> NoWalk] :
     cs \in [1 .. 2 -> Bars] \cup [1 .. 3 -> Bars],
     ss \in [1 .. 1 -> Signals] \cup [1 .. 2 -> Signals],
     c \in {ConfigOf(0, 3), ConfigOf(1, 2)}}

\* Walk-forward requests of any small sizes, on candles that do not matter.
Walks ==
  {[candles |-> [k \in 1 .. n |-> Bar(3, 3, 3, 3)], signals |-> << >>,
    config |-> ConfigOf(0, 3),
    walk_forward |-> [enabled |-> TRUE, train_size |-> tr, test_size |-> te, step_size |-> st]] :
     n \in 3 .. 9, tr \in 0 .. 3, te \in 1 .. 3, st \in -1 .. 3}

MCRequests == Replays \cup Walks
=============================================================================

--------------------------- MODULE MCTimerWheel ---------------------------
(* A wheel of three slots with a loop timer shorter than a turn, a limit     *)
(* timer that fires twice, longer than a turn, and a delay timer of exactly  *)
(* one turn, two of them of the same module; and a delay timer a little      *)
(* longer than a turn by itself.                                             *)
EXTENDS TimerWheel

Token == << "cluster", 1 >>
Update == << "cluster", 2 >>
Item == << "item", 3 >>

MCTimers == {Token, Update, Item}
MCKind == [t \in MCTimers |-> CASE t = Token -> "loop" [] t = Item -> "limit" [] OTHER -> "delay"]
MCTicks == [t \in MCTimers |-> CASE t = Token -> 2 [] t = Item -> 7 [] OTHER -> 3]
MCCount == [t \in MCTimers |-> IF t = Item THEN 2 ELSE 1]

OneTimer == {Item}
OneKind == [t \in OneTimer |-> "delay"]
OneTicks == [t \in OneTimer |-> 4]
OneCount == [t \in OneTimer |-> 1]
=============================================================================

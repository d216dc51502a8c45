----------------------------- MODULE MCJudgePass ----------------------------
(* Instances of JudgePass for TLC. *)
EXTENDS JudgePass, TLC

CONSTANTS root, judge, guest, near, far, t1, t2

MCUser     == {root, judge, guest}
MCEmail    == MCUser
MCAddr     == {near, far}
MCDistinct == {far}
MCThread   == {t1, t2}

Kinds == {"login", "request", "logout", "fault", "bootstrap", "tick", "restart", "redeem"}
Zero  == [f \in Kinds |-> 0]

\* Each budget bounds one kind of scenario; TLC explores all of them.
MCBudgets ==
    { \* two administrators act on each other
      [Zero EXCEPT !.bootstrap = 2, !.login = 2, !.request = 3],
      \* sign-ins and password changes overtake one another, after an upgrade
      [Zero EXCEPT !.bootstrap = 1, !.login = 3, !.request = 1, !.restart = 1, !.fault = 1],
      [Zero EXCEPT !.bootstrap = 1, !.login = 3, !.request = 2],
      \* guessing
      [Zero EXCEPT !.login = 4, !.tick = 2],
      [Zero EXCEPT !.bootstrap = 1, !.login = 3, !.tick = 2],
      \* passes, the switch, and an account made under the same name
      [Zero EXCEPT !.bootstrap = 1, !.login = 1, !.request = 1, !.redeem = 2],
      [Zero EXCEPT !.redeem = 3, !.tick = 1],
      \* a pass until it closes
      [Zero EXCEPT !.login = 1, !.request = 1, !.logout = 1, !.redeem = 1, !.tick = 4,
                   !.restart = 1] }

Symmetry == Permutations(MCThread)
============================================================================

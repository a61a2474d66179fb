------------------------------- MODULE MCBall -------------------------------
(* The balls on small sets of obstacles, for TLC.                          *)
EXTENDS Ball

\* The last square and the first rectangle.
SomeObstacles == {17, 18}
OneObstacle == {18}

AllKeys == {0, Left, Right}

\* Keys with which no ball reaches the empty entry of its table.
RightKey == {0, Right}
=============================================================================

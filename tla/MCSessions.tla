------------------------------ MODULE MCSessions ------------------------------
(* Two tabs of a browser, three calls: two of a tab that can share a refresh,  *)
(* and one of the other tab. A smaller instance has one tab.                   *)
EXTENDS Sessions

CONSTANTS t1, t2, c1, c2, c3, m1, m2

MCMe == [t \in Tab |-> IF t = t1 THEN m1 ELSE m2]
MCOwner == [c \in Request |-> IF c \in {c3, m2} THEN t2 ELSE t1]

\* two calls of one tab share a refresh, a call of the other tab races it; a
\* user signs in again; answers are lost, tabs reloaded; a page is opened;
\* sessions end and the account is deactivated
MCPlans == {
    [opening |-> {}, calls |-> {c1, c2, c3}, logins |-> 0, logouts |-> 0, disturbances |-> 0, ends |-> 0],
    [opening |-> {}, calls |-> {c3}, logins |-> 1, logouts |-> 1, disturbances |-> 0, ends |-> 0],
    [opening |-> {}, calls |-> {c1, c3}, logins |-> 0, logouts |-> 1, disturbances |-> 0, ends |-> 0],
    [opening |-> {}, calls |-> {c1, c2}, logins |-> 0, logouts |-> 0, disturbances |-> 1, ends |-> 0],
    [opening |-> {}, calls |-> {c1, c3}, logins |-> 0, logouts |-> 0, disturbances |-> 1, ends |-> 0],
    [opening |-> {t1}, calls |-> {c1}, logins |-> 0, logouts |-> 0, disturbances |-> 1, ends |-> 0],
    [opening |-> {}, calls |-> {c1}, logins |-> 1, logouts |-> 1, disturbances |-> 0, ends |-> 1]}

\* one tab, whose page is being opened, and one call; nothing goes wrong
OpeningPlans == {
    [opening |-> {t1}, calls |-> {c1}, logins |-> 0, logouts |-> 0, disturbances |-> 0, ends |-> 0]}
===============================================================================

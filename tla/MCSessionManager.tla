--------------------------- MODULE MCSessionManager ---------------------------
(* Small instances of SessionManager. *)
EXTENDS SessionManager, TLC

CONSTANTS t1, t2, c1, c2, c3, u1, u2

TwoTabs == [c \in Call |-> IF c = c2 THEN t2 ELSE t1]

\* Two tabs, each with its caller, are interchangeable.
Swap == {t1 :> t1 @@ t2 :> t2 @@ c1 :> c1 @@ c2 :> c2,
         t1 :> t2 @@ t2 :> t1 @@ c1 :> c2 @@ c2 :> c1}

\* A browser with locks and one session, whose messages may be late.
WithLocks == [locks |-> TRUE, channel |-> TRUE, prompt |-> FALSE, logout |-> TRUE,
              fail |-> FALSE, update |-> FALSE, lag |-> 0, grace |-> 1, time |-> 1,
              rows |-> 3, families |-> 1,
              returning |-> {u1}, users |-> {u2}, calls |-> {c1, c2}]

\* The same browser, with the session of one user there and another signing in, for as
\* long as no token expires.
Strangers == [WithLocks EXCEPT !.time = 0, !.rows = 4, !.families = 2]

\* A slow device clock and one sign-in, long enough for two refreshes of each tab.
SlowClock == [WithLocks EXCEPT !.prompt = TRUE, !.lag = 1, !.time = 2, !.rows = 5]

\* An old browser: no locks, but tabs quicker than the grace period.
NoLocks == [WithLocks EXCEPT !.locks = FALSE, !.logout = FALSE, !.lag = 1, !.grace = 2,
                             !.rows = 4]

\* A network that loses requests.
Unreliable == [WithLocks EXCEPT !.prompt = TRUE, !.fail = TRUE]

\* One tab that two users sign in to, one after the other, and change their profiles in.
Visitors == [WithLocks EXCEPT !.channel = FALSE, !.update = TRUE, !.lag = 1, !.rows = 4,
                              !.families = 2, !.returning = {}, !.users = {u1, u2}, !.calls = {c1, c3}]

Browsers == {WithLocks, Strangers, SlowClock, NoLocks}
Pages    == {Unreliable, Visitors}
=============================================================================

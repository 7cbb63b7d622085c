-------------------------- MODULE MCFrontendProxy --------------------------
EXTENDS FrontendProxy, TLC
MCSymmetry == Permutations(Client)

\* What can still make a difference to a backend's flag, to Run or to another
\* client: nothing of a client whose handler has returned, and of an attempt
\* that was abandoned only whether its copiers still use the client's connection.
Active(state) == state = "copy"
SeenTry(c, a) ==
    LET t == try[c][a] IN
    IF a < attempt[c] \/ at[c] = "judge"
    THEN <<Active(t.up), Active(t.down) /\ t.got>>
    ELSE <<t>>
SeenClient(c) ==
    IF at[c] = "done" THEN <<>>
    ELSE <<attempt[c], tried[c], client[c], unread[c], sent[c],
           [a \in Attempt |-> SeenTry(c, a)]>>
MCView == <<run, ctxDone, poolVars, alive, faults, at,
            [c \in Client |-> SeenClient(c)]>>
=============================================================================

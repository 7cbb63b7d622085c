-------------------------- MODULE MCRotationEngine --------------------------
EXTENDS RotationEngine
\* What is left in an object nothing points to makes no difference, nor do the
\* flags of one whose context is done.
Seen(b) == IF Garbage(b) THEN <<>>
           ELSE IF Done(b) THEN <<inst[b].port, inst[b].ws, inst[b].ident>>
           ELSE <<inst[b]>>
MCView == <<pool, [b \in Backend |-> Seen(b)],
            disk, cleaning, lifeVars, threadVars, endVars, failures>>
=============================================================================

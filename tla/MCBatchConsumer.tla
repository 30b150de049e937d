--------------------------- MODULE MCBatchConsumer ---------------------------
(* Two messages in batches of two; Build refuses the last two requests.    *)
EXTENDS BatchConsumer

CONSTANTS m1, m2

S(t, m, f, n, p) == [timeout |-> t, manual |-> m, timer |-> f, size |-> n, prefetch |-> p]

MCMsgs == {m1, m2}
MCSetups == {S("none", "none", TRUE, 0, 0), S("requeue", "none", TRUE, 2, 3),
             S("drop", "batch", FALSE, 2, 2), S("none", "each", TRUE, 2, 3),
             S("none", "none", FALSE, 2, 1), S("none", "none", FALSE, 4, 0)}
=============================================================================

---------------------------- MODULE MCConnection -----------------------------
(***************************************************************************)
(* Small instances of Connection: two publisher sockets and one consumer    *)
(* socket, under options Dial accepts and options it must refuse.           *)
(***************************************************************************)
EXTENDS Connection

CONSTANT w1

NoWaiter == {}
OneWaiter == {w1}

Fits == [frameMax |-> 4096, pubConns |-> 2, conConns |-> 1, channelPoolSize |-> 8,
         channelMax |-> 0, addrs |-> <<"amqps", "amqps">>, external |-> TRUE,
         tls |-> "certificate", connectDelay |-> TRUE]

Served == {Fits, [Fits EXCEPT !.channelPoolSize = 11, !.connectDelay = FALSE,
                           !.external = FALSE, !.addrs = <<"amqps", "">>]}

Refused == {[Fits EXCEPT !.frameMax = 4095], [Fits EXCEPT !.frameMax = 104857601],
            [Fits EXCEPT !.pubConns = 0], [Fits EXCEPT !.conConns = 0],
            [Fits EXCEPT !.channelPoolSize = 0], [Fits EXCEPT !.channelPoolSize = 4097],
            [Fits EXCEPT !.channelMax = 7], [Fits EXCEPT !.addrs = <<"amqps", "amqp">>],
            [Fits EXCEPT !.tls = "none"], [Fits EXCEPT !.addrs = <<>>]}

SomeOptions == Served \cup Refused
ValidOptions == {Fits}
=============================================================================

-------------------------- MODULE MCRpcParkingSim --------------------------
\* The value of MaxLines, which the configuration cannot write.
EXTENDS RpcParkingSim

CONSTANTS a, b

MCClients == {a, b}
MCMaxLines == [c \in MCClients |-> IF c = a THEN 2 ELSE 1]
=============================================================================

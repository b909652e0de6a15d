------------------------------ MODULE MCPortIO ------------------------------
EXTENDS PortIO
Out(a, v) == [via |-> "trap", dir |-> "out", adr |-> a, len |-> Len(v), val |-> v]
In(a, n)  == [via |-> "trap", dir |-> "in", adr |-> a, len |-> n, val |-> <<>>]
User(o)   == [o EXCEPT !.via = "ioctl"]

PortOps == {Out(1, <<6, 7>>), Out(2, <<8>>), In(2, 1), User(In(1, 1))}
LongOps == {Out(0, <<5>>), Out(0, <<6, 7, 8, 9>>), In(0, 1), In(0, 4),
            User(Out(0, <<8>>))}

Caches == {{}, {"ReadCache0", "ReadCache2"}, {"WriteCache"}}
WriteCacheOrNot == {{}, {"WriteCache"}}
=============================================================================

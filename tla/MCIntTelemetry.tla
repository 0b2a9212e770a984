--------------------------- MODULE MCIntTelemetry ---------------------------
EXTENDS IntTelemetry

\* An INT header with n records and total length t, as a host builds it.
IntOf(n, t) == [opt |-> "int", num |-> n, ihl |-> 6 + n, optLen |-> 4 + 4 * n,
              totLen |-> t, wire |-> t, sum |-> "good"]
Plain == [IntOf(0, 100) EXCEPT !.ihl = 5]
Options == [IntOf(0, 100) EXCEPT !.opt = "other", !.ihl = 7]

\* Headers each verify statement refuses, a wrong checksum, and padding.
Malformed == {
    [IntOf(0, 100) EXCEPT !.ihl = 4],
    [Plain EXCEPT !.totLen = 19],
    [Plain EXCEPT !.wire = 99],
    [IntOf(9, 100) EXCEPT !.num = 10],
    [IntOf(9, 100) EXCEPT !.num = 10, !.optLen = 44],
    [IntOf(1, 100) EXCEPT !.num = 2],
    [IntOf(2, 100) EXCEPT !.ihl = 9],
    [IntOf(0, 100) EXCEPT !.optLen = 8],
    [IntOf(1, 100) EXCEPT !.sum = "bad"]}
Lengths == {100, 65528, 65531, 65532, 65535}

MCFormats ==
    {IntOf(n, t) : n \in {0, 1, 7, 8, 9}, t \in Lengths} \cup Malformed
        \cup {Plain, Options, [Plain EXCEPT !.wire = 110]}
MCTtls == {0, 1, 2, 3, 4, 14}

MCEarlyFormats == {IntOf(0, 100), IntOf(8, 100), Plain}
MCEarlyTtls == {2, 6}
=============================================================================

------------------------------ MODULE MCProtocol ------------------------------
\* Values for TLC: packets of 0, 1, 2 and 6 points of version 1; a newer one
\* with a longer header, a wider point and the trailer; and four that cannot be
\* used: by version, by number of points, by flag and by length of the header.
EXTENDS Protocol

H(version, header, flags, count, stride) ==
    [version |-> version, header |-> header, flags |-> flags, count |-> count, stride |-> stride]

MCLayouts ==
    [v0 |-> H(1, 5, {}, 0, 1), v1 |-> H(1, 5, {}, 1, 1), v2 |-> H(1, 5, {}, 2, 1),
     v6 |-> H(1, 5, {}, 6, 1),
     wide |-> H(1, 6, {"crc"}, 2, 2), next |-> H(2, 5, {}, 2, 1), huge |-> H(1, 5, {}, 40, 1),
     flag |-> H(1, 5, {"new"}, 2, 1), long |-> H(1, 7, {}, 2, 1)]
MCNewer == {"wide", "next", "huge", "flag", "long"}

\* One that ends like a magic begins, and one that is longer than a packet may
\* be and spells a packet of its own.
MCScans == {<<"p", "none">>, <<"1", "A">>, <<>>, <<"1", "A", "E", "B", "v1", "p", "q">>}
================================================================================

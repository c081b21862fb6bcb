----------------------------- MODULE MCNetwork -----------------------------
EXTENDS Network
CONSTANTS t1, m1, bad

Make(test, main, net, version) ==
    [test |-> test, main |-> main, net |-> net, version |-> version]

\* An application of the main network, and one of the second test network.
MCDefaults == {Make(t1, m1, "main", 3), Make(t1, NoConfig, "test", 2)}

\* No settings yet, or those of an older application.
MCFirstSaved == {Nothing, Make(t1, NoConfig, "test", 0)}

MCOneDefault == {Make(t1, m1, "main", 3)}
=============================================================================

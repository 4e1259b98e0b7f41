-------------------------- MODULE MCWaylandSurface --------------------------
EXTENDS WaylandSurface

MCSource == <<2, 2>>
MCSizes == {<<4, 4>>, <<6, 4>>, <<4, 6>>, <<0, 0>>}
S(f, c, t, o, l) == [frames |-> f, configures |-> c, touches |-> t, others |-> o,
                     losses |-> l]
MCScenarios == {S(4, 1, 0, 1, 0), S(2, 2, 0, 1, 0), S(2, 1, 0, 1, 1),
                S(2, 1, 1, 1, 0), S(2, 1, 1, 0, 1), S(1, 1, 2, 0, 1)}
=============================================================================

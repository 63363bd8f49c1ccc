---------------------------- MODULE MCWireCodec ----------------------------
(* Varints of at most 3 bytes (15 bits), so that timestamps reach both     *)
(* ends of their width and 128 needs two bytes.  Requests take every       *)
(* string field empty or one byte; the extras are one unknown field of     *)
(* each wire type, a group holding a field included.                       *)
EXTENDS WireCodec

MCTimestamps == {0, 1, 127, 128, 2^14 - 1, -1, -(2^14)}

MCMetas == [tenant: {<<>>, <<116>>}, rid: {<<>>, <<114>>}, ts: MCTimestamps,
            sign: {<<>>, <<115>>}, trace: {<<>>}]

MCRequests == [meta: MCMetas, f2: {<<>>, <<65>>}, f3: {<<>>, <<66>>}]

MCEventTypes == {0, 2, 2^7 - 1, -(2^7)}

\* events with tenant, type, msg_id, data, timestamp, sign and trace set or not
MCMqEvents ==
    {[k \in 1..12 |-> CASE k = 1 -> t [] k = 2 -> et [] k = 3 -> m [] k = 8 -> d
                        [] k = 9 -> ts [] k = 11 -> s [] k = 12 -> tr [] OTHER -> <<>>] :
        t \in {<<>>, <<116>>}, et \in MCEventTypes, m \in {<<>>, <<109>>},
        d \in {<<>>, <<1, 2>>}, ts \in MCTimestamps, s \in {<<>>, <<115>>},
        tr \in {<<>>, <<114>>}}

\* field 13 is unknown to every message: a varint, a fixed32, a fixed64,
\* a bytes field, and a group holding field 14
MCExtras == {<<>>, <<104, 1>>, <<109, 1, 2, 3, 4>>, <<105, 1, 2, 3, 4, 5, 6, 7, 8>>,
             <<106, 1, 65>>, <<107, 112, 0, 108>>}

=============================================================================

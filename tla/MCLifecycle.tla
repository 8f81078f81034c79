---------------------------- MODULE MCLifecycle ----------------------------
(* Lifecycle in CI mode, where every way to end is possible, and every     *)
(* setting with up to two ports and one of five paths.                     *)
EXTENDS Lifecycle

MCPort == UNION {{<<[listen |-> a, port |-> 80]>>, <<[listen |-> a, port |-> 80],
                   [listen |-> b, port |-> 443]>>} : a \in Listen, b \in Listen}

\* "", "ws", "/ws", "/a&b+c %#" and one that is not ASCII.
MCPath == {<<>>, <<119, 115>>, <<47, 119, 115>>, <<47, 97, 38, 98, 43, 99, 32, 37, 35>>,
           <<47, 195, 188>>}

MCEnvironment ==
    [PORT : MCPort \cup {<<>>}, FAKE_SNI : {{}, {""}, {"a", "b"}}, WS_PATH : MCPath,
     WS_HOST : {"", DefaultHost, FixedHost}, TRANSPORT : {"", "ws", "xhttp", "h2", "grpc"},
     XHTTP_MODE : {"", "packet-up", "stream"}, TUNNEL_TOKEN : {"", "token"}]

=============================================================================

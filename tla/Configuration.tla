--------------------------- MODULE Configuration ---------------------------
(***************************************************************************)
(* What the settings of .env become: the configuration of internal/config, *)
(* and what four parts make of it, each on its own: xraycore.BuildConfig   *)
(* the inbounds, tunnel.Launch the origin cloudflared is given, main.go    *)
(* the address of the liveness probe, linkgen.BuildLinks the links clients *)
(* import.  Nothing in the code compares them.                             *)
(*                                                                         *)
(* No state: functions of a setting.  Names are values, and a path is its  *)
(* bytes; a PORT or FAKE_SNI is its entries, the blank ones, which the     *)
(* parsers skip, left out.  IPv6 is one address, with and without the      *)
(* brackets.                                                               *)
(***************************************************************************)
EXTENDS Integers, Sequences

CONSTANTS
    Environment,  \* the settings .env may hold
    QuickHost,    \* the hostname cloudflared announces for a quick tunnel
    Unusable      \* what is no configuration, no host, no link

DefaultHost == "trycloudflare.com"
FixedHost == "tunnel.example.io"   \* any other hostname in WS_HOST
Mode == {"auto", "packet-up", "stream-up", "stream-one"}

\* How a listen address is written; "bare" is a port with no address, and in a
\* "wrong" entry the port is not a number.
Listen == {"bare", "0.0.0.0", "127.0.0.1", "::1", "[::1]", "wrong"}
Entry == [listen : Listen, port : Nat]

Byte == 0..255

Setting == [PORT : Seq(Entry), FAKE_SNI : SUBSET STRING, WS_PATH : Seq(Byte), WS_HOST : STRING,
            TRANSPORT : STRING, XHTTP_MODE : STRING, TUNNEL_TOKEN : {"", "token"}]

ASSUME ConfigurationAssumption ==
    /\ Environment \subseteq Setting
    /\ QuickHost \notin {"", DefaultHost, FixedHost} /\ Unusable # QuickHost
    /\ \A env \in Environment : env.WS_HOST \in {"", DefaultHost, FixedHost}

-----------------------------------------------------------------------------
(* internal/config.                                                        *)

\* The last colon separates the port; a bare port listens everywhere.
Inbound(entry) ==
    [ListenIP |-> IF entry.listen = "bare" THEN "0.0.0.0" ELSE entry.listen, Port |-> entry.port]

Parsable(entries) == Len(entries) # 0 /\ \A k \in DOMAIN entries : entries[k].listen # "wrong"

ParsePorts(entries) == [k \in DOMAIN entries |-> Inbound(entries[k])]

\* Mutant: the wildcard address is passed on.
TunnelTargetAsListed(ports) == [ip |-> ports[1].ListenIP, port |-> ports[1].Port]

\* cloudflared is given the first inbound; it cannot dial the wildcard.
TunnelTarget(ports) ==
    [ip |-> IF ports[1].ListenIP = "0.0.0.0" THEN "127.0.0.1" ELSE ports[1].ListenIP,
     port |-> ports[1].Port]

\* Aliases, a default for what is unknown, a path that starts with a slash.
Transport(env) == IF env.TRANSPORT \in {"xhttp", "h2", "splithttp"} THEN "xhttp" ELSE "websocket"
XHTTPMode(env) == IF env.XHTTP_MODE \in Mode THEN env.XHTTP_MODE ELSE "auto"
Slash == 47
WSPath(env) == IF Len(env.WS_PATH) > 0 /\ env.WS_PATH[1] = Slash THEN env.WS_PATH
               ELSE <<Slash>> \o env.WS_PATH

\* An entry may carry a remark, but not be a remark alone; the remarks, which
\* label the links, are left out.
UsableSNIList(snis) == snis # {} /\ "" \notin snis

fromEnv(env) ==
    IF Parsable(env.PORT) /\ UsableSNIList(env.FAKE_SNI)
    THEN [Ports |-> ParsePorts(env.PORT), Target |-> TunnelTarget(ParsePorts(env.PORT)),
          FakeSNI |-> env.FAKE_SNI, WSPath |-> WSPath(env), WSHost |-> env.WS_HOST,
          Transport |-> Transport(env), XHTTPMode |-> XHTTPMode(env),
          TunnelToken |-> env.TUNNEL_TOKEN]
    ELSE Unusable

-----------------------------------------------------------------------------
(* What the parts make of it.                                              *)

Network(cfg) == IF cfg.Transport = "xhttp" THEN "xhttp" ELSE "ws"
StreamMode(cfg) == IF cfg.Transport = "xhttp" THEN cfg.XHTTPMode ELSE "none"

\* xray-core's parser drops the brackets.
Listener(cfg, p) ==
    [listen |-> IF p.ListenIP = "[::1]" THEN "::1" ELSE p.ListenIP, port |-> p.Port,
     network |-> Network(cfg), path |-> cfg.WSPath, mode |-> StreamMode(cfg)]

\* One VLESS inbound per port.
BuildConfig(cfg) == {Listener(cfg, cfg.Ports[k]) : k \in DOMAIN cfg.Ports}

\* What config.yml tells a named tunnel: one ingress rule, for WS_HOST.
WriteNamedTunnelConfig(wsHost, target, http2Origin) ==
    [hostname |-> wsHost, url |-> target, http2Origin |-> http2Origin]

\* Mutant: the flag is forgotten for quick tunnels.
LaunchWithoutHTTP2(cfg) ==
    IF cfg.TunnelToken # ""
    THEN WriteNamedTunnelConfig(cfg.WSHost, cfg.Target, cfg.Transport = "xhttp")
    ELSE [hostname |-> QuickHost, url |-> cfg.Target, http2Origin |-> FALSE]

\* A quick tunnel is told on the command line, and gets a hostname.
Launch(cfg) ==
    IF cfg.TunnelToken # ""
    THEN WriteNamedTunnelConfig(cfg.WSHost, cfg.Target, cfg.Transport = "xhttp")
    ELSE [hostname |-> QuickHost, url |-> cfg.Target, http2Origin |-> cfg.Transport = "xhttp"]

probeAddr(cfg) ==
    [ip |-> IF cfg.Ports[1].ListenIP = "0.0.0.0" THEN "127.0.0.1" ELSE cfg.Ports[1].ListenIP,
     port |-> cfg.Ports[1].Port]

\* Mutant: WS_HOST is always preferred.
LinkHostAlwaysFixed(cfg, tunnelHost) == IF cfg.WSHost # "" THEN cfg.WSHost ELSE tunnelHost

\* WS_HOST wins unless it was left at its default.
LinkHost(cfg, tunnelHost) ==
    IF cfg.WSHost \notin {"", DefaultHost} THEN cfg.WSHost ELSE tunnelHost

\* Mutant: url.PathEscape, which leaves the "&", as the comment on safeQuote
\* warns.
isPyUnreservedOrAnd(c) == c \in 65..90 \cup 97..122 \cup 48..57 \cup {95, 46, 45, 126, 38}

\* Letters, digits and "_.-~".
isPyUnreserved(c) == c \in 65..90 \cup 97..122 \cup 48..57 \cup {95, 46, 45, 126}

\* The bytes of a link that stand for something else: "%", "+", "&" and "#".
Percent == 37
Plus == 43
Ends == {38, 35}

\* The bytes of "0123456789ABCDEF".
hexDigit(n) == IF n < 10 THEN 48 + n ELSE 55 + n

\* Byte by byte, each a piece of the result: itself or %XX.  As "%" never
\* stays, the pieces can be told apart in what they amount to.
safeQuote(text) ==
    [k \in DOMAIN text |->
        IF isPyUnreserved(text[k]) THEN <<text[k]>>
        ELSE <<Percent, hexDigit(text[k] \div 16), hexDigit(text[k] % 16)>>]

Link(cfg, tunnelHost, sni, port) ==
    [address |-> sni, port |-> port, security |-> IF port = 443 THEN "tls" ELSE "none",
     type |-> Network(cfg), path |-> safeQuote(cfg.WSPath), host |-> LinkHost(cfg, tunnelHost),
     mode |-> StreamMode(cfg)]

\* Two links per entry of FAKE_SNI: TLS on 443, no TLS on 80.
BuildLinks(cfg, tunnelHost) ==
    UNION {{Link(cfg, tunnelHost, sni, port) : port \in {443, 80}} : sni \in cfg.FakeSNI}

-----------------------------------------------------------------------------
(* What a link needs.                                                      *)

\* What a client reads back: %XX is a byte, "+" a space, and the value is cut
\* short by the next parameter or the fragment.
HexValue(digit) == IF digit < 58 THEN digit - 48 ELSE digit - 55
Unquote(pieces) ==
    [k \in DOMAIN pieces |->
        LET piece == pieces[k] IN
        CASE Len(piece) = 3 -> 16 * HexValue(piece[2]) + HexValue(piece[3])
          [] Len(piece) = 1 /\ piece[1] \in Ends -> Unusable
          [] Len(piece) = 1 /\ piece[1] = Plus -> 32
          [] OTHER -> piece[1]]

\* Can "ip:port" be dialled and does it reach that listener?  An IPv6 address
\* needs its brackets there.
Dials(addr, inbound) ==
    /\ addr.port = inbound.port
    /\ \/ addr.ip = "127.0.0.1" /\ inbound.listen \in {"127.0.0.1", "0.0.0.0"}
       \/ addr.ip = "[::1]" /\ inbound.listen = "::1"

\* The edge routes a hostname to the tunnel that serves it (the default is no
\* hostname anyone can own), and the tunnel its requests to the inbound.
Reaches(link, cfg) ==
    /\ link.host = Launch(cfg).hostname /\ link.host \notin {"", DefaultHost}
    /\ \E inbound \in BuildConfig(cfg) :
          /\ Dials(Launch(cfg).url, inbound)
          /\ inbound.network = link.type /\ inbound.path = Unquote(link.path)
          /\ inbound.mode = link.mode
          /\ Launch(cfg).http2Origin <=> inbound.network = "xhttp"

\* A token goes with a hostname of one's own, and no token with none.
HostMatchesToken(cfg) == cfg.TunnelToken # "" <=> cfg.WSHost \notin {"", DefaultHost}

(* Whatever loads gives links that work, all of them, over either          *)
(* transport, with the aliases, the defaults, any number of inbounds and   *)
(* any bytes in the path, which comes out of the link as it is configured, *)
(* with two exceptions, in which none works: WS_HOST names a hostname and  *)
(* a quick tunnel was started all the same (provisioning failed), or a     *)
(* token came without one; and a first listen address that is IPv6 without *)
(* its brackets.  The liveness probe dials what cloudflared dials.         *)
LinksReachInbound ==
    \A env \in Environment :
       LET cfg == fromEnv(env) IN
       cfg # Unusable =>
          /\ \A link \in BuildLinks(cfg, Launch(cfg).hostname) :
                Reaches(link, cfg) <=> HostMatchesToken(cfg) /\ cfg.Ports[1].ListenIP # "::1"
          /\ probeAddr(cfg) = Launch(cfg).url
=============================================================================

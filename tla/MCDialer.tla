------------------------------ MODULE MCDialer ------------------------------
EXTENDS Dialer

CONSTANTS k1, k2

TwoCalls == {k1, k2}

(* Each protocol; one of them through the proxy, the others directly.      *)
EachProtocol ==
    {[protocol |-> "shadowsocks", proxied |-> FALSE],
     [protocol |-> "vmess+tls+grpc", proxied |-> TRUE],
     [protocol |-> "juicity", proxied |-> FALSE]}

=============================================================================

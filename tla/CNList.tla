------------------------------- MODULE CNList -------------------------------
(***************************************************************************)
(* The list of Chinese networks that says which servers are dialled        *)
(* through CNProxy.  It is compiled in, and downloaded anew every five     *)
(* days, line by line, into a table that then takes the old one's place.   *)
(*                                                                         *)
(* A read error counts as the end of the file.  A body cut short within a  *)
(* line may leave one that is still good, for a network far too wide:      *)
(* 1.0.32.0/1 for 1.0.32.0/19.                                             *)
(***************************************************************************)
EXTENDS Integers, FiniteSets

CONSTANTS
    Editions,           \* of the list; 0 is the one compiled in
    Length,             \* lines of an edition, each of them one network
    AddressesOf         \* AddressesOf[h]: what a host resolves to; an address
                        \* is the number of its network, or 0 outside China

ASSUME CNListAssumption ==
    /\ Editions \subseteq Nat /\ 0 \in Editions
    /\ Length \in Nat \ {0}
    /\ \A h \in DOMAIN AddressesOf : AddressesOf[h] \subseteq 0..Length

VARIABLES
    table,              \* t: the networks in use
    nt,                 \* nt: what has been read of the download
    reading,            \* the edition that is downloaded, or -1
    cnProxy,            \* the scheme of CNProxy, if it is configured
    torn                \* history: the list in use had come short

cnVars == <<table, nt, reading, cnProxy, torn>>

Network(edition, line) == [of |-> edition, line |-> line, wide |-> FALSE]
ChinaIPList == {Network(0, n) : n \in 1..Length}
Whole(edition) == {Network(edition, n) : n \in 1..Length}

CNListInit ==
    /\ table = ChinaIPList
    /\ nt = {}
    /\ reading = -1
    /\ cnProxy \in {"", "https", "socks5", "file"}
    /\ torn = FALSE

(* The list is there; otherwise the next tick is waited for.               *)
Get ==
    /\ reading = -1
    /\ reading' \in Editions
    /\ nt' = {}
    /\ UNCHANGED <<table, cnProxy, torn>>

(* Lines are read in their order.                                          *)
ThisLine == Cardinality(nt) + 1

(* Variant: lines go into the table that is in use.                        *)
ReadInPlace ==
    /\ reading # -1
    /\ ThisLine <= Length
    /\ nt' = nt \cup {Network(reading, ThisLine)}
    /\ table' = IF ThisLine = 1 THEN nt' ELSE table \cup nt'
    /\ UNCHANGED <<reading, cnProxy, torn>>

Read ==
    /\ reading # -1
    /\ ThisLine <= Length
    /\ nt' = nt \cup {Network(reading, ThisLine)}
    /\ UNCHANGED <<table, reading, cnProxy, torn>>

Install(networks) ==
    /\ table' = networks
    /\ torn' = (networks # Whole(reading))
    /\ reading' = -1
    /\ nt' = {}
    /\ UNCHANGED cnProxy

EndOfFile ==
    /\ reading # -1
    /\ \/ Install(nt)
       \/ /\ ThisLine <= Length
          /\ Install(nt \cup {[Network(reading, ThisLine) EXCEPT !.wide = TRUE]})

(* What is left of a line is no network.                                   *)
BadLine ==
    /\ reading # -1
    /\ ThisLine <= Length
    /\ reading' = -1
    /\ nt' = {}
    /\ UNCHANGED <<table, cnProxy, torn>>

CNListNext == Get \/ Read \/ EndOfFile \/ BadLine

CNListSpec == CNListInit /\ [][CNListNext]_cnVars

-----------------------------------------------------------------------------
IsChinaIPLookupTable(a) == \E e \in table : e.wide \/ e.line = a

(* The proxies of package proxy_http, registered with proxy.FromURL.       *)
DialerTypes ==
    [scheme \in {"http", "https"} |-> IF scheme = "https" THEN "tls" ELSE "direct"]

NewHTTPProxy(scheme) == [dials |-> "proxy", forward |-> DialerTypes[scheme]]

(* The proxies that FromURL knows itself dial the way they are given.      *)
Native == {"socks5", "socks5h"}
NewSOCKS5 == [dials |-> "proxy", forward |-> "direct"]

Straight == [dials |-> "server"]
NoDialer == [dials |-> "none"]

(* It is not set, or FromURL does not know what it is.                     *)
GetCNProxyDialer ==
    IF cnProxy \in DOMAIN DialerTypes THEN NewHTTPProxy(cnProxy)
    ELSE IF cnProxy \in Native THEN NewSOCKS5 ELSE NoDialer

(* The dialers a host may get: its name resolves to some of its addresses, *)
(* of which the first is taken, or does not.                               *)
ChooseDialer(h) ==
    IF GetCNProxyDialer = NoDialer THEN {Straight}
    ELSE {IF IsChinaIPLookupTable(a) THEN GetCNProxyDialer ELSE Straight :
            a \in AddressesOf[h]} \cup {Straight}

(* Lookups see one edition at any time, its first lines if not all of them,*)
(* however an update goes and whenever it fails.                           *)
TableIsOfOneList ==
    \E edition \in Editions, n \in 0..Length :
        /\ table \cap Whole(edition) = {Network(edition, m) : m \in 1..n}
        /\ \A e \in table \ Whole(edition) : e.wide /\ e.of = edition /\ e.line = n + 1
        /\ ~torn => table = Whole(edition)

(* So a host none of whose addresses are in China is never dialled through *)
(* the proxy, unless the list in use came short; nor is any without a      *)
(* CNProxy that can be used, and then as it wants to be.                   *)
ProxyIsForChina ==
    /\ TableIsOfOneList
    /\ \A h \in DOMAIN AddressesOf : \A dialer \in ChooseDialer(h) \ {Straight} :
         /\ dialer.forward = "tls" <=> cnProxy = "https"
         /\ torn \/ AddressesOf[h] \ {0} # {}

=============================================================================

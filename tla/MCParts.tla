------------------------------ MODULE MCParts ------------------------------
(***************************************************************************)
(* The parts that share no state: what a member of a chat meets (the code, *)
(* the subscription and its links, the feed), a server in the database,    *)
(* the DNS records, the locks, the list of Chinese networks.  Each         *)
(* behaviour moves one of them: part says which, and their states add up   *)
(* instead of multiplying.                                                 *)
(***************************************************************************)
EXTENDS Verification, Lines, Links, Feed, Registry, Records, Transactions, CNList,
        TLC

VARIABLE part

Resting(p, v) == part # p /\ UNCHANGED v

partVars ==
    <<part, verificationVars, linesVars, linksVars, feedVars, vars, recordsVars,
      transactionsVars, cnVars>>

PartsInit ==
    /\ part \in {"verification", "lines", "links", "feed", "registry",
                 "records", "transactions", "cnlist"}
    /\ VerificationInit
    /\ LinesInit
    /\ LinksInit
    /\ FeedInit
    /\ Init
    /\ RecordsInit
    /\ TransactionsInit
    /\ CNListInit
    /\ part = "links" \/ hop = Server
    /\ part = "registry" \/ ~up
    /\ part = "cnlist" \/ cnProxy = ""

PartsNext ==
    /\ UNCHANGED part
    /\ (part = "verification" /\ VerificationNext) \/ Resting("verification", verificationVars)
    /\ (part = "lines" /\ LinesNext) \/ Resting("lines", linesVars)
    /\ (part = "links" /\ LinksNext) \/ Resting("links", linksVars)
    /\ (part = "feed" /\ FeedNext) \/ Resting("feed", feedVars)
    /\ (part = "registry" /\ Next) \/ Resting("registry", vars)
    /\ (part = "records" /\ RecordsNext) \/ Resting("records", recordsVars)
    /\ (part = "transactions" /\ TransactionsNext) \/ Resting("transactions", transactionsVars)
    /\ (part = "cnlist" /\ CNListNext) \/ Resting("cnlist", cnVars)

(* A part that does not move must not be asked to: but for the feed, they  *)
(* are fair in their initial states as it is.  This is FeedFairness.       *)
FairFeed ==
    /\ \A r \in Rounds :
         /\ WF_feedVars(part = "feed" /\ ViewFeed(r))
         /\ WF_feedVars(part = "feed" /\ UpdateFeed(r))
    /\ WF_feedVars(part = "feed" /\ Day)

PartsSpec ==
    /\ PartsInit
    /\ [][PartsNext]_partVars
    /\ VerificationFairness
    /\ FairFeed
    /\ Fairness
    /\ RecordsFairness
    /\ TransactionsFairness

-----------------------------------------------------------------------------
(* Codes do not stay in their bucket, nor old entries in the feed.         *)
OldIsCleaned == CodesAreCleaned /\ OldAreDropped

-----------------------------------------------------------------------------
CONSTANTS c1, c2, chat1, chat2, f1, t1, t2, q1, q2, plain, tls, u1

TwoCodes == {c1, c2}
TwoChannels == {chat1, chat2}
OneForm == {f1}
TwoRounds == {t1, t2}
TwoSlots == {q1, q2}
OneAddress == {"a1"}
TheOthers == {"six", "name"}
TwoArguments == {plain, tls}
OneTLS == {tls}
OneUser == {u1}

(* Two servers and a relay; the second server and the relay have two hosts.*)
Hosting == 1 :> <<"a">> @@ 2 :> <<"b", "a">> @@ 3 :> <<"a", "b">>

(* Hosts of a link: an IPv4 address first, an IPv6 address, a name.        *)
LinkHosts ==
    {<<"1.2.3.4", "::1">>, <<"::1", "1.2.3.4">>, <<"example.org", "1.2.3.4">>}

(* Hashes in Base64, with a pad and without.                               *)
Padding == {<<"h1", "">>, <<"h2">>}

(* In China, abroad, a name of both, a name of nothing.                    *)
Resolving == "cn" :> {1} @@ "abroad" :> {0} @@ "both" :> {0, 2} @@ "nowhere" :> {}

=============================================================================

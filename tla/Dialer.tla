------------------------------- MODULE Dialer -------------------------------
(***************************************************************************)
(* A round of calls to servers: how a manager dials, writes and reads      *)
(* under a context, and how the round waits for all of its calls.          *)
(*                                                                         *)
(* DialContext lets a goroutine dial and returns when that, or the         *)
(* context, is over.  Both write its named results without a lock, so a    *)
(* load or a store of c and one of err are steps of their own here.  A     *)
(* value that is half written counts as nil: its use panics all the same.  *)
(***************************************************************************)
EXTENDS Integers

CONSTANTS
    Calls,
    Ways                \* protocols, each with the dialer it is used with

Protocols == {"shadowsocks", "vmess", "vmess+tls+grpc", "juicity"}

ASSUME DialerAssumption ==
    /\ Ways \subseteq [protocol : Protocols, proxied : BOOLEAN]
    /\ Ways # {}

VARIABLES
    call,           \* the calls, with their goroutines and sockets
    roundPc,        \* the round of TickUpdateBackground
    down            \* a panic has ended the program

dialerVars == <<call, roundPc, down>>

Dialing == {"storeC", "storeErr", "check", "select", "done"}
Returning == {"select", "ctxC", "ctxErr", "loadC", "loadErr"}
Talking == {"write", "head", "body"}
Ended == {"answered", "failed"}

NewCall ==
    [pc |-> "new",              \* the caller
     how |-> CHOOSE w \in Ways : TRUE,  \* its manager
     ctx |-> FALSE,             \* the context has ended
     dial |-> "none",           \* the goroutine that dials
     c |-> FALSE, err |-> FALSE,        \* DialContext's results: not nil
     gotC |-> FALSE, gotErr |-> FALSE,  \* as the caller has loaded them
     sock |-> "none",           \* the connection
     deadline |-> FALSE,        \* SetDeadline(now) has been called on it
     raced |-> FALSE]           \* history: the dial ended as the context did

DialerTypeOK ==
    /\ call \in [Calls ->
         [pc : {"new", "start", "connected"} \cup Returning \cup Talking \cup Ended,
          how : Ways, ctx : BOOLEAN,
          dial : {"none", "dial", "proxy", "over"} \cup Dialing,
          c : BOOLEAN, err : BOOLEAN, gotC : BOOLEAN, gotErr : BOOLEAN,
          sock : {"none", "open", "closed"}, deadline : BOOLEAN,
          raced : BOOLEAN]]
    /\ roundPc \in {"pinging", "committed"}
    /\ down \in BOOLEAN
    /\ \A k \in Calls : call[k].deadline => call[k].ctx

DialerInit ==
    /\ call = [k \in Calls |-> NewCall]
    /\ roundPc = "pinging"
    /\ down = FALSE

-----------------------------------------------------------------------------
Becomes(k, r) ==
    /\ ~down
    /\ call' = [call EXCEPT ![k] =
         [r EXCEPT !.raced = \/ @
                             \/ r.ctx /\ r.pc \in Returning /\ r.dial \in Dialing]]
    /\ UNCHANGED roundPc

Moves(k, r) == Becomes(k, r) /\ UNCHANGED down

Fails(k, x) == Moves(k, [x EXCEPT !.pc = "failed"])

(* The creators of managers: vmess wants a UUID for a password, juicity a  *)
(* hash that can be decoded.                                               *)
NewShadowsocks == {"start"}
NewVMess == {"start", "failed"}
NewJuicity == {"start", "failed"}

(* What each of them has registered.                                       *)
Mapper ==
    [protocol \in Protocols |->
        CASE protocol = "shadowsocks" -> NewShadowsocks
          [] protocol \in {"vmess", "vmess+tls+grpc"} -> NewVMess
          [] protocol = "juicity" -> NewJuicity]

(* NewManager, for the server's protocol, with the dialer of ChooseDialer; *)
(* other protocols that are valid have no creator.                         *)
NewManager(k) ==
    LET x == call[k]
    IN  /\ x.pc = "new"
        /\ \/ Fails(k, x)
           \/ \E w \in Ways : \E pc \in Mapper[w.protocol] :
                Moves(k, [x EXCEPT !.pc = pc, !.how = w])

(* The timeout of the context, or a request that cancels the sync.         *)
EndContext(k) ==
    /\ ~call[k].ctx
    /\ Moves(k, [call[k] EXCEPT !.ctx = TRUE])

DialContext(k, x) == Moves(k, [x EXCEPT !.pc = "select", !.dial = "dial"])

-----------------------------------------------------------------------------
(* The goroutine of DialContext.  (ChooseDialer returns a dialer of the    *)
(* library netproxy, external, around this one or one that dials straight; *)
(* it is taken to wait for their Dial the way this one does.)              *)

(* net.Dial to the server, or to the proxy.                                *)
DialTCP(k) ==
    LET x == call[k]
    IN  /\ x.dial = "dial"
        /\ \/ Moves(k, [x EXCEPT !.dial = "storeC"])
           \/ Moves(k, [x EXCEPT !.sock = "open",
                          !.dial = IF x.how.proxied THEN "proxy" ELSE "storeC"])

(* The proxy answers CONNECT, at any time or never.                        *)
ConnectProxy(k) ==
    LET x == call[k]
    IN  /\ x.dial = "proxy"
        /\ \E sock \in {"open", "closed"} :
             Moves(k, [x EXCEPT !.sock = sock, !.dial = "storeC"])

StoreC(k) ==
    LET x == call[k]
    IN  /\ x.dial = "storeC"
        /\ Moves(k, [x EXCEPT !.c = x.sock = "open", !.dial = "storeErr"])

StoreErr(k) ==
    LET x == call[k]
    IN  /\ x.dial = "storeErr"
        /\ Moves(k, [x EXCEPT !.err = x.sock # "open", !.dial = "check"])

(* An error ends the goroutine, and nobody learns of it: the caller waits  *)
(* for its context.                                                        *)
CheckErr(k) ==
    LET x == call[k]
    IN  /\ x.dial = "check"
        /\ Moves(k, [x EXCEPT !.dial = IF x.err THEN "over" ELSE "select"])

(* Variant: a connection that comes late is handed over, not closed.       *)
SelectDoneOnly(k) ==
    /\ call[k].dial = "select"
    /\ Moves(k, [call[k] EXCEPT !.dial = "done"])

SelectDial(k) ==
    LET x == call[k]
    IN  /\ x.dial = "select"
        /\ \/ ~x.ctx /\ Moves(k, [x EXCEPT !.dial = "done"])
           \/ /\ x.ctx /\ x.c
              /\ Moves(k, [x EXCEPT !.sock = "closed", !.dial = "over"])
           \/ /\ x.ctx /\ ~x.c
              /\ Becomes(k, [x EXCEPT !.dial = "over"])
              /\ down' = TRUE

-----------------------------------------------------------------------------
(* DialContext's select and return.                                        *)

ReturnDone(k) ==
    LET x == call[k]
    IN  /\ x.pc = "select"
        /\ x.dial = "done"
        /\ Moves(k, [x EXCEPT !.pc = "connected", !.gotC = x.c, !.gotErr = x.err])

ReturnCtx(k) ==
    LET x == call[k]
    IN  /\ x.pc = "select"
        /\ x.ctx
        /\ Moves(k, [x EXCEPT !.pc = "ctxC"])

(* Variant: the error of DialContext is not looked at.                     *)
ReturnUnchecked(k) ==
    LET x == call[k]
    IN  \/ x.pc = "ctxC" /\ Moves(k, [x EXCEPT !.pc = "ctxErr", !.c = FALSE])
        \/ x.pc = "ctxErr" /\ Moves(k, [x EXCEPT !.pc = "loadC", !.err = TRUE])
        \/ x.pc = "loadC" /\ Moves(k, [x EXCEPT !.pc = "loadErr", !.gotC = x.c])
        \/ x.pc = "loadErr" /\ Moves(k, [x EXCEPT !.pc = "connected"])

(* return nil, ctx.Err(): results are stored, then loaded.                 *)
Return(k) ==
    LET x == call[k]
    IN  \/ x.pc = "ctxC" /\ Moves(k, [x EXCEPT !.pc = "ctxErr", !.c = FALSE])
        \/ x.pc = "ctxErr" /\ Moves(k, [x EXCEPT !.pc = "loadC", !.err = TRUE])
        \/ x.pc = "loadC" /\ Moves(k, [x EXCEPT !.pc = "loadErr", !.gotC = x.c])
        \/ /\ x.pc = "loadErr"
           /\ Moves(k, [x EXCEPT !.pc = IF x.err THEN "failed" ELSE "connected",
                                 !.gotErr = x.err])

-----------------------------------------------------------------------------
(* GetTurn, and Ping or SyncPassages around it, of the three managers.     *)

(* Variant: nobody waits for the context.                                  *)
WatchNot(k) == FALSE /\ UNCHANGED dialerVars

(* The goroutine that waits for the context and then stops reads, writes.  *)
Watch(k) ==
    LET x == call[k]
    IN  /\ x.pc \in Talking
        /\ x.ctx
        /\ ~x.deadline
        /\ Moves(k, [x EXCEPT !.deadline = TRUE])

(* The request is written, the answer's head and body read, then the       *)
(* connection is closed.                                                   *)
Talked(k, x) ==
    /\ x.sock = "open" /\ ~x.deadline
    /\ Moves(k, CASE x.pc = "write" -> [x EXCEPT !.pc = "head"]
                  [] x.pc = "head" -> [x EXCEPT !.pc = "body"]
                  [] OTHER -> [x EXCEPT !.pc = "answered", !.sock = "closed"])

(* Variant: what fails is tried again.                                     *)
TalkRetrying(k) ==
    LET x == call[k]
    IN  /\ x.pc \in Talking
        /\ Talked(k, x) \/ Moves(k, x)

(* Whatever fails closes the connection.                                   *)
Talk(k) ==
    LET x == call[k]
    IN  /\ x.pc \in Talking
        /\ \/ Talked(k, x)
           \/ Moves(k, [x EXCEPT !.pc = "failed", !.sock = "closed"])

(* The connection is wrapped: it is watched from now on.                   *)
Wrap(k, x) ==
    \/ x.gotC /\ Moves(k, [x EXCEPT !.pc = "write"])
    \/ ~x.gotC /\ Becomes(k, x) /\ down' = TRUE

WrapFails(k, x) ==
    x.gotC /\ Moves(k, [x EXCEPT !.pc = "failed", !.sock = "closed"])

Shadowsocks(k) ==
    LET x == call[k]
    IN  /\ x.how.protocol = "shadowsocks"
        /\ \/ x.pc = "start" /\ DialContext(k, x)
           \/ x.pc = "connected" /\ (Wrap(k, x) \/ WrapFails(k, x))

(* With TLS, the SNI of the host is wanted first.                          *)
VMess(k) ==
    LET x == call[k]
    IN  /\ x.how.protocol \in {"vmess", "vmess+tls+grpc"}
        /\ \/ x.pc = "start" /\ DialContext(k, x)
           \/ x.pc = "start" /\ x.how.protocol = "vmess+tls+grpc" /\ Fails(k, x)
           \/ x.pc = "connected" /\ (Wrap(k, x) \/ WrapFails(k, x))

(* juicity dials without the context; QUIC has time limits of its own.     *)
Juicity(k) ==
    LET x == call[k]
    IN  /\ x.how.protocol = "juicity"
        /\ \/ x.pc = "start" /\ Fails(k, x)
           \/ x.pc = "start" /\ Moves(k, [x EXCEPT !.pc = "connected",
                                              !.gotC = TRUE, !.sock = "open"])
           \/ x.pc = "connected" /\ Wrap(k, x)

-----------------------------------------------------------------------------
(* After wg.Wait, one transaction for the outcomes of all calls.           *)
Commit ==
    /\ ~down
    /\ roundPc = "pinging"
    /\ \A k \in Calls : call[k].pc \in Ended
    /\ roundPc' = "committed"
    /\ UNCHANGED <<call, down>>

(* Rounds are followed one at a time, until their goroutines are over.     *)
NextRound ==
    /\ \/ down
       \/ /\ roundPc = "committed"
          /\ \A k \in Calls : call[k].dial \in {"none", "over", "done"}
    /\ call' = [k \in Calls |-> NewCall]
    /\ roundPc' = "pinging"
    /\ down' = FALSE

Dial(k) == StoreC(k) \/ StoreErr(k) \/ CheckErr(k) \/ SelectDial(k)

Caller(k) ==
    \/ NewManager(k)
    \/ Shadowsocks(k) \/ VMess(k) \/ Juicity(k)
    \/ ReturnDone(k) \/ ReturnCtx(k) \/ Return(k)

DialerNext ==
    \/ \E k \in Calls :
         \/ Caller(k) \/ Dial(k) \/ DialTCP(k) \/ ConnectProxy(k)
         \/ EndContext(k) \/ Watch(k) \/ Talk(k)
    \/ Commit
    \/ NextRound

(* Goroutines run, and contexts end.  That a dial, the proxy or the server *)
(* answers is not assumed, but for QUIC's limits on juicity's dial; what   *)
(* comes after a deadline fails at once.                                   *)
DialerFairness ==
    /\ \A k \in Calls :
         /\ WF_dialerVars(Caller(k))
         /\ WF_dialerVars(Dial(k))
         /\ WF_dialerVars(EndContext(k))
         /\ WF_dialerVars(Watch(k))
         /\ WF_dialerVars(call[k].deadline /\ Talk(k))
    /\ WF_dialerVars(Commit)

DialerSpec == DialerInit /\ [][DialerNext]_dialerVars /\ DialerFairness

-----------------------------------------------------------------------------
(* A connection is closed when its call and its dial are over, also when   *)
(* the dial ends long after the call gave up - unless it ended while the   *)
(* context did.                                                            *)
NoConnectionLeaks ==
    \A k \in Calls :
        /\ call[k].pc \in Ended
        /\ call[k].dial \in {"none", "over", "done"}
        /\ ~call[k].raced
        => call[k].sock # "open"

(* Who has no error has a connection, open and its own: nothing but that   *)
(* race makes a nil pointer of it and takes the program down.              *)
ConnectedOrError ==
    /\ \A k \in Calls : call[k].pc = "connected" /\ ~call[k].raced =>
                            call[k].gotC /\ call[k].sock = "open"
    /\ down => \E k \in Calls : call[k].raced

(* A round of pings is committed, however many of its servers hang.        *)
RoundIsCommitted == roundPc = "pinging" ~> (roundPc = "committed" \/ down)

(* The calls implement Deadline: they end once their contexts have ended.  *)
Promise == INSTANCE Deadline WITH
    expired <- [k \in Calls |-> call[k].ctx],
    status <- [k \in Calls |-> IF call[k].pc \in Ended THEN call[k].pc
                               ELSE IF down THEN "lost" ELSE "pending"]

KeepsDeadline == Promise!DeadlineSpec

=============================================================================

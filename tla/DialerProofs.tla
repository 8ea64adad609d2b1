---------------------------- MODULE DialerProofs ----------------------------
(***************************************************************************)
(* What the calls of a round count on (module Dialer), for any number of   *)
(* servers and any protocols: connections are closed, who has no error has *)
(* a connection, and each call is over at most once, before its round is   *)
(* committed.                                                              *)
(***************************************************************************)
EXTENDS Dialer, CNList, FiniteSetTheorems, TLAPS

Call ==
    [pc : {"new", "start", "connected"} \cup Returning \cup Talking \cup Ended,
     how : Ways, ctx : BOOLEAN,
     dial : {"none", "dial", "proxy", "over"} \cup Dialing,
     c : BOOLEAN, err : BOOLEAN, gotC : BOOLEAN, gotErr : BOOLEAN,
     sock : {"none", "open", "closed"}, deadline : BOOLEAN,
     raced : BOOLEAN]

(* What a call that has not raced counts on, while DialContext runs and    *)
(* after it: its results, its goroutine and its connection agree.          *)
Sound(x) ==
    /\ x.pc \in {"new", "start"} => x.dial = "none" /\ x.sock = "none"
    /\ x.pc \in Returning => x.dial # "none"
    /\ x.pc \in {"loadC", "loadErr"} => x.err
    /\ x.pc \in {"connected"} \cup Talking =>
         x.gotC /\ x.sock = "open" /\ x.dial \in {"none", "done"}
    /\ x.pc = "answered" => x.sock = "closed" /\ x.dial \in {"none", "done"}
    /\ x.pc = "failed" =>
         (IF x.dial \in {"none", "over", "done"} THEN x.sock # "open" ELSE x.ctx)
    /\ x.dial = "storeErr" => (x.c <=> x.sock = "open")
    /\ x.dial = "check" => (x.c <=> x.sock = "open") /\ (x.err <=> x.sock # "open")
    /\ x.dial = "select" => x.c /\ x.sock = "open"
    /\ x.dial = "done" /\ x.pc = "select" => x.c /\ x.sock = "open"
    /\ x.dial = "over" /\ x.pc \in Returning => x.err /\ x.sock # "open"

(* The dial ends while the context does: two writers of the results.       *)
Races(x) == x.ctx /\ x.pc \in Returning /\ x.dial \in Dialing

Good(x) ==
    /\ x \in Call
    /\ x.deadline => x.ctx
    /\ x.pc \in Returning \ {"select"} => x.ctx
    /\ ~x.raced /\ ~Races(x) => Sound(x)

(* The inductive invariant.                                                *)
DialerInv ==
    /\ call \in [Calls -> Call]
    /\ \A k \in Calls : Good(call[k])
    /\ \A k \in Calls : Races(call[k]) => call[k].raced
    /\ roundPc \in {"pinging", "committed"}
    /\ down \in BOOLEAN
    /\ down => \E k \in Calls : call[k].raced
    /\ roundPc = "committed" => \A k \in Calls : call[k].pc \in Ended

-----------------------------------------------------------------------------
(* The steps that a call has left at most: the caller's, its dial's, the   *)
(* end of its context and its deadline.                                    *)
CallerLeft(pc) ==
    CASE pc = "new" -> 17 [] pc = "start" -> 16
      [] pc = "select" -> 9 [] pc = "ctxC" -> 8 [] pc = "ctxErr" -> 7
      [] pc = "loadC" -> 6 [] pc = "loadErr" -> 5 [] pc = "connected" -> 4
      [] pc = "write" -> 3 [] pc = "head" -> 2 [] pc = "body" -> 1
      [] pc \in Ended -> 0

DialLeft(dial) ==
    CASE dial = "dial" -> 6 [] dial = "proxy" -> 5 [] dial = "storeC" -> 4
      [] dial = "storeErr" -> 3 [] dial = "check" -> 2 [] dial = "select" -> 1
      [] dial \in {"none", "done", "over"} -> 0

Left(x) ==
    CallerLeft(x.pc) + DialLeft(x.dial) + (IF x.ctx THEN 0 ELSE 1)
        + (IF x.deadline THEN 0 ELSE 1)

LEMMA LeftType ==
    ASSUME NEW x \in Call
    PROVE  CallerLeft(x.pc) \in 0..17 /\ DialLeft(x.dial) \in 0..6 /\ Left(x) \in 0..25
<1>1. CallerLeft(x.pc) \in 0..17
  BY DEF Call, CallerLeft, Returning, Talking, Ended
<1>2. DialLeft(x.dial) \in 0..6
  BY DEF Call, DialLeft, Dialing
<1> QED
  BY <1>1, <1>2 DEF Left

LEMMA LeftValues ==
    /\ CallerLeft("new") = 17 /\ CallerLeft("start") = 16
    /\ CallerLeft("select") = 9 /\ CallerLeft("ctxC") = 8 /\ CallerLeft("ctxErr") = 7
    /\ CallerLeft("loadC") = 6 /\ CallerLeft("loadErr") = 5 /\ CallerLeft("connected") = 4
    /\ CallerLeft("write") = 3 /\ CallerLeft("head") = 2 /\ CallerLeft("body") = 1
    /\ CallerLeft("failed") = 0 /\ CallerLeft("answered") = 0
    /\ DialLeft("dial") = 6 /\ DialLeft("proxy") = 5 /\ DialLeft("storeC") = 4
    /\ DialLeft("storeErr") = 3 /\ DialLeft("check") = 2 /\ DialLeft("select") = 1
    /\ DialLeft("none") = 0 /\ DialLeft("done") = 0 /\ DialLeft("over") = 0
  BY DEF CallerLeft, DialLeft, Ended

-----------------------------------------------------------------------------
(* A call takes a turn: it becomes r, but for the history of the race, and *)
(* has less left.  Only its context ends, or it moves on; what has ended   *)
(* stays so; a panic comes from a race.                                    *)
Turn(k, r) ==
    /\ Becomes(k, r)
    /\ Good(r)
    /\ call[k].raced => r.raced
    /\ call[k].pc \in Ended => r.pc = call[k].pc
    /\ r.ctx = call[k].ctx \/ (r.ctx = TRUE /\ r.pc = call[k].pc)
    /\ \/ down' = down /\ Left(r) < Left(call[k])
       \/ /\ down' = TRUE /\ Left(r) <= Left(call[k])
          /\ r.raced
          /\ r.pc = call[k].pc /\ r.ctx = call[k].ctx

LEMMA NewManagerTurn ==
    ASSUME NEW k \in Calls, Good(call[k]), NewManager(k)
    PROVE  \E r : Turn(k, r)
<1> DEFINE x == call[k]
<1>1. x \in Call /\ Good(x) /\ x.pc = "new"
  BY DEF Good, NewManager
<1>2. CASE Fails(k, x)
  <2> DEFINE r == [x EXCEPT !.pc = "failed"]
  <2>1. Becomes(k, r) /\ down' = down
    BY <1>2 DEF Fails, Moves
  <2>2. r \in Call
    BY <1>1, <2>1 DEF Call, Returning, Talking, Ended, Dialing
  <2>3. /\ r.pc = "failed" /\ r.ctx = x.ctx /\ r.dial = x.dial /\ r.c = x.c
        /\ r.err = x.err /\ r.gotC = x.gotC /\ r.sock = x.sock
        /\ r.deadline = x.deadline /\ r.raced = x.raced
    BY <1>1, <2>1 DEF Call
  <2> HIDE DEF r
  <2>4. Good(r)
    BY <1>1, <2>1, <2>2, <2>3
    DEF Call, Good, Sound, Races, Returning, Talking, Ended, Dialing
  <2>5. Left(r) < Left(x)
    BY <1>1, <2>1, <2>3, <2>2, LeftType, LeftValues
    DEF Left, Talking, Ended
  <2> QED
    BY <1>1, <2>1, <2>3, <2>4, <2>5 DEF Turn, Returning, Talking, Ended
<1>3. ASSUME NEW w \in Ways, NEW pc \in Mapper[w.protocol],
             Moves(k, [x EXCEPT !.pc = pc, !.how = w])
      PROVE  \E r : Turn(k, r)
  <2>1. pc \in {"start", "failed"}
    BY DialerAssumption
    DEF Mapper, NewShadowsocks, NewVMess, NewJuicity, Protocols
  <2> DEFINE r == [x EXCEPT !.pc = pc, !.how = w]
  <2>2. Becomes(k, r) /\ down' = down
    BY <1>3 DEF Moves
  <2>3. r \in Call
    BY <1>1, <2>1, <2>2 DEF Call, Returning, Talking, Ended, Dialing
  <2>4. /\ r.pc = pc /\ r.ctx = x.ctx /\ r.dial = x.dial /\ r.c = x.c
        /\ r.err = x.err /\ r.gotC = x.gotC /\ r.sock = x.sock
        /\ r.deadline = x.deadline /\ r.raced = x.raced
    BY <1>1, <2>1, <2>2 DEF Call
  <2> HIDE DEF r
  <2>5. Good(r)
    BY <1>1, <2>1, <2>2, <2>3, <2>4
    DEF Call, Good, Sound, Races, Returning, Talking, Ended, Dialing
  <2>6. Left(r) < Left(x)
    BY <1>1, <2>1, <2>2, <2>4, <2>3, LeftType, LeftValues
    DEF Left, Talking, Ended
  <2> QED
    BY <1>1, <2>1, <2>2, <2>4, <2>5, <2>6 DEF Turn, Returning, Talking, Ended
<1> QED
  BY <1>1, <1>2, <1>3 DEF NewManager

(* The goroutine that dials, the context, and the deadline it sets.        *)
LEMMA DialTurn ==
    ASSUME NEW k \in Calls, Good(call[k]), Races(call[k]) => call[k].raced,
           \/ StoreC(k) \/ StoreErr(k) \/ CheckErr(k) \/ SelectDial(k)
           \/ DialTCP(k) \/ ConnectProxy(k) \/ EndContext(k) \/ Watch(k)
    PROVE  \E r : Turn(k, r)
<1> DEFINE x == call[k]
<1>1. x \in Call /\ Good(x) /\ (Races(x) => x.raced)
  BY DEF Good
<1>2. CASE StoreC(k)
  <2> DEFINE r == [x EXCEPT !.c = x.sock = "open", !.dial = "storeErr"]
  <2>1. x.dial = "storeC" /\ Becomes(k, r) /\ down' = down
    BY <1>2 DEF StoreC, Moves
  <2>2. r \in Call
    BY <1>1, <2>1 DEF Call, Returning, Talking, Ended, Dialing
  <2>3. /\ (r.c <=> x.sock = "open") /\ r.dial = "storeErr" /\ r.pc = x.pc
        /\ r.ctx = x.ctx /\ r.err = x.err /\ r.gotC = x.gotC
        /\ r.sock = x.sock /\ r.deadline = x.deadline /\ r.raced = x.raced
    BY <1>1, <2>1 DEF Call
  <2> HIDE DEF r
  <2>4. Good(r)
    BY <1>1, <2>1, <2>2, <2>3
    DEF Call, Good, Sound, Races, Returning, Talking, Ended, Dialing
  <2>5. Left(r) < Left(x)
    BY <1>1, <2>1, <2>3, <2>2, LeftType, LeftValues
    DEF Left, Talking, Ended
  <2> QED
    BY <1>1, <2>1, <2>3, <2>4, <2>5 DEF Turn, Returning, Talking, Ended
<1>3. CASE StoreErr(k)
  <2> DEFINE r == [x EXCEPT !.err = x.sock # "open", !.dial = "check"]
  <2>1. x.dial = "storeErr" /\ Becomes(k, r) /\ down' = down
    BY <1>3 DEF StoreErr, Moves
  <2>2. r \in Call
    BY <1>1, <2>1 DEF Call, Returning, Talking, Ended, Dialing
  <2>3. /\ (r.err <=> x.sock # "open") /\ r.dial = "check" /\ r.pc = x.pc
        /\ r.ctx = x.ctx /\ r.c = x.c /\ r.gotC = x.gotC /\ r.sock = x.sock
        /\ r.deadline = x.deadline /\ r.raced = x.raced
    BY <1>1, <2>1 DEF Call
  <2> HIDE DEF r
  <2>4. Good(r)
    BY <1>1, <2>1, <2>2, <2>3
    DEF Call, Good, Sound, Races, Returning, Talking, Ended, Dialing
  <2>5. Left(r) < Left(x)
    BY <1>1, <2>1, <2>3, <2>2, LeftType, LeftValues
    DEF Left, Talking, Ended
  <2> QED
    BY <1>1, <2>1, <2>3, <2>4, <2>5 DEF Turn, Returning, Talking, Ended
<1>4. CASE CheckErr(k)
  <2> DEFINE r == [x EXCEPT !.dial = IF x.err THEN "over" ELSE "select"]
  <2>1. x.dial = "check" /\ Becomes(k, r) /\ down' = down
    BY <1>4 DEF CheckErr, Moves
  <2>2. r \in Call
    BY <1>1, <2>1 DEF Call, Returning, Talking, Ended, Dialing
  <2>3. /\ r.dial = (IF x.err THEN "over" ELSE "select") /\ r.pc = x.pc
        /\ r.ctx = x.ctx /\ r.c = x.c /\ r.err = x.err /\ r.gotC = x.gotC
        /\ r.sock = x.sock /\ r.deadline = x.deadline /\ r.raced = x.raced
    BY <1>1, <2>1 DEF Call
  <2> HIDE DEF r
  <2>4. Good(r)
    BY <1>1, <2>1, <2>2, <2>3
    DEF Call, Good, Sound, Races, Returning, Talking, Ended, Dialing
  <2>5. Left(r) < Left(x)
    BY <1>1, <2>1, <2>3, <2>2, LeftType, LeftValues
    DEF Left, Talking, Ended
  <2> QED
    BY <1>1, <2>1, <2>3, <2>4, <2>5 DEF Turn, Returning, Talking, Ended
<1>5. CASE SelectDial(k)
  <2>1. x.dial = "select"
    BY <1>5 DEF SelectDial
  <2>2. CASE ~x.ctx /\ Moves(k, [x EXCEPT !.dial = "done"])
    <3> DEFINE r == [x EXCEPT !.dial = "done"]
    <3>1. Becomes(k, r) /\ down' = down
      BY <2>2 DEF Moves
    <3>2. r \in Call
      BY <1>1, <2>1, <2>2, <3>1 DEF Call, Returning, Talking, Ended, Dialing
    <3>3. /\ r.dial = "done" /\ r.pc = x.pc /\ r.ctx = x.ctx /\ r.c = x.c
          /\ r.err = x.err /\ r.gotC = x.gotC /\ r.sock = x.sock
          /\ r.deadline = x.deadline /\ r.raced = x.raced
      BY <1>1, <2>1, <2>2, <3>1 DEF Call
    <3> HIDE DEF r
    <3>4. Good(r)
      BY <1>1, <2>1, <2>2, <3>1, <3>2, <3>3
      DEF Call, Good, Sound, Races, Returning, Talking, Ended, Dialing
    <3>5. Left(r) < Left(x)
      BY <1>1, <2>1, <2>2, <3>1, <3>3, <3>2, LeftType, LeftValues
      DEF Left, Talking, Ended
    <3> QED
      BY <1>1, <2>1, <2>2, <3>1, <3>3, <3>4, <3>5 DEF Turn, Returning, Talking, Ended
  <2>3. CASE x.ctx /\ x.c /\ Moves(k, [x EXCEPT !.sock = "closed", !.dial = "over"])
    <3> DEFINE r == [x EXCEPT !.sock = "closed", !.dial = "over"]
    <3>1. Becomes(k, r) /\ down' = down
      BY <2>3 DEF Moves
    <3>2. r \in Call
      BY <1>1, <2>1, <2>3, <3>1 DEF Call, Returning, Talking, Ended, Dialing
    <3>3. /\ r.sock = "closed" /\ r.dial = "over" /\ r.pc = x.pc
          /\ r.ctx = x.ctx /\ r.c = x.c /\ r.err = x.err /\ r.gotC = x.gotC
          /\ r.deadline = x.deadline /\ r.raced = x.raced
      BY <1>1, <2>1, <2>3, <3>1 DEF Call
    <3> HIDE DEF r
    <3>4. Good(r)
      BY <1>1, <2>1, <2>3, <3>1, <3>2, <3>3
      DEF Call, Good, Sound, Races, Returning, Talking, Ended, Dialing
    <3>5. Left(r) < Left(x)
      BY <1>1, <2>1, <2>3, <3>1, <3>3, <3>2, LeftType, LeftValues
      DEF Left, Talking, Ended
    <3> QED
      BY <1>1, <2>1, <2>3, <3>1, <3>3, <3>4, <3>5 DEF Turn, Returning, Talking, Ended
  <2>4. CASE x.ctx /\ ~x.c /\ Becomes(k, [x EXCEPT !.dial = "over"]) /\ down' = TRUE
    <3>1. x.raced
      BY <1>1, <2>1, <2>4
      DEF Call, Good, Sound, Races, Returning, Talking, Ended, Dialing
    <3> DEFINE r == [x EXCEPT !.dial = "over"]
    <3>2. Becomes(k, r) /\ down' = TRUE
      BY <2>4
    <3>3. r \in Call
      BY <1>1, <2>1, <2>4, <3>1, <3>2 DEF Call, Returning, Talking, Ended, Dialing
    <3>4. /\ r.dial = "over" /\ r.pc = x.pc /\ r.ctx = x.ctx /\ r.c = x.c
          /\ r.err = x.err /\ r.gotC = x.gotC /\ r.sock = x.sock
          /\ r.deadline = x.deadline /\ r.raced = x.raced
      BY <1>1, <2>1, <2>4, <3>1, <3>2 DEF Call
    <3> HIDE DEF r
    <3>5. Good(r)
      BY <1>1, <2>1, <2>4, <3>1, <3>2, <3>3, <3>4
      DEF Call, Good, Sound, Races, Returning, Talking, Ended, Dialing
    <3>6. Left(r) <= Left(x)
      BY <1>1, <2>1, <2>4, <3>1, <3>2, <3>4, <3>3, LeftType, LeftValues
      DEF Left, Talking, Ended
    <3> QED
      BY <1>1, <2>1, <2>4, <3>1, <3>2, <3>4, <3>5, <3>6 DEF Turn, Returning, Talking, Ended
  <2> QED
    BY <1>5, <2>2, <2>3, <2>4 DEF SelectDial
<1>6. CASE DialTCP(k)
  <2>1. x.dial = "dial"
    BY <1>6 DEF DialTCP
  <2>2. CASE Moves(k, [x EXCEPT !.dial = "storeC"])
    <3> DEFINE r == [x EXCEPT !.dial = "storeC"]
    <3>1. Becomes(k, r) /\ down' = down
      BY <2>2 DEF Moves
    <3>2. r \in Call
      BY <1>1, <2>1, <3>1 DEF Call, Returning, Talking, Ended, Dialing
    <3>3. /\ r.dial = "storeC" /\ r.pc = x.pc /\ r.ctx = x.ctx /\ r.c = x.c
          /\ r.err = x.err /\ r.gotC = x.gotC /\ r.sock = x.sock
          /\ r.deadline = x.deadline /\ r.raced = x.raced
      BY <1>1, <2>1, <3>1 DEF Call
    <3> HIDE DEF r
    <3>4. Good(r)
      BY <1>1, <2>1, <3>1, <3>2, <3>3
      DEF Call, Good, Sound, Races, Returning, Talking, Ended, Dialing
    <3>5. Left(r) < Left(x)
      BY <1>1, <2>1, <3>1, <3>3, <3>2, LeftType, LeftValues
      DEF Left, Talking, Ended
    <3> QED
      BY <1>1, <2>1, <3>1, <3>3, <3>4, <3>5 DEF Turn, Returning, Talking, Ended
  <2>3. ASSUME NEW d \in {"proxy", "storeC"},
               Moves(k, [x EXCEPT !.sock = "open", !.dial = d])
        PROVE  \E r : Turn(k, r)
    <3> DEFINE r == [x EXCEPT !.sock = "open", !.dial = d]
    <3>1. Becomes(k, r) /\ down' = down
      BY <2>3 DEF Moves
    <3>2. r \in Call
      BY <1>1, <2>1, <3>1 DEF Call, Returning, Talking, Ended, Dialing
    <3>3. /\ r.sock = "open" /\ r.dial = d /\ r.pc = x.pc /\ r.ctx = x.ctx
          /\ r.c = x.c /\ r.err = x.err /\ r.gotC = x.gotC
          /\ r.deadline = x.deadline /\ r.raced = x.raced
      BY <1>1, <2>1, <3>1 DEF Call
    <3> HIDE DEF r
    <3>4. Good(r)
      BY <1>1, <2>1, <3>1, <3>2, <3>3
      DEF Call, Good, Sound, Races, Returning, Talking, Ended, Dialing
    <3>5. Left(r) < Left(x)
      BY <1>1, <2>1, <3>1, <3>3, <3>2, LeftType, LeftValues
      DEF Left, Talking, Ended
    <3> QED
      BY <1>1, <2>1, <3>1, <3>3, <3>4, <3>5 DEF Turn, Returning, Talking, Ended
  <2> QED
    BY <1>6, <2>2, <2>3 DEF DialTCP
<1>7. CASE ConnectProxy(k)
  <2>1. PICK s \in {"open", "closed"} :
          x.dial = "proxy" /\ Moves(k, [x EXCEPT !.sock = s, !.dial = "storeC"])
    BY <1>7 DEF ConnectProxy
  <2> DEFINE r == [x EXCEPT !.sock = s, !.dial = "storeC"]
  <2>2. Becomes(k, r) /\ down' = down
    BY <2>1 DEF Moves
  <2>3. r \in Call
    BY <1>1, <2>1, <2>2 DEF Call, Returning, Talking, Ended, Dialing
  <2>4. /\ r.sock = s /\ r.dial = "storeC" /\ r.pc = x.pc /\ r.ctx = x.ctx
        /\ r.c = x.c /\ r.err = x.err /\ r.gotC = x.gotC
        /\ r.deadline = x.deadline /\ r.raced = x.raced
    BY <1>1, <2>1, <2>2 DEF Call
  <2> HIDE DEF r
  <2>5. Good(r)
    BY <1>1, <2>1, <2>2, <2>3, <2>4
    DEF Call, Good, Sound, Races, Returning, Talking, Ended, Dialing
  <2>6. Left(r) < Left(x)
    BY <1>1, <2>1, <2>2, <2>4, <2>3, LeftType, LeftValues
    DEF Left, Talking, Ended
  <2> QED
    BY <1>1, <2>1, <2>2, <2>4, <2>5, <2>6 DEF Turn, Returning, Talking, Ended
<1>8. CASE EndContext(k)
  <2> DEFINE r == [x EXCEPT !.ctx = TRUE]
  <2>1. ~x.ctx /\ Becomes(k, r) /\ down' = down
    BY <1>8 DEF EndContext, Moves
  <2>2. r \in Call
    BY <1>1, <2>1 DEF Call, Returning, Talking, Ended, Dialing
  <2>3. /\ r.ctx /\ r.pc = x.pc /\ r.dial = x.dial /\ r.c = x.c
        /\ r.err = x.err /\ r.gotC = x.gotC /\ r.sock = x.sock
        /\ r.deadline = x.deadline /\ r.raced = x.raced
    BY <1>1, <2>1 DEF Call
  <2> HIDE DEF r
  <2>4. Good(r)
    BY <1>1, <2>1, <2>2, <2>3
    DEF Call, Good, Sound, Races, Returning, Talking, Ended, Dialing
  <2>5. Left(r) < Left(x)
    BY <1>1, <2>1, <2>3, <2>2, LeftType, LeftValues
    DEF Left, Talking, Ended
  <2> QED
    BY <1>1, <2>1, <2>3, <2>4, <2>5 DEF Turn, Returning, Talking, Ended
<1>9. CASE Watch(k)
  <2> DEFINE r == [x EXCEPT !.deadline = TRUE]
  <2>1. x.ctx /\ ~x.deadline /\ Becomes(k, r) /\ down' = down
    BY <1>9 DEF Watch, Moves
  <2>2. r \in Call
    BY <1>1, <2>1 DEF Call, Returning, Talking, Ended, Dialing
  <2>3. /\ r.deadline /\ r.pc = x.pc /\ r.ctx = x.ctx /\ r.dial = x.dial
        /\ r.c = x.c /\ r.err = x.err /\ r.gotC = x.gotC /\ r.sock = x.sock
        /\ r.raced = x.raced
    BY <1>1, <2>1 DEF Call
  <2> HIDE DEF r
  <2>4. Good(r)
    BY <1>1, <2>1, <2>2, <2>3
    DEF Call, Good, Sound, Races, Returning, Talking, Ended, Dialing
  <2>5. Left(r) < Left(x)
    BY <1>1, <2>1, <2>3, <2>2, LeftType, LeftValues
    DEF Left, Talking, Ended
  <2> QED
    BY <1>1, <2>1, <2>3, <2>4, <2>5 DEF Turn, Returning, Talking, Ended
<1> QED
  BY <1>2, <1>3, <1>4, <1>5, <1>6, <1>7, <1>8, <1>9

(* DialContext returns: an error is seen by its caller, a nil that is      *)
(* loaded instead of the connection is not, after a race.                  *)
LEMMA ReturnTurn ==
    ASSUME NEW k \in Calls, Good(call[k]), Races(call[k]) => call[k].raced,
           ReturnDone(k) \/ ReturnCtx(k) \/ Return(k)
    PROVE  \E r : Turn(k, r)
<1> DEFINE x == call[k]
<1>1. x \in Call /\ Good(x) /\ (Races(x) => x.raced)
  BY DEF Good
<1>2. CASE ReturnDone(k)
  <2>1. x.pc = "select" /\ x.dial = "done"
    BY <1>2 DEF ReturnDone
  <2> DEFINE r == [x EXCEPT !.pc = "connected", !.gotC = x.c,
                            !.gotErr = x.err]
  <2>2. Becomes(k, r) /\ down' = down
    BY <1>2 DEF ReturnDone, Moves
  <2>3. r \in Call
    BY <1>1, <2>1, <2>2 DEF Call, Returning, Talking, Ended, Dialing
  <2>4. /\ r.pc = "connected" /\ (r.gotC <=> x.c) /\ r.ctx = x.ctx
        /\ r.dial = x.dial /\ r.c = x.c /\ r.err = x.err /\ r.sock = x.sock
        /\ r.deadline = x.deadline /\ r.raced = x.raced
    BY <1>1, <2>1, <2>2 DEF Call
  <2> HIDE DEF r
  <2>5. Good(r)
    BY <1>1, <2>1, <2>2, <2>3, <2>4
    DEF Call, Good, Sound, Races, Returning, Talking, Ended, Dialing
  <2>6. Left(r) < Left(x)
    BY <1>1, <2>1, <2>2, <2>4, <2>3, LeftType, LeftValues
    DEF Left, Talking, Ended
  <2> QED
    BY <1>1, <2>1, <2>2, <2>4, <2>5, <2>6 DEF Turn, Returning, Talking, Ended
<1>3. CASE ReturnCtx(k)
  <2>1. x.pc = "select" /\ x.ctx
    BY <1>3 DEF ReturnCtx
  <2> DEFINE r == [x EXCEPT !.pc = "ctxC"]
  <2>2. Becomes(k, r) /\ down' = down
    BY <1>3 DEF ReturnCtx, Moves
  <2>3. r \in Call
    BY <1>1, <2>1, <2>2 DEF Call, Returning, Talking, Ended, Dialing
  <2>4. /\ r.pc = "ctxC" /\ r.ctx = x.ctx /\ r.dial = x.dial /\ r.c = x.c
        /\ r.err = x.err /\ r.gotC = x.gotC /\ r.sock = x.sock
        /\ r.deadline = x.deadline /\ r.raced = x.raced
    BY <1>1, <2>1, <2>2 DEF Call
  <2> HIDE DEF r
  <2>5. Good(r)
    BY <1>1, <2>1, <2>2, <2>3, <2>4
    DEF Call, Good, Sound, Races, Returning, Talking, Ended, Dialing
  <2>6. Left(r) < Left(x)
    BY <1>1, <2>1, <2>2, <2>4, <2>3, LeftType, LeftValues
    DEF Left, Talking, Ended
  <2> QED
    BY <1>1, <2>1, <2>2, <2>4, <2>5, <2>6 DEF Turn, Returning, Talking, Ended
<1>4. CASE x.pc = "ctxC" /\ Moves(k, [x EXCEPT !.pc = "ctxErr", !.c = FALSE])
  <2> DEFINE r == [x EXCEPT !.pc = "ctxErr", !.c = FALSE]
  <2>1. Becomes(k, r) /\ down' = down
    BY <1>4 DEF Moves
  <2>2. r \in Call
    BY <1>1, <1>4, <2>1 DEF Call, Returning, Talking, Ended, Dialing
  <2>3. /\ r.pc = "ctxErr" /\ ~r.c /\ r.ctx = x.ctx /\ r.dial = x.dial
        /\ r.err = x.err /\ r.gotC = x.gotC /\ r.sock = x.sock
        /\ r.deadline = x.deadline /\ r.raced = x.raced
    BY <1>1, <1>4, <2>1 DEF Call
  <2> HIDE DEF r
  <2>4. Good(r)
    BY <1>1, <1>4, <2>1, <2>2, <2>3
    DEF Call, Good, Sound, Races, Returning, Talking, Ended, Dialing
  <2>5. Left(r) < Left(x)
    BY <1>1, <1>4, <2>1, <2>3, <2>2, LeftType, LeftValues
    DEF Left, Talking, Ended
  <2> QED
    BY <1>1, <1>4, <2>1, <2>3, <2>4, <2>5 DEF Turn, Returning, Talking, Ended
<1>5. CASE x.pc = "ctxErr" /\ Moves(k, [x EXCEPT !.pc = "loadC", !.err = TRUE])
  <2> DEFINE r == [x EXCEPT !.pc = "loadC", !.err = TRUE]
  <2>1. Becomes(k, r) /\ down' = down
    BY <1>5 DEF Moves
  <2>2. r \in Call
    BY <1>1, <1>5, <2>1 DEF Call, Returning, Talking, Ended, Dialing
  <2>3. /\ r.pc = "loadC" /\ r.err /\ r.ctx = x.ctx /\ r.dial = x.dial
        /\ r.c = x.c /\ r.gotC = x.gotC /\ r.sock = x.sock
        /\ r.deadline = x.deadline /\ r.raced = x.raced
    BY <1>1, <1>5, <2>1 DEF Call
  <2> HIDE DEF r
  <2>4. Good(r)
    BY <1>1, <1>5, <2>1, <2>2, <2>3
    DEF Call, Good, Sound, Races, Returning, Talking, Ended, Dialing
  <2>5. Left(r) < Left(x)
    BY <1>1, <1>5, <2>1, <2>3, <2>2, LeftType, LeftValues
    DEF Left, Talking, Ended
  <2> QED
    BY <1>1, <1>5, <2>1, <2>3, <2>4, <2>5 DEF Turn, Returning, Talking, Ended
<1>6. CASE x.pc = "loadC" /\ Moves(k, [x EXCEPT !.pc = "loadErr", !.gotC = x.c])
  <2> DEFINE r == [x EXCEPT !.pc = "loadErr", !.gotC = x.c]
  <2>1. Becomes(k, r) /\ down' = down
    BY <1>6 DEF Moves
  <2>2. r \in Call
    BY <1>1, <1>6, <2>1 DEF Call, Returning, Talking, Ended, Dialing
  <2>3. /\ r.pc = "loadErr" /\ (r.gotC <=> x.c) /\ r.ctx = x.ctx
        /\ r.dial = x.dial /\ r.c = x.c /\ r.err = x.err /\ r.sock = x.sock
        /\ r.deadline = x.deadline /\ r.raced = x.raced
    BY <1>1, <1>6, <2>1 DEF Call
  <2> HIDE DEF r
  <2>4. Good(r)
    BY <1>1, <1>6, <2>1, <2>2, <2>3
    DEF Call, Good, Sound, Races, Returning, Talking, Ended, Dialing
  <2>5. Left(r) < Left(x)
    BY <1>1, <1>6, <2>1, <2>3, <2>2, LeftType, LeftValues
    DEF Left, Talking, Ended
  <2> QED
    BY <1>1, <1>6, <2>1, <2>3, <2>4, <2>5 DEF Turn, Returning, Talking, Ended
<1>7. ASSUME NEW pc \in {"failed", "connected"}, x.pc = "loadErr",
             x.err <=> pc = "failed",
             Moves(k, [x EXCEPT !.pc = pc, !.gotErr = x.err])
      PROVE  \E r : Turn(k, r)
  <2> DEFINE r == [x EXCEPT !.pc = pc, !.gotErr = x.err]
  <2>1. Becomes(k, r) /\ down' = down
    BY <1>7 DEF Moves
  <2>2. r \in Call
    BY <1>1, <1>7, <2>1 DEF Call, Returning, Talking, Ended, Dialing
  <2>3. /\ r.pc = pc /\ r.ctx = x.ctx /\ r.dial = x.dial /\ r.c = x.c
        /\ r.err = x.err /\ r.gotC = x.gotC /\ r.sock = x.sock
        /\ r.deadline = x.deadline /\ r.raced = x.raced
    BY <1>1, <1>7, <2>1 DEF Call
  <2> HIDE DEF r
  <2>4. Good(r)
    BY <1>1, <1>7, <2>1, <2>2, <2>3
    DEF Call, Good, Sound, Races, Returning, Talking, Ended, Dialing
  <2>5. Left(r) < Left(x)
    BY <1>1, <1>7, <2>1, <2>3, <2>2, LeftType, LeftValues
    DEF Left, Talking, Ended
  <2> QED
    BY <1>1, <1>7, <2>1, <2>3, <2>4, <2>5 DEF Turn, Returning, Talking, Ended
<1> QED
  BY <1>2, <1>3, <1>4, <1>5, <1>6, <1>7 DEF Return

(* Requests are written and answers read; whatever ends this closes the    *)
(* connection.                                                             *)
LEMMA TalkTurn ==
    ASSUME NEW k \in Calls, Good(call[k]), Talk(k)
    PROVE  \E r : Turn(k, r)
<1> DEFINE x == call[k]
<1>1. x \in Call /\ Good(x)
  BY DEF Good
<1>2. ASSUME NEW pc \in {"head", "body"}, x.pc = IF pc = "head" THEN "write" ELSE "head",
             Moves(k, [x EXCEPT !.pc = pc])
      PROVE  \E r : Turn(k, r)
  <2> DEFINE r == [x EXCEPT !.pc = pc]
  <2>1. Becomes(k, r) /\ down' = down
    BY <1>2 DEF Moves
  <2>2. r \in Call
    BY <1>1, <1>2, <2>1 DEF Call, Returning, Talking, Ended, Dialing
  <2>3. /\ r.pc = pc /\ r.ctx = x.ctx /\ r.dial = x.dial /\ r.c = x.c
        /\ r.err = x.err /\ r.gotC = x.gotC /\ r.sock = x.sock
        /\ r.deadline = x.deadline /\ r.raced = x.raced
    BY <1>1, <1>2, <2>1 DEF Call
  <2> HIDE DEF r
  <2>4. Good(r)
    BY <1>1, <1>2, <2>1, <2>2, <2>3
    DEF Call, Good, Sound, Races, Returning, Talking, Ended, Dialing
  <2>5. Left(r) < Left(x)
    BY <1>1, <1>2, <2>1, <2>3, <2>2, LeftType, LeftValues
    DEF Left, Talking, Ended
  <2> QED
    BY <1>1, <1>2, <2>1, <2>3, <2>4, <2>5 DEF Turn, Returning, Talking, Ended
<1>3. ASSUME NEW pc \in Ended, x.pc \in Talking,
             Moves(k, [x EXCEPT !.pc = pc, !.sock = "closed"])
      PROVE  \E r : Turn(k, r)
  <2> DEFINE r == [x EXCEPT !.pc = pc, !.sock = "closed"]
  <2>1. Becomes(k, r) /\ down' = down
    BY <1>3 DEF Moves
  <2>2. r \in Call
    BY <1>1, <1>3, <2>1 DEF Call, Returning, Talking, Ended, Dialing
  <2>3. /\ r.pc = pc /\ r.sock = "closed" /\ r.ctx = x.ctx
        /\ r.dial = x.dial /\ r.c = x.c /\ r.err = x.err /\ r.gotC = x.gotC
        /\ r.deadline = x.deadline /\ r.raced = x.raced
    BY <1>1, <1>3, <2>1 DEF Call
  <2> HIDE DEF r
  <2>4. Good(r)
    BY <1>1, <1>3, <2>1, <2>2, <2>3
    DEF Call, Good, Sound, Races, Returning, Talking, Ended, Dialing
  <2>5. Left(r) < Left(x)
    BY <1>1, <1>3, <2>1, <2>3, <2>2, LeftType, LeftValues
    DEF Left, Talking, Ended
  <2> QED
    BY <1>1, <1>3, <2>1, <2>3, <2>4, <2>5 DEF Turn, Returning, Talking, Ended
<1> QED
  BY <1>2, <1>3 DEF Talk, Talked, Talking, Ended

(* The managers: they dial, and wrap the connection.                       *)
LEMMA ManagerTurn ==
    ASSUME NEW k \in Calls, Good(call[k]),
           Shadowsocks(k) \/ VMess(k) \/ Juicity(k)
    PROVE  \E r : Turn(k, r)
<1> DEFINE x == call[k]
<1>1. x \in Call /\ Good(x)
  BY DEF Good
<1>2. CASE x.pc = "start" /\ DialContext(k, x)
  <2> DEFINE r == [x EXCEPT !.pc = "select", !.dial = "dial"]
  <2>1. Becomes(k, r) /\ down' = down
    BY <1>2 DEF DialContext, Moves
  <2>2. r \in Call
    BY <1>1, <1>2, <2>1 DEF Call, Returning, Talking, Ended, Dialing
  <2>3. /\ r.pc = "select" /\ r.dial = "dial" /\ r.ctx = x.ctx /\ r.c = x.c
        /\ r.err = x.err /\ r.gotC = x.gotC /\ r.sock = x.sock
        /\ r.deadline = x.deadline /\ r.raced = x.raced
    BY <1>1, <1>2, <2>1 DEF Call
  <2> HIDE DEF r
  <2>4. Good(r)
    BY <1>1, <1>2, <2>1, <2>2, <2>3
    DEF Call, Good, Sound, Races, Returning, Talking, Ended, Dialing
  <2>5. Left(r) < Left(x)
    BY <1>1, <1>2, <2>1, <2>3, <2>2, LeftType, LeftValues
    DEF Left, Talking, Ended
  <2> QED
    BY <1>1, <1>2, <2>1, <2>3, <2>4, <2>5 DEF Turn, Returning, Talking, Ended
<1>3. CASE x.pc = "start" /\ Fails(k, x)
  <2> DEFINE r == [x EXCEPT !.pc = "failed"]
  <2>1. Becomes(k, r) /\ down' = down
    BY <1>3 DEF Fails, Moves
  <2>2. r \in Call
    BY <1>1, <1>3, <2>1 DEF Call, Returning, Talking, Ended, Dialing
  <2>3. /\ r.pc = "failed" /\ r.ctx = x.ctx /\ r.dial = x.dial /\ r.c = x.c
        /\ r.err = x.err /\ r.gotC = x.gotC /\ r.sock = x.sock
        /\ r.deadline = x.deadline /\ r.raced = x.raced
    BY <1>1, <1>3, <2>1 DEF Call
  <2> HIDE DEF r
  <2>4. Good(r)
    BY <1>1, <1>3, <2>1, <2>2, <2>3
    DEF Call, Good, Sound, Races, Returning, Talking, Ended, Dialing
  <2>5. Left(r) < Left(x)
    BY <1>1, <1>3, <2>1, <2>3, <2>2, LeftType, LeftValues
    DEF Left, Talking, Ended
  <2> QED
    BY <1>1, <1>3, <2>1, <2>3, <2>4, <2>5 DEF Turn, Returning, Talking, Ended
<1>4. CASE /\ x.pc = "start"
           /\ Moves(k, [x EXCEPT !.pc = "connected", !.gotC = TRUE, !.sock = "open"])
  <2> DEFINE r == [x EXCEPT !.pc = "connected", !.gotC = TRUE,
                            !.sock = "open"]
  <2>1. Becomes(k, r) /\ down' = down
    BY <1>4 DEF Moves
  <2>2. r \in Call
    BY <1>1, <1>4, <2>1 DEF Call, Returning, Talking, Ended, Dialing
  <2>3. /\ r.pc = "connected" /\ r.gotC /\ r.sock = "open" /\ r.ctx = x.ctx
        /\ r.dial = x.dial /\ r.c = x.c /\ r.err = x.err
        /\ r.deadline = x.deadline /\ r.raced = x.raced
    BY <1>1, <1>4, <2>1 DEF Call
  <2> HIDE DEF r
  <2>4. Good(r)
    BY <1>1, <1>4, <2>1, <2>2, <2>3
    DEF Call, Good, Sound, Races, Returning, Talking, Ended, Dialing
  <2>5. Left(r) < Left(x)
    BY <1>1, <1>4, <2>1, <2>3, <2>2, LeftType, LeftValues
    DEF Left, Talking, Ended
  <2> QED
    BY <1>1, <1>4, <2>1, <2>3, <2>4, <2>5 DEF Turn, Returning, Talking, Ended
<1>5. CASE x.pc = "connected" /\ x.gotC /\ Moves(k, [x EXCEPT !.pc = "write"])
  <2> DEFINE r == [x EXCEPT !.pc = "write"]
  <2>1. Becomes(k, r) /\ down' = down
    BY <1>5 DEF Moves
  <2>2. r \in Call
    BY <1>1, <1>5, <2>1 DEF Call, Returning, Talking, Ended, Dialing
  <2>3. /\ r.pc = "write" /\ r.ctx = x.ctx /\ r.dial = x.dial /\ r.c = x.c
        /\ r.err = x.err /\ r.gotC = x.gotC /\ r.sock = x.sock
        /\ r.deadline = x.deadline /\ r.raced = x.raced
    BY <1>1, <1>5, <2>1 DEF Call
  <2> HIDE DEF r
  <2>4. Good(r)
    BY <1>1, <1>5, <2>1, <2>2, <2>3
    DEF Call, Good, Sound, Races, Returning, Talking, Ended, Dialing
  <2>5. Left(r) < Left(x)
    BY <1>1, <1>5, <2>1, <2>3, <2>2, LeftType, LeftValues
    DEF Left, Talking, Ended
  <2> QED
    BY <1>1, <1>5, <2>1, <2>3, <2>4, <2>5 DEF Turn, Returning, Talking, Ended
<1>6. CASE x.pc = "connected" /\ ~x.gotC /\ Becomes(k, x) /\ down' = TRUE
  <2>1. x.raced
    BY <1>1, <1>6
    DEF Call, Good, Sound, Races, Returning, Talking, Ended, Dialing
  <2>2. Left(x) <= Left(x)
    BY <1>1, LeftType
  <2> QED
    BY <1>1, <1>6, <2>1, <2>2 DEF Turn
<1>7. CASE x.pc = "connected" /\ WrapFails(k, x)
  <2> DEFINE r == [x EXCEPT !.pc = "failed", !.sock = "closed"]
  <2>1. Becomes(k, r) /\ down' = down
    BY <1>7 DEF WrapFails, Moves
  <2>2. r \in Call
    BY <1>1, <1>7, <2>1 DEF Call, Returning, Talking, Ended, Dialing
  <2>3. /\ r.pc = "failed" /\ r.sock = "closed" /\ r.ctx = x.ctx
        /\ r.dial = x.dial /\ r.c = x.c /\ r.err = x.err /\ r.gotC = x.gotC
        /\ r.deadline = x.deadline /\ r.raced = x.raced
    BY <1>1, <1>7, <2>1 DEF Call
  <2> HIDE DEF r
  <2>4. Good(r)
    BY <1>1, <1>7, <2>1, <2>2, <2>3
    DEF Call, Good, Sound, Races, Returning, Talking, Ended, Dialing
  <2>5. Left(r) < Left(x)
    BY <1>1, <1>7, <2>1, <2>3, <2>2, LeftType, LeftValues
    DEF Left, Talking, Ended
  <2> QED
    BY <1>1, <1>7, <2>1, <2>3, <2>4, <2>5 DEF Turn, Returning, Talking, Ended
<1> QED
  BY <1>2, <1>3, <1>4, <1>5, <1>6, <1>7 DEF Shadowsocks, VMess, Juicity, Wrap

-----------------------------------------------------------------------------
(* What a turn leaves: the record r, with its history of the race.         *)
LEMMA TurnEffect ==
    ASSUME DialerInv, NEW k \in Calls, NEW r, Turn(k, r)
    PROVE  /\ call' \in [Calls -> Call]
           /\ Good(call'[k])
           /\ Races(call'[k]) => call'[k].raced
           /\ r.raced => call'[k].raced
           /\ call'[k].pc = r.pc /\ call'[k].ctx = r.ctx
           /\ Left(call'[k]) = Left(r)
           /\ \A j \in Calls \ {k} : call'[j] = call[j]
           /\ ~down /\ roundPc' = roundPc
<1> DEFINE b == r.raced \/ Races(r)
           y == [r EXCEPT !.raced = b]
<1>1. call' = [call EXCEPT ![k] = y] /\ ~down /\ roundPc' = roundPc
  BY DEF Turn, Becomes, Races
<1>2. r \in Call /\ Good(r)
  BY DEF Turn, Good
<1>3. b \in BOOLEAN
  OBVIOUS
<1> HIDE DEF b
<1>4. y \in Call
  BY <1>2, <1>3 DEF Call
<1>5. /\ y.pc = r.pc /\ y.dial = r.dial /\ y.ctx = r.ctx /\ y.c = r.c
      /\ y.err = r.err /\ y.gotC = r.gotC /\ y.sock = r.sock
      /\ y.deadline = r.deadline /\ (y.raced <=> b)
  BY <1>2, <1>3 DEF Call
<1> HIDE DEF y
<1>6. /\ call' \in [Calls -> Call] /\ call'[k] = y
      /\ \A j \in Calls \ {k} : call'[j] = call[j]
  BY <1>1, <1>4 DEF DialerInv
<1>7. Races(y) => y.raced
  BY <1>5 DEF Races, b
<1>8. Good(y)
  BY <1>2, <1>4, <1>5
  DEF b, Call, Good, Sound, Races, Returning, Talking, Ended, Dialing
<1>9. Left(y) = Left(r)
  BY <1>5 DEF Left
<1> QED
  BY <1>1, <1>5, <1>6, <1>7, <1>8, <1>9 DEF b

(* Every step is a turn of a call, the commit, or the start of a round.    *)
LEMMA StepIsTurn ==
    ASSUME DialerInv, [DialerNext]_dialerVars
    PROVE  \/ \E k \in Calls : \E r : Turn(k, r)
           \/ Commit
           \/ NextRound
           \/ UNCHANGED dialerVars
<1>1. ASSUME NEW k \in Calls,
             \/ Caller(k) \/ Dial(k) \/ DialTCP(k) \/ ConnectProxy(k)
             \/ EndContext(k) \/ Watch(k) \/ Talk(k)
      PROVE  \E r : Turn(k, r)
  <2>1. Good(call[k]) /\ (Races(call[k]) => call[k].raced)
    BY DEF DialerInv
  <2> QED
    BY <1>1, <2>1, NewManagerTurn, DialTurn, ReturnTurn, TalkTurn, ManagerTurn
    DEF Caller, Dial
<1> QED
  BY <1>1 DEF DialerNext

(* A call of a round that begins.                                          *)
LEMMA NewCallGood ==
    /\ NewCall \in Call /\ Good(NewCall) /\ ~Races(NewCall)
    /\ NewCall.pc = "new" /\ NewCall.ctx = FALSE
<1> DEFINE w == CHOOSE w \in Ways : TRUE
<1>1. w \in Ways
  BY DialerAssumption
<1> HIDE DEF w
<1>2. NewCall = [pc |-> "new", how |-> w, ctx |-> FALSE, dial |-> "none",
                 c |-> FALSE, err |-> FALSE, gotC |-> FALSE, gotErr |-> FALSE,
                 sock |-> "none", deadline |-> FALSE, raced |-> FALSE]
  BY DEF NewCall, w
<1>3. NewCall \in Call
  BY <1>1, <1>2 DEF Call
<1>4. /\ NewCall.pc = "new" /\ NewCall.dial = "none" /\ NewCall.sock = "none"
      /\ NewCall.ctx = FALSE /\ ~NewCall.deadline
  BY <1>2
<1>5. Sound(NewCall)
  BY <1>4 DEF Sound, Returning, Talking
<1> QED
  BY <1>3, <1>4, <1>5 DEF Good, Races, Returning

LEMMA DialerInvInit == DialerInit => DialerInv
<1> SUFFICES ASSUME DialerInit PROVE DialerInv
  OBVIOUS
<1>1. call = [k \in Calls |-> NewCall] /\ roundPc = "pinging"
  BY DEF DialerInit
<1>2. down = FALSE
  BY Zenon DEF DialerInit
<1> QED
  BY <1>1, <1>2, NewCallGood DEF DialerInv

LEMMA DialerInvNext == DialerInv /\ [DialerNext]_dialerVars => DialerInv'
<1> SUFFICES ASSUME DialerInv, [DialerNext]_dialerVars PROVE DialerInv'
  OBVIOUS
<1>1. ASSUME NEW k \in Calls, NEW r, Turn(k, r)
      PROVE  DialerInv'
  <2>1. /\ call' \in [Calls -> Call]
        /\ Good(call'[k])
        /\ Races(call'[k]) => call'[k].raced
        /\ r.raced => call'[k].raced
        /\ call'[k].pc = r.pc
        /\ \A j \in Calls \ {k} : call'[j] = call[j]
        /\ ~down /\ roundPc' = roundPc
    BY <1>1, TurnEffect
  <2>2. /\ call[k].pc \in Ended => r.pc = call[k].pc
        /\ down' = down \/ (down' = TRUE /\ r.raced)
    BY <1>1 DEF Turn
  <2>3. \A j \in Calls : Good(call'[j]) /\ (Races(call'[j]) => call'[j].raced)
    BY <2>1 DEF DialerInv
  <2>4. down' \in BOOLEAN /\ (down' => \E j \in Calls : call'[j].raced)
    <3>1. CASE down' = down
      <4>1. down \in BOOLEAN /\ ~down
        BY <2>1 DEF DialerInv
      <4> QED
        BY <3>1, <4>1
    <3>2. CASE down' = TRUE /\ r.raced
      BY <2>1, <3>2
    <3> QED
      BY <2>2, <3>1, <3>2
  <2>5. \A j \in Calls : call[j].pc \in Ended => call'[j].pc \in Ended
    BY <2>1, <2>2
  <2>6. /\ roundPc' \in {"pinging", "committed"}
        /\ roundPc' = "committed" => \A j \in Calls : call'[j].pc \in Ended
    BY <2>1, <2>5 DEF DialerInv
  <2> QED
    BY <2>1, <2>3, <2>4, <2>6 DEF DialerInv, Good, Races, Sound
<1>2. CASE Commit
  BY <1>2 DEF Commit, DialerInv, Good, Races, Sound
<1>3. CASE NextRound
  <2>1. call' = [k \in Calls |-> NewCall] /\ roundPc' = "pinging"
    BY <1>3 DEF NextRound
  <2>2. down' = FALSE
    BY <1>3, Zenon DEF NextRound
  <2>3. \A k \in Calls : call'[k] = NewCall
    BY <2>1
  <2> QED
    BY <2>1, <2>2, <2>3, NewCallGood DEF DialerInv, Good, Races, Sound
<1>4. CASE UNCHANGED dialerVars
  BY <1>4 DEF dialerVars, DialerInv, Good, Races, Sound
<1> QED
  BY <1>1, <1>2, <1>3, <1>4, StepIsTurn

THEOREM DialerInductive == DialerSpec => []DialerInv
  BY DialerInvInit, DialerInvNext, PTL DEF DialerSpec

(* The types of the calls, of the round and of the panic; deadlines are    *)
(* set only on connections whose context has ended.                        *)
THEOREM DialerTyping == DialerSpec => []DialerTypeOK
<1>1. DialerInv => DialerTypeOK
  BY DEF DialerInv, DialerTypeOK, Good, Call
<1> QED
  BY <1>1, DialerInductive, PTL

(* No connection is left open by a call that is over, however late its     *)
(* dial is, for any number of calls.                                       *)
THEOREM NoLeaks == DialerSpec => []NoConnectionLeaks
<1>1. DialerInv => NoConnectionLeaks
  <2> SUFFICES ASSUME DialerInv, NEW k \in Calls, call[k].pc \in Ended,
                      call[k].dial \in {"none", "over", "done"}, ~call[k].raced
               PROVE  call[k].sock # "open"
    BY DEF NoConnectionLeaks
  <2>1. Sound(call[k])
    BY DEF DialerInv, Good
  <2> QED
    BY <2>1 DEF Sound, Ended
<1> QED
  BY <1>1, DialerInductive, PTL

(* A manager that is told of no error has an open connection of its own;   *)
(* a nil in its place, and with it a panic, comes only of the race of the  *)
(* dial with its context.                                                  *)
THEOREM Connected == DialerSpec => []ConnectedOrError
<1>1. DialerInv => ConnectedOrError
  <2> SUFFICES ASSUME DialerInv PROVE ConnectedOrError
    OBVIOUS
  <2>1. ASSUME NEW k \in Calls, call[k].pc = "connected", ~call[k].raced
        PROVE  call[k].gotC /\ call[k].sock = "open"
    <3>1. Sound(call[k])
      BY <2>1 DEF DialerInv, Good
    <3> QED
      BY <2>1, <3>1 DEF Sound
  <2> QED
    BY <2>1 DEF DialerInv, ConnectedOrError
<1> QED
  BY <1>1, DialerInductive, PTL

-----------------------------------------------------------------------------
(* The calls implement Deadline, but for its fairness.                     *)

LEMMA StatusInit == DialerInit => Promise!DeadlineInit
<1> SUFFICES ASSUME DialerInit PROVE Promise!DeadlineInit
  OBVIOUS
<1>1. call = [k \in Calls |-> NewCall]
  BY DEF DialerInit
<1>2. down = FALSE
  BY Zenon DEF DialerInit
<1>3. \A k \in Calls : ~(call[k].pc \in Ended) /\ call[k].ctx = FALSE
  BY <1>1, NewCallGood DEF Ended
<1> QED
  BY <1>2, <1>3 DEF Promise!DeadlineInit

LEMMA StatusNext ==
    DialerInv /\ [DialerNext]_dialerVars
      => [Promise!DeadlineNext]_(Promise!deadlineVars)
<1> SUFFICES ASSUME DialerInv, [DialerNext]_dialerVars
             PROVE  [Promise!DeadlineNext]_(Promise!deadlineVars)
  OBVIOUS
<1> DEFINE expired == [k \in Calls |-> call[k].ctx]
           status == [k \in Calls |-> IF call[k].pc \in Ended THEN call[k].pc
                                      ELSE IF down THEN "lost" ELSE "pending"]
<1>1. ASSUME NEW k \in Calls, NEW r, Turn(k, r)
      PROVE  [Promise!DeadlineNext]_(Promise!deadlineVars)
  <2>1. /\ call'[k].pc = r.pc /\ call'[k].ctx = r.ctx
        /\ \A j \in Calls \ {k} : call'[j] = call[j]
        /\ ~down
        /\ call[k] \in Call /\ call'[k] \in Call
    BY <1>1, TurnEffect DEF DialerInv
  <2>2. /\ call[k].pc \in Ended => r.pc = call[k].pc
        /\ r.ctx = call[k].ctx \/ (r.ctx = TRUE /\ r.pc = call[k].pc)
        /\ \/ down' = down
           \/ down' = TRUE /\ r.pc = call[k].pc /\ r.ctx = call[k].ctx
    BY <1>1 DEF Turn
  <2>3. CASE down' = down /\ r.pc = call[k].pc
    <3>1. status' = status
      BY <2>1, <2>3
    <3>2. CASE r.ctx = call[k].ctx
      <4>1. expired' = expired
        BY <2>1, <3>2
      <4> QED
        BY <3>1, <4>1 DEF Promise!deadlineVars
    <3>3. CASE r.ctx = TRUE
      <4>1. expired' = [expired EXCEPT ![k] = TRUE]
        BY <2>1, <3>3
      <4> QED
        BY <3>1, <4>1
        DEF Promise!DeadlineNext, Promise!Expire
    <3> QED
      BY <2>2, <3>2, <3>3
  <2>4. CASE down' = down /\ r.pc # call[k].pc
    <3>1. call[k].pc \notin Ended /\ r.ctx = call[k].ctx
      BY <2>2, <2>4
    <3>2. expired' = expired
      BY <2>1, <3>1
    <3>3. CASE r.pc \notin Ended
      <4>1. status' = status
        BY <2>1, <2>4, <3>1, <3>3
      <4> QED
        BY <3>2, <4>1 DEF Promise!deadlineVars
    <3>4. CASE r.pc \in Ended
      <4>1. status[k] = "pending" /\ status' = [status EXCEPT ![k] = r.pc]
        BY <2>1, <2>4, <3>1, <3>4
      <4> QED
        BY <3>2, <3>4, <4>1 DEF Promise!DeadlineNext, Promise!End, Ended
    <3> QED
      BY <3>3, <3>4
  <2>5. CASE down' = TRUE /\ r.pc = call[k].pc /\ r.ctx = call[k].ctx
    <3>1. expired' = expired
      BY <2>1, <2>5
    <3>2. \A j \in Calls : call'[j].pc = call[j].pc
      BY <2>1, <2>5
    <3>3. status' = [j \in Calls |-> IF status[j] = "pending" THEN "lost"
                                                              ELSE status[j]]
      BY <2>1, <2>5, <3>2 DEF Ended
    <3> QED
      BY <3>1, <3>3 DEF Promise!DeadlineNext, Promise!Crash
  <2> QED
    BY <2>2, <2>3, <2>4, <2>5
<1>2. CASE Commit \/ UNCHANGED dialerVars
  <2>1. UNCHANGED <<call, down>>
    BY <1>2 DEF Commit, dialerVars
  <2> QED
    BY <2>1 DEF Promise!deadlineVars
<1>3. CASE NextRound
  <2>1. call' = [k \in Calls |-> NewCall] /\ down' = FALSE
    BY <1>3, Zenon DEF NextRound
  <2>2. down \/ \A k \in Calls : call[k].pc \in Ended
    BY <1>3 DEF NextRound, DialerInv
  <2>3. \A k \in Calls : status[k] # "pending"
    BY <2>2 DEF Ended
  <2>4. \A k \in Calls : call'[k].pc \notin Ended /\ call'[k].ctx = FALSE
    BY <2>1, NewCallGood DEF Ended
  <2>5. /\ status' = [k \in Calls |-> "pending"]
        /\ expired' = [k \in Calls |-> FALSE]
    BY <2>1, <2>4
  <2> QED
    BY <2>3, <2>5 DEF Promise!DeadlineNext, Promise!NextCalls
<1> QED
  BY <1>1, <1>2, <1>3, StepIsTurn

(* Whatever servers, dials, the proxy and contexts do, a call ends at most *)
(* once, with an answer or a failure, only a panic loses calls, and no     *)
(* round begins while a call of the one before is pending.  That each call *)
(* ends in time is the fairness of Deadline, which TLC checks.             *)
THEOREM DeadlineRefinement ==
    DialerSpec => /\ Promise!DeadlineInit
                  /\ [][Promise!DeadlineNext]_(Promise!deadlineVars)
  BY StatusInit, StatusNext, DialerInductive, PTL DEF DialerSpec

-----------------------------------------------------------------------------
(* Why a round ends (RoundIsCommitted), but for the fairness: there is an  *)
(* end to what its calls can do.                                           *)
Ahead == {s \in Calls \X (1..25) : s[2] <= Left(call[s[1]])}

RoundLeft ==
    Cardinality(Ahead) + (IF down THEN 0 ELSE 1)
        + (IF roundPc = "pinging" THEN 1 ELSE 0)

LEMMA AheadIsFinite ==
    ASSUME IsFiniteSet(Calls), NEW S, S \subseteq Calls \X (1..25)
    PROVE  IsFiniteSet(S) /\ Cardinality(S) \in Nat
<1>1. 1 \in Int /\ 25 \in Int
  OBVIOUS
<1>2. IsFiniteSet(1..25)
  BY <1>1, FS_Interval, Zenon
<1>3. IsFiniteSet(Calls \X (1..25))
  BY <1>2, FS_Product
<1> QED
  BY <1>3, FS_Subset, FS_CardinalityType

(* A turn takes something away from what is ahead, or is a panic.          *)
LEMMA TurnLeavesLess ==
    ASSUME DialerInv, IsFiniteSet(Calls), NEW k \in Calls, NEW r, Turn(k, r)
    PROVE  RoundLeft' < RoundLeft
<1>1. /\ call' \in [Calls -> Call] /\ Left(call'[k]) = Left(r)
      /\ \A j \in Calls \ {k} : call'[j] = call[j]
      /\ ~down /\ roundPc' = roundPc
  BY TurnEffect
<1>2. \/ down' = down /\ Left(r) < Left(call[k])
      \/ down' = TRUE /\ Left(r) <= Left(call[k])
  BY DEF Turn
<1>3. Left(call[k]) \in 0..25 /\ Left(r) \in 0..25
  BY <1>1, LeftType DEF DialerInv
<1>4. Ahead \subseteq Calls \X (1..25) /\ Ahead' \subseteq Calls \X (1..25)
  BY DEF Ahead
<1>5. /\ IsFiniteSet(Ahead) /\ Cardinality(Ahead) \in Nat
      /\ Cardinality(Ahead') \in Nat
  BY <1>4, AheadIsFinite
<1>6. Ahead' \subseteq Ahead
  <2> SUFFICES ASSUME NEW s \in Ahead' PROVE s \in Ahead
    OBVIOUS
  <2>1. s \in Calls \X (1..25) /\ s[2] <= Left(call'[s[1]])
    BY DEF Ahead
  <2>2. CASE s[1] = k
    <3>1. s[2] <= Left(call[k])
      BY <1>1, <1>2, <1>3, <2>1, <2>2
    <3> QED
      BY <2>1, <2>2, <3>1 DEF Ahead
  <2>3. CASE s[1] # k
    BY <1>1, <2>1, <2>3 DEF Ahead
  <2> QED
    BY <2>2, <2>3
<1>7. /\ Cardinality(Ahead') <= Cardinality(Ahead)
      /\ Cardinality(Ahead) = Cardinality(Ahead') => Ahead = Ahead'
  BY <1>5, <1>6, FS_Subset
<1>8. CASE down' = down /\ Left(r) < Left(call[k])
  <2> DEFINE s == <<k, Left(call[k])>>
  <2>1. s \in Ahead
    BY <1>3, <1>8 DEF Ahead
  <2>2. s \notin Ahead'
    BY <1>1, <1>3, <1>8 DEF Ahead
  <2>3. Cardinality(Ahead') < Cardinality(Ahead)
    BY <1>5, <1>7, <2>1, <2>2
  <2> QED
    BY <1>1, <1>5, <1>8, <2>3 DEF RoundLeft
<1>9. CASE down' = TRUE
  BY <1>1, <1>5, <1>7, <1>9 DEF RoundLeft
<1> QED
  BY <1>2, <1>8, <1>9

(* Nothing that a manager, DialContext or its goroutine does is ever done  *)
(* again: however servers, the proxy and contexts behave, a round of any   *)
(* number of calls has fewer and fewer steps left.                         *)
THEOREM RoundDrains ==
    ASSUME IsFiniteSet(Calls)
    PROVE  DialerSpec => /\ [](RoundLeft \in Nat)
                         /\ [][~NextRound => RoundLeft' < RoundLeft]_dialerVars
<1>1. Ahead \subseteq Calls \X (1..25)
  BY DEF Ahead
<1>2. Cardinality(Ahead) \in Nat
  BY <1>1, AheadIsFinite
<1>3. RoundLeft \in Nat
  BY <1>2 DEF RoundLeft
<1>4. DialerInv /\ [DialerNext]_dialerVars
        => [~NextRound => RoundLeft' < RoundLeft]_dialerVars
  <2> SUFFICES ASSUME DialerInv, DialerNext, ~NextRound, ~UNCHANGED dialerVars
               PROVE  RoundLeft' < RoundLeft
    OBVIOUS
  <2>1. CASE Commit
    <3>1. Ahead' = Ahead
      BY <2>1 DEF Commit, Ahead
    <3> QED
      BY <1>2, <2>1, <3>1 DEF Commit, RoundLeft
  <2> QED
    BY <2>1, StepIsTurn, TurnLeavesLess
<1> QED
  BY <1>3, <1>4, DialerInductive, PTL DEF DialerSpec

-----------------------------------------------------------------------------
(* The list of Chinese networks.  What has been read of a download is its  *)
(* first lines; what is in use is one list, or its first lines and maybe a *)
(* line cut short.                                                         *)

FirstLines(edition, n) == {Network(edition, m) : m \in 1..n}

ReadInv ==
    /\ IsFiniteSet(nt)
    /\ reading \in Editions \cup {-1}
    /\ reading # -1 =>
         /\ Cardinality(nt) \in 0..Length
         /\ nt = FirstLines(reading, Cardinality(nt))

CNListInv == ReadInv /\ TableIsOfOneList

LEMMA WholeIsOneList ==
    ASSUME table \in {Whole(edition) : edition \in Editions}
    PROVE  TableIsOfOneList
<1>1. PICK edition \in Editions : table = Whole(edition)
  OBVIOUS
<1>2. /\ Length \in 0..Length
      /\ table \cap Whole(edition) = {Network(edition, m) : m \in 1..Length}
      /\ table \ Whole(edition) = {}
  BY <1>1, CNListAssumption DEF Whole
<1> QED
  BY <1>1, <1>2 DEF TableIsOfOneList

(* Another line has been read.                                             *)
LEMMA ReadLine ==
    ASSUME ReadInv, reading # -1, ThisLine <= Length
    PROVE  LET more == nt \cup {Network(reading, ThisLine)}
           IN  /\ IsFiniteSet(more)
               /\ Cardinality(more) \in 0..Length
               /\ more = FirstLines(reading, Cardinality(more))
<1> DEFINE c == Cardinality(nt)
           more == nt \cup {Network(reading, ThisLine)}
<1>1. /\ c \in 0..Length /\ Length \in Nat /\ c + 1 <= Length
      /\ nt = FirstLines(reading, c) /\ IsFiniteSet(nt)
      /\ ThisLine = c + 1
  BY CNListAssumption DEF ReadInv, ThisLine
<1> HIDE DEF c
<1>2. Network(reading, c + 1) \notin nt
  <2>1. \A m \in 1..c : Network(reading, m) # Network(reading, c + 1)
    BY <1>1 DEF Network
  <2> QED
    BY <1>1, <2>1 DEF FirstLines
<1>3. IsFiniteSet(more) /\ Cardinality(more) = c + 1
  BY <1>1, <1>2, FS_AddElement DEF c
<1>4. more = FirstLines(reading, c + 1)
  <2>1. 1..(c + 1) = 1..c \cup {c + 1}
    BY <1>1
  <2> QED
    BY <1>1, <2>1 DEF FirstLines
<1> HIDE DEF more
<1>5. /\ Cardinality(more) \in 0..Length
      /\ more = FirstLines(reading, Cardinality(more))
  BY <1>1, <1>3, <1>4
<1> USE DEF more
<1> QED
  BY <1>3, <1>5

(* An end of the file, wherever it comes, leaves a list that is of one     *)
(* edition.                                                                *)
LEMMA InstallOne ==
    ASSUME ReadInv, EndOfFile
    PROVE  TableIsOfOneList'
<1> DEFINE c == Cardinality(nt)
<1>1. /\ reading \in Editions /\ c \in 0..Length /\ Length \in Nat
      /\ nt = FirstLines(reading, c)
      /\ ThisLine = c + 1
  BY CNListAssumption DEF ReadInv, EndOfFile, ThisLine
<1> HIDE DEF c
<1>2. FirstLines(reading, c) \subseteq Whole(reading)
  BY <1>1 DEF FirstLines, Whole
<1>3. ASSUME Install(nt)
      PROVE  TableIsOfOneList'
  <2>1. /\ table' = FirstLines(reading, c)
        /\ table' # Whole(reading) => torn'
    BY <1>1, <1>3 DEF Install
  <2>2. /\ table' \cap Whole(reading) = {Network(reading, m) : m \in 1..c}
        /\ table' \ Whole(reading) = {}
    BY <1>2, <2>1 DEF FirstLines
  <2> QED
    BY <1>1, <2>1, <2>2 DEF TableIsOfOneList
<1>4. ASSUME ThisLine <= Length,
             Install(nt \cup {[Network(reading, ThisLine) EXCEPT !.wide = TRUE]})
      PROVE  TableIsOfOneList'
  <2> DEFINE w == [Network(reading, c + 1) EXCEPT !.wide = TRUE]
  <2>1. w.of = reading /\ w.line = c + 1
    BY DEF Network
  <2>2. w.wide
    BY DEF Network
  <2> HIDE DEF w
  <2>3. \A m \in Nat : ~Network(reading, m).wide
    BY DEF Network
  <2>4. w \notin Whole(reading)
    BY <1>1, <2>2, <2>3 DEF Whole
  <2>5. /\ table' = FirstLines(reading, c) \cup {w}
        /\ table' # Whole(reading) => torn'
    BY <1>1, <1>4 DEF Install, w
  <2>6. /\ table' \cap Whole(reading) = {Network(reading, m) : m \in 1..c}
        /\ table' \ Whole(reading) = {w}
    BY <1>2, <2>4, <2>5 DEF FirstLines
  <2>7. table' # Whole(reading)
    BY <2>4, <2>5
  <2> QED
    BY <1>1, <2>1, <2>2, <2>5, <2>6, <2>7 DEF TableIsOfOneList
<1> QED
  BY <1>3, <1>4 DEF EndOfFile

LEMMA CNListInvInit == CNListInit => CNListInv
<1> SUFFICES ASSUME CNListInit PROVE CNListInv
  OBVIOUS
<1>1. table = Whole(0) /\ 0 \in Editions
  BY CNListAssumption DEF CNListInit, ChinaIPList, Whole
<1>2. ReadInv
  BY FS_EmptySet DEF CNListInit, ReadInv
<1> QED
  BY <1>1, <1>2, WholeIsOneList DEF CNListInv

LEMMA CNListInvNext == CNListInv /\ [CNListNext]_cnVars => CNListInv'
<1> SUFFICES ASSUME CNListInv, [CNListNext]_cnVars PROVE CNListInv'
  OBVIOUS
<1>1. ReadInv /\ TableIsOfOneList /\ Length \in Nat /\ Editions \subseteq Nat
  BY CNListAssumption DEF CNListInv
<1>2. CASE Get
  <2>1. reading' \in Editions /\ nt' = {} /\ UNCHANGED <<table, torn>>
    BY <1>2 DEF Get
  <2>2. ReadInv'
    BY <1>1, <2>1, FS_EmptySet DEF ReadInv, FirstLines
  <2> QED
    BY <1>1, <2>1, <2>2 DEF CNListInv, TableIsOfOneList
<1>3. CASE Read
  <2>1. /\ reading # -1 /\ ThisLine <= Length
        /\ nt' = nt \cup {Network(reading, ThisLine)}
        /\ UNCHANGED <<table, torn, reading>>
    BY <1>3 DEF Read
  <2>2. ReadInv'
    BY <1>1, <2>1, ReadLine DEF ReadInv
  <2> QED
    BY <1>1, <2>1, <2>2 DEF CNListInv, TableIsOfOneList
<1>4. CASE EndOfFile
  <2>1. reading' = -1 /\ nt' = {}
    BY <1>4 DEF EndOfFile, Install
  <2>2. ReadInv'
    BY <2>1, FS_EmptySet DEF ReadInv
  <2> QED
    BY <1>1, <1>4, <2>2, InstallOne DEF CNListInv
<1>5. CASE BadLine
  <2>1. reading' = -1 /\ nt' = {} /\ UNCHANGED <<table, torn>>
    BY <1>5 DEF BadLine
  <2>2. ReadInv'
    BY <2>1, FS_EmptySet DEF ReadInv
  <2> QED
    BY <1>1, <2>1, <2>2 DEF CNListInv, TableIsOfOneList
<1>6. CASE UNCHANGED cnVars
  BY <1>1, <1>6 DEF cnVars, CNListInv, ReadInv, TableIsOfOneList
<1> QED
  BY <1>2, <1>3, <1>4, <1>5, <1>6 DEF CNListNext

(* A proxy is chosen only if CNProxy can be used, and then it is that one. *)
LEMMA ProxyChosen ==
    ASSUME NEW h, NEW dialer \in ChooseDialer(h), dialer # Straight
    PROVE  /\ dialer.forward = "tls" <=> cnProxy = "https"
           /\ \E a \in AddressesOf[h] : IsChinaIPLookupTable(a)
<1>1. /\ GetCNProxyDialer # NoDialer
      /\ dialer = GetCNProxyDialer
      /\ \E a \in AddressesOf[h] : IsChinaIPLookupTable(a)
  BY DEF ChooseDialer
<1>2. /\ DOMAIN DialerTypes = {"http", "https"}
      /\ DialerTypes["http"] = "direct" /\ DialerTypes["https"] = "tls"
  BY DEF DialerTypes
<1>3. CASE cnProxy \in DOMAIN DialerTypes
  <2>1. dialer = [dials |-> "proxy", forward |-> DialerTypes[cnProxy]]
    BY <1>1, <1>3 DEF GetCNProxyDialer, NewHTTPProxy
  <2> QED
    BY <1>1, <1>2, <1>3, <2>1
<1>4. CASE cnProxy \notin DOMAIN DialerTypes
  <2>1. dialer = [dials |-> "proxy", forward |-> "direct"]
    BY <1>1, <1>4 DEF GetCNProxyDialer, NewSOCKS5
  <2> QED
    BY <1>1, <1>2, <1>4, <2>1
<1> QED
  BY <1>3, <1>4

(* Whenever an update comes, goes on or fails, lookups see one edition of  *)
(* the list; no server outside China is dialled through the proxy while it *)
(* is whole, and none without a proxy that can be used.                    *)
THEOREM ChinaOnly == CNListSpec => []ProxyIsForChina
<1>1. CNListInv => ProxyIsForChina
  <2> SUFFICES ASSUME CNListInv, NEW h \in DOMAIN AddressesOf,
                      NEW dialer \in ChooseDialer(h) \ {Straight}
               PROVE  /\ dialer.forward = "tls" <=> cnProxy = "https"
                      /\ torn \/ AddressesOf[h] \ {0} # {}
    BY DEF ProxyIsForChina, CNListInv
  <2>1. dialer.forward = "tls" <=> cnProxy = "https"
    BY ProxyChosen
  <2>2. PICK a \in AddressesOf[h] : IsChinaIPLookupTable(a)
    BY ProxyChosen
  <2>3. ASSUME ~torn PROVE a # 0
    <3>1. PICK edition \in Editions : table = Whole(edition)
      BY <2>3 DEF CNListInv, TableIsOfOneList
    <3>2. PICK e \in table : e.wide \/ e.line = a
      BY <2>2 DEF IsChinaIPLookupTable
    <3>3. PICK n \in 1..Length : e = Network(edition, n)
      BY <3>1, <3>2 DEF Whole
    <3>4. ~e.wide /\ e.line = n
      BY <3>3 DEF Network
    <3> QED
      BY <3>2, <3>4, CNListAssumption
  <2> QED
    BY <2>1, <2>3
<1> QED
  BY <1>1, CNListInvInit, CNListInvNext, PTL DEF CNListSpec

=============================================================================

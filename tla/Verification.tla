---------------------------- MODULE Verification ----------------------------
(***************************************************************************)
(* How a member proves to belong to a chat: the web page shows a code, the *)
(* member posts "/verify <code>" in the chat, which is a channel whose     *)
(* posts are anonymous, and the page may then ask for tickets of that      *)
(* chat, and renew them, with the code.                                    *)
(*                                                                         *)
(* Times are in minutes, and relative: what is left of a code's life, and  *)
(* how long ago something happened.                                        *)
(***************************************************************************)
EXTENDS Integers

CONSTANTS
    Codes,              \* what gonanoid.Generate may return
    Channels,           \* what Telegram calls a chat
    Forms               \* slots for requests for tickets in flight: a bound

WaitingLife == 1        \* of a code that has been shown
DoneLife == 2           \* of a code that has been posted

VARIABLES
    verification,       \* the verification bucket
    form,               \* requests between Verified and SaveTicket
    posted,             \* history: how long ago a code was posted in a chat,
                        \* anonymously, and passed
    shown               \* history: how long ago the code was given out

verificationVars == <<verification, form, posted, shown>>

Gone == [progress |-> "Gone"]
Blank == [pc |-> "blank"]

(* A digest of the number of a channel is Sweet Lisa's name for it.        *)
ChatIdentifier(channel) == <<"uuid5", channel>>
Chats == {ChatIdentifier(channel) : channel \in Channels}

(* A post: its command, if it begins with a slash, and what follows.       *)
Posts ==
    [channel : Channels, signed : BOOLEAN, command : {"verify", "other"},
     params : {<<>>} \cup {<<c>> : c \in Codes}]

(* Times further back make no difference.                                  *)
LongAgo == WaitingLife + DoneLife + 1
Later(n) == IF n < LongAgo THEN n + 1 ELSE n

Verifications ==
    [chat : Chats, progress : {"Waiting", "Done"}, left : -1..DoneLife]

VerificationTypeOK ==
    /\ verification \in [Codes -> {Gone} \cup Verifications]
    /\ form \in [Forms -> {Blank} \cup
                          [pc : {"save"}, chat : Chats, posted : 0..LongAgo]]
    /\ posted \in [Codes -> [Chats -> 0..LongAgo]]
    /\ shown \in [Codes -> 0..LongAgo]

VerificationInit ==
    /\ verification = [c \in Codes |-> Gone]
    /\ form = [f \in Forms |-> Blank]
    /\ posted = [c \in Codes |-> [ch \in Chats |-> LongAgo]]
    /\ shown = [c \in Codes |-> LongAgo]

-----------------------------------------------------------------------------
(* common.Expired.                                                         *)
Expired(v) == v.left < 0

New(c, ch, life) ==
    /\ verification' = [verification EXCEPT ![c] =
         [chat |-> ch, progress |-> "Waiting", left |-> life]]
    /\ shown' = [shown EXCEPT ![c] = 0]
    /\ UNCHANGED <<form, posted>>

(* Variant: any code is taken.                                             *)
NewVerificationAny(c, ch) == New(c, ch, WaitingLife)

(* NewVerification generates codes until one is not in the bucket.         *)
NewVerification(c, ch) ==
    verification[c] = Gone /\ New(c, ch, WaitingLife)

(* The page asks for a code; it may ask again.                             *)
GetVerification(ch) == \E c \in Codes : NewVerification(c, ch)

Pass(c) ==
    verification' = [verification EXCEPT ![c].progress = "Done",
                                         ![c].left = DoneLife]

(* Variant: a code may be posted again and again.                          *)
VerifyAgain(c, ch) ==
    /\ verification[c] # Gone
    /\ verification[c].chat = ch
    /\ ~Expired(verification[c])
    /\ Pass(c)

Verify(c, ch) ==
    /\ verification[c] # Gone
    /\ verification[c].chat = ch
    /\ ~Expired(verification[c])
    /\ verification[c].progress = "Waiting"
    /\ Pass(c)

(* /verify, with a code.                                                   *)
VerifyCommand(m) ==
    /\ m.params # <<>>
    /\ Verify(m.params[1], ChatIdentifier(m.channel))

Handle(m) ==
    /\ VerifyCommand(m)
    /\ posted' = IF m.signed THEN posted
                 ELSE [posted EXCEPT ![m.params[1]][ChatIdentifier(m.channel)] = 0]
    /\ UNCHANGED <<form, shown>>

(* Variant: signed posts are as good.                                      *)
OnChannelPostSigned(m) ==
    /\ m.command = "verify"
    /\ Handle(m)

(* The bot looks up the command and wants the post to be anonymous.  The   *)
(* other commands have nothing to do with codes.                           *)
OnChannelPost(m) ==
    /\ m.command = "verify"
    /\ ~m.signed
    /\ Handle(m)

Verified(c, ch) ==
    /\ verification[c] # Gone
    /\ verification[c].chat = ch
    /\ ~Expired(verification[c])
    /\ verification[c].progress = "Done"

(* GetTicket and PostRenew ask for a ticket of a chat in the same way ...  *)
AskTicket(f, c, ch) ==
    /\ form[f] = Blank
    /\ Verified(c, ch)
    /\ form' = [form EXCEPT ![f] =
                  [pc |-> "save", chat |-> ch, posted |-> posted[c][ch]]]
    /\ UNCHANGED <<verification, posted, shown>>

(* ... and save it in a transaction of its own: Fleet's GetTicket, Renew.  *)
SaveTicket(f) ==
    /\ form[f].pc = "save"
    /\ form' = [form EXCEPT ![f] = Blank]
    /\ UNCHANGED <<verification, posted, shown>>

(* Variant: codes that have been posted are kept.                          *)
CleanWaiting ==
    LET old == {c \in Codes : /\ verification[c] # Gone
                              /\ verification[c].progress = "Waiting"
                              /\ Expired(verification[c])}
    IN  /\ old # {}
        /\ verification' = [c \in Codes |->
                              IF c \in old THEN Gone ELSE verification[c]]
        /\ UNCHANGED <<form, posted, shown>>

(* The cleaner of the bucket, every ten seconds.                           *)
CleanVerifications ==
    LET old == {c \in Codes : verification[c] # Gone /\ Expired(verification[c])}
    IN  /\ old # {}
        /\ verification' = [c \in Codes |->
                              IF c \in old THEN Gone ELSE verification[c]]
        /\ UNCHANGED <<form, posted, shown>>

Minute ==
    /\ verification' = [c \in Codes |->
         IF verification[c] # Gone /\ ~Expired(verification[c])
         THEN [verification[c] EXCEPT !.left = @ - 1] ELSE verification[c]]
    /\ posted' = [c \in Codes |-> [ch \in Chats |-> Later(posted[c][ch])]]
    /\ shown' = [c \in Codes |-> Later(shown[c])]
    /\ UNCHANGED form

VerificationNext ==
    \/ \E ch \in Chats : GetVerification(ch)
    \/ \E m \in Posts : OnChannelPost(m)
    \/ \E f \in Forms, c \in Codes, ch \in Chats : AskTicket(f, c, ch)
    \/ \E f \in Forms : SaveTicket(f)
    \/ CleanVerifications
    \/ Minute

(* Tickers tick, and time passes.                                          *)
VerificationFairness ==
    /\ WF_verificationVars(CleanVerifications)
    /\ WF_verificationVars(Minute)

VerificationSpec ==
    VerificationInit /\ [][VerificationNext]_verificationVars
                     /\ VerificationFairness

-----------------------------------------------------------------------------
(* Whoever is about to get a ticket has shown to belong to its chat: the   *)
(* code was posted there, anonymously, two minutes before the check at     *)
(* most - whatever codes were posted elsewhere, cleaned, or given out      *)
(* again meanwhile.                                                        *)
TicketIsVouched ==
    \A f \in Forms : form[f].pc = "save" => form[f].posted <= DoneLife

(* "Passed. This code is valid within 2 minutes": no cleaner, new code or  *)
(* second /verify takes that from a member.                                *)
PassedIsValid ==
    \A c \in Codes, ch \in Chats : posted[c][ch] <= DoneLife => Verified(c, ch)

(* A code may be used for any number of tickets, but not for longer than   *)
(* its two lives together after it was shown.                              *)
CodesAreShortLived ==
    \A c \in Codes :
        verification[c] # Gone /\ ~Expired(verification[c]) =>
            shown[c] <= WaitingLife + DoneLife

(* No code stays in the bucket for ever.                                   *)
CodesAreCleaned ==
    \A c \in Codes : verification[c] # Gone ~> verification[c] = Gone

=============================================================================

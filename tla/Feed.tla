-------------------------------- MODULE Feed --------------------------------
(***************************************************************************)
(* The feed of one chat: AddFeed puts an entry into it inside the          *)
(* transaction that registers, disconnects or resets a server, and an      *)
(* hourly round of TickUpdateBackground, in a View and an Update of its    *)
(* own, drops what is older than two days.                                 *)
(*                                                                         *)
(* An entry is its age: which entries there are is Registry's business.    *)
(***************************************************************************)
EXTENDS Integers, Sequences, FiniteSetsExt

CONSTANTS
    Rounds,             \* slots for rounds in flight: a bound
    MaxEntries          \* bound on the entries of the feed

Keep == 2               \* 48 hours, in days
MaxLag == 1             \* bound on the days a round takes
Oldest == Keep + MaxLag + 1 \* ages further back make no difference

VARIABLES
    chatFeed,           \* the entries' ages, newest first
    cleaning,           \* the rounds in flight: their tick and their copy
    added               \* history: how many entries of each age were made

feedVars == <<chatFeed, cleaning, added>>

Ages == 0..Oldest
NoRound == [pc |-> "none"]

FeedInit ==
    /\ chatFeed = <<>>
    /\ cleaning = [r \in Rounds |-> NoRound]
    /\ added = [a \in Ages |-> 0]

-----------------------------------------------------------------------------
(* sort.SliceStable by Created, the newest first: the place of an entry is *)
(* after those that are newer, and those as old that were before it.       *)
NewestFirst(entries) ==
    LET Place(i) == Cardinality({j \in DOMAIN entries :
                        \/ entries[j] < entries[i]
                        \/ entries[j] = entries[i] /\ j <= i})
    IN  [p \in DOMAIN entries |->
            entries[CHOOSE i \in DOMAIN entries : Place(i) = p]]

AddFeed ==
    /\ Len(chatFeed) < MaxEntries
    /\ chatFeed' = NewestFirst(<<0>> \o chatFeed)
    /\ added' = [added EXCEPT ![0] = @ + 1]
    /\ UNCHANGED cleaning

(* The service's GetChatFeed: the entries, in any of the formats it knows. *)
Formats == {"RSS", "Atom", "JSON"}
ServeFeed(format) == [format |-> format, items |-> NewestFirst(chatFeed)]

(* What follows a chat's name in the URL, and what it is in lower case.    *)
Lower ==
    [ext \in {".rss", ".RSS", ".atom", ".json", ".html", ".", ""} |->
        IF ext = ".RSS" THEN ".rss" ELSE ext]

Page == [format |-> "page", items |-> <<>>]

(* An answer of the API: what has failed is told in a message.             *)
Response(code, message) ==
    [format |-> "API", items |-> <<>>, code |-> code, message |-> message]

BadRequest == Response("FAIL", "bad request")

GetChatFeed(ext) ==
    CASE Lower[ext] = ".atom" -> ServeFeed("Atom")
      [] Lower[ext] = ".rss" -> ServeFeed("RSS")
      [] Lower[ext] = ".json" -> ServeFeed("JSON")
      [] OTHER -> BadRequest

GetChat(ext) ==
    IF Lower[ext] \in {".rss", ".atom", ".json"} THEN GetChatFeed(ext) ELSE BadRequest

(* The page of the chat, when there is nothing but a dot, if that.         *)
RouteChat(ext) == IF ext \in {"", "."} THEN Page ELSE GetChat(ext)

(* A tick, and its View: the bucket is copied.                             *)
ViewFeed(r) ==
    /\ cleaning[r] = NoRound
    /\ cleaning' = [cleaning EXCEPT ![r] =
                      [pc |-> "viewed", ago |-> 0, copy |-> chatFeed]]
    /\ UNCHANGED <<chatFeed, added>>

(* From the end, entries older than two days when the round ticked go.     *)
DropTail(entries, ago) ==
    LET feed == NewestFirst(entries)
        recent == {i \in DOMAIN feed : feed[i] - ago <= Keep}
    IN  SubSeq(feed, 1, Max(recent \cup {0}))

(* Variant: the todo works on the round's own copy.                        *)
UpdateCopy(r) ==
    /\ cleaning[r].pc = "viewed"
    /\ chatFeed' = DropTail(cleaning[r].copy, cleaning[r].ago)
    /\ cleaning' = [cleaning EXCEPT ![r] = NoRound]
    /\ UNCHANGED added

(* Its Update: the todo reads the feed again.                              *)
UpdateFeed(r) ==
    /\ cleaning[r].pc = "viewed"
    /\ chatFeed' = DropTail(chatFeed, cleaning[r].ago)
    /\ cleaning' = [cleaning EXCEPT ![r] = NoRound]
    /\ UNCHANGED added

Day ==
    LET Older(age) == IF age < Oldest THEN age + 1 ELSE age
    IN  /\ \A r \in Rounds : cleaning[r] # NoRound => cleaning[r].ago < MaxLag
        /\ chatFeed' = [i \in DOMAIN chatFeed |-> Older(chatFeed[i])]
        /\ cleaning' = [r \in Rounds |->
                          IF cleaning[r] = NoRound THEN NoRound
                          ELSE [cleaning[r] EXCEPT !.ago = @ + 1]]
        /\ added' = [a \in Ages |-> IF a = 0 \/ a = Oldest THEN 0 ELSE added[a - 1]]

FeedNext ==
    \/ AddFeed
    \/ \E r \in Rounds : ViewFeed(r) \/ UpdateFeed(r)
    \/ Day

(* Rounds begin and end, and time passes.                                  *)
FeedFairness ==
    /\ \A r \in Rounds : WF_feedVars(ViewFeed(r)) /\ WF_feedVars(UpdateFeed(r))
    /\ WF_feedVars(Day)

FeedSpec == FeedInit /\ [][FeedNext]_feedVars /\ FeedFairness

-----------------------------------------------------------------------------
(* The feed served has every entry of the last two days, in order, in      *)
(* whatever format: none is lost to a round that read the feed before the  *)
(* entry was made, or that ends days after it began.                       *)
FeedIsRecent ==
    \A ext \in DOMAIN Lower :
        LET page == RouteChat(ext)
            Count(a) == Cardinality({i \in DOMAIN page.items : page.items[i] = a})
        IN  page.format \in Formats =>
              /\ \A a \in 0..Keep : Count(a) = added[a]
              /\ \A i, j \in DOMAIN page.items :
                    i < j => page.items[i] <= page.items[j]

(* What is older than two days, and the day a round may take, is gone from *)
(* the feed again and again.                                               *)
OldAreDropped == []<>(\A i \in DOMAIN chatFeed : chatFeed[i] < Oldest)

=============================================================================

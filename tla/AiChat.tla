-------------------------------- MODULE AiChat --------------------------------
(***************************************************************************)
(* One AI chat: the stored transcript, the provider conversation that is   *)
(* kept in memory, the reply being written and the cards on which a person *)
(* decides.  From apps/api/src/ai/chat/service.ts, agent.ts and live.ts.   *)
(*                                                                         *)
(* Every await is a step boundary.  A part of a reply matters only as the  *)
(* card it shows, and a tool call that shows no card is one whose          *)
(* verification failed.  A conversation knows which of its calls have no   *)
(* result yet, because a provider refuses to go on without them.           *)
(***************************************************************************)
EXTENDS Integers, FiniteSets, Sequences

CONSTANTS
    MaxRequests,   \* bound: how many requests and restarts there are
    MaxCalls,      \* bound: how many tool calls the assistant makes
    Meetings       \* bound: what may happen while a request is handled

ASSUME ChatBounds ==
    /\ MaxRequests \in Nat /\ MaxCalls \in Nat \ {0}
    /\ Meetings \subseteq SUBSET {"replies", "requests"}

(* A message and its reply are named by the request that sent it, 0 is     *)
(* none, and a card by the call it shows.                                  *)
Asking == 1..MaxRequests

Messages == Asking

NoMessage == 0

Cards == 1..MaxCalls

CardStates == {"none", "pending", "applied", "failed", "declined"}

NoCards == [k \in Cards |-> "none"]

(***************************************************************************)
(* meets: whether replies move on by themselves, and other requests are    *)
(* handled, while a request is.                                            *)
(* parts: the stored cards of every reply.  live: the conversation of the  *)
(* LiveChats map, 0 for none, and conversations all there have been.       *)
(* turns: the promises of startTurn.  drawn: calls made so far.            *)
(***************************************************************************)
VARIABLES meets, transcript, parts, liveChat, conversations, turns, asking, drawn

chatVars == <<meets, transcript, parts, liveChat, conversations, turns, asking, drawn>>

NewConversation == [pending |-> {}, held |-> {}, turn |-> 0, array |-> 0, owed |-> {}]

NewRequest == [step |-> "new", conv |-> 0, message |-> NoMessage, before |-> NoCards,
               card |-> 1, choice |-> "declined", results |-> {}, awaits |-> 0]

Answered == [NewRequest EXCEPT !.step = "done"]

ChatInit ==
    /\ meets \in Meetings
    /\ transcript = <<>>
    /\ parts = [m \in Messages |-> NoCards]
    /\ liveChat = 0
    /\ conversations = <<>>
    /\ turns = <<>>
    /\ asking = [r \in Asking |-> NewRequest]
    /\ drawn = 0

UnderWay(r) == asking[r].step \notin {"new", "done"}

Undisturbed == "replies" \in meets \/ \A r \in Asking : ~UnderWay(r)

IsNext(r) == asking[r].step = "new" /\ \A s \in 1..r-1 : asking[s].step # "new"

MayBegin(r) ==
    /\ IsNext(r)
    /\ "requests" \in meets \/ \A s \in Asking : ~UnderWay(s)

At(r, step) == asking[r].step = step

Goes(r, step) ==
    asking' = [asking EXCEPT ![r] = IF step = "done" THEN Answered
                                    ELSE [asking[r] EXCEPT !.step = step]]

(* The reply of conversation c that is being written, if any.              *)
Writing(c) == c # 0 /\ conversations[c].turn # 0

(***************************************************************************)
(* startTurn: the reply of `message` goes on in conversation c with the    *)
(* results of tool calls, or with a message of the person alone.           *)
(***************************************************************************)
NewTurn(c, message, results, shown) ==
    [conv |-> c, message |-> message, results |-> results, shown |-> shown,
     step |-> "ask", calls |-> {}, proposed |-> {}, aborted |-> FALSE]

Ended(turn) ==
    [NewTurn(turn.conv, turn.message, {}, turn.shown) EXCEPT !.step = "ended"]

StartTurn(c, convs, message, results, shown) ==
    LET n == Len(turns) + 1 IN
    /\ turns' = Append(turns, NewTurn(c, message, results, shown))
    /\ conversations' = [convs EXCEPT ![c].turn = n, ![c].array = n]

-----------------------------------------------------------------------------
(* runChatTurn: the abort is looked at before the provider is asked.       *)
TurnAsks(n) ==
    /\ Undisturbed
    /\ turns[n].step = "ask"
    /\ ~turns[n].aborted
    /\ turns' = [turns EXCEPT ![n].step = "provider", ![n].results = {}]
    /\ conversations' = [conversations EXCEPT
                            ![turns[n].conv].owed = @ \ turns[n].results]
    /\ UNCHANGED <<meets, transcript, parts, liveChat, asking, drawn>>

(* The provider's answer, with the calls it makes.                         *)
TurnAnswered(n) ==
    /\ Undisturbed
    /\ turns[n].step = "provider"
    /\ \E last \in drawn..MaxCalls :
        LET calls == drawn+1..last IN
        /\ drawn' = last
        /\ turns' = [turns EXCEPT ![n].step = "calls", ![n].calls = calls]
        /\ conversations' = [conversations EXCEPT ![turns[n].conv].owed = @ \union calls]
    /\ UNCHANGED <<meets, transcript, parts, liveChat, asking>>

(* verifyAction: the call becomes a card, which is stored and shown.       *)
CardProposed(n, k) ==
    LET shown == [turns[n].shown EXCEPT ![k] = "pending"] IN
    /\ Undisturbed
    /\ turns[n].step = "calls" /\ k \in turns[n].calls
    /\ turns' = [turns EXCEPT ![n].calls = @ \ {k}, ![n].proposed = @ \union {k},
                              ![n].shown = shown]
    /\ parts' = [parts EXCEPT ![turns[n].message] = shown]
    /\ UNCHANGED <<meets, transcript, liveChat, conversations, asking, drawn>>

(* ... or it has its result at once: a read, or a proposal that is refused. *)
CallRefused(n, k) ==
    /\ Undisturbed
    /\ turns[n].step = "calls" /\ k \in turns[n].calls
    /\ turns' = [turns EXCEPT ![n].calls = @ \ {k}, ![n].results = @ \union {k}]
    /\ UNCHANGED <<meets, transcript, parts, liveChat, conversations, asking, drawn>>

(***************************************************************************)
(* All calls are seen to.  With cards the reply waits for the person and   *)
(* keeps the other results; without, the results go to the provider.  An   *)
(* abort that came after the last call is not noticed.                     *)
(***************************************************************************)
TurnPauses(n) ==
    LET t == turns[n] IN
    /\ Undisturbed \/ t.aborted
    /\ t.step = "calls" /\ t.calls = {}
    /\ IF t.proposed = {} /\ t.results # {}
       THEN /\ turns' = [turns EXCEPT ![n].step = "ask"]
            /\ UNCHANGED conversations
       ELSE /\ turns' = [turns EXCEPT ![n] = Ended(t)]
            /\ conversations' = [conversations EXCEPT
                  ![t.conv].pending = @ \union t.proposed,
                  ![t.conv].held = IF t.proposed = {} THEN @ ELSE t.results,
                  ![t.conv].turn = 0]
    /\ UNCHANGED <<meets, transcript, parts, liveChat, asking, drawn>>

(***************************************************************************)
(* The catch of startTurn: aborted, out of time, or failed by the provider *)
(* or the session.  The error is stored with the parts the conversation    *)
(* has, then the conversation is given up.                                 *)
(***************************************************************************)
TurnFails(n) ==
    LET t == turns[n] IN
    /\ t.step \in {"ask", "provider", "calls"}
    /\ turns' = [turns EXCEPT ![n].step = "failing"]
    /\ parts' = [parts EXCEPT ![t.message] = turns[conversations[t.conv].array].shown]
    /\ UNCHANGED <<meets, transcript, liveChat, conversations, asking, drawn>>

TurnGivesUp(n) ==
    /\ turns[n].step = "failing"
    /\ turns' = [turns EXCEPT ![n] = Ended(turns[n])]
    /\ conversations' = [conversations EXCEPT ![turns[n].conv].turn = 0]
    /\ liveChat' = 0
    /\ UNCHANGED <<meets, transcript, parts, asking, drawn>>

TurnStep(n) ==
    \/ TurnAsks(n) \/ TurnAnswered(n) \/ TurnPauses(n) \/ TurnFails(n) \/ TurnGivesUp(n)
    \/ \E k \in Cards : CardProposed(n, k) \/ CallRefused(n, k)

-----------------------------------------------------------------------------
(* stopTurn: abort what is being written, then wait for the last promise.  *)
StopTurn(r, waiting, otherwise) ==
    IF Writing(liveChat)
    THEN /\ turns' = [turns EXCEPT ![conversations[liveChat].turn].aborted = TRUE]
         /\ asking' = [asking EXCEPT ![r].step = waiting, ![r].awaits = Len(turns)]
    ELSE /\ Goes(r, otherwise)
         /\ UNCHANGED turns

Stopped(r, waiting, next) ==
    /\ At(r, waiting)
    /\ turns[asking[r].awaits].step = "ended"
    /\ asking' = IF next = "done" THEN [asking EXCEPT ![r] = Answered]
                 ELSE [asking EXCEPT ![r].step = next, ![r].awaits = 0]
    /\ UNCHANGED <<meets, transcript, parts, liveChat, conversations, turns, drawn>>

(* send: the transcript is read first, and checked and used much later.    *)
LastReply == IF transcript # <<>> /\ transcript[Len(transcript)].role = "assistant"
             THEN transcript[Len(transcript)].of ELSE NoMessage

SendReads(r) ==
    LET last == LastReply IN
    /\ MayBegin(r)
    /\ asking' = [asking EXCEPT ![r].step = "stop", ![r].message = last,
                     ![r].before = IF last = NoMessage THEN NoCards ELSE parts[last]]
    /\ UNCHANGED <<meets, transcript, parts, liveChat, conversations, turns, drawn>>

(* A chat that is full, or a reference that is not there: nothing is done. *)
SendRefused(r) ==
    /\ At(r, "stop")
    /\ Goes(r, "done")
    /\ UNCHANGED <<meets, transcript, parts, liveChat, conversations, turns, drawn>>

SendStops(r) ==
    /\ At(r, "stop")
    /\ StopTurn(r, "wait", "decline")
    /\ UNCHANGED <<meets, transcript, parts, liveChat, conversations, drawn>>

(***************************************************************************)
(* declinePending, with the parts that were read at the start: every card  *)
(* that waited then is declined, and what the conversation still owes the  *)
(* provider is collected for the next turn.                                *)
(***************************************************************************)
Waiting(shown) == {k \in Cards : shown[k] = "pending"}

Declined(shown) ==
    [k \in Cards |-> IF shown[k] = "pending" THEN "declined" ELSE shown[k]]

Owing_CardsOnly(c) == conversations[c].pending

Owing(c) == conversations[c].held \union conversations[c].pending

SendDeclines(r) ==
    /\ At(r, "decline")
    /\ IF Waiting(asking[r].before) = {}
       THEN /\ Goes(r, "append")
            /\ UNCHANGED parts
       ELSE /\ asking' = [asking EXCEPT ![r].step = "collect", ![r].conv = liveChat]
            /\ parts' = [parts EXCEPT ![asking[r].message] = Declined(asking[r].before)]
    /\ UNCHANGED <<meets, transcript, liveChat, conversations, turns, drawn>>

SendCollects(r) ==
    LET c == asking[r].conv IN
    /\ At(r, "collect")
    /\ IF c = 0
       THEN /\ Goes(r, "append")
            /\ UNCHANGED conversations
       ELSE /\ asking' = [asking EXCEPT ![r].step = "append", ![r].results = Owing(c)]
            /\ conversations' = [conversations EXCEPT ![c].pending = {}, ![c].held = {}]
    /\ UNCHANGED <<meets, transcript, parts, liveChat, turns, drawn>>

SendAppends(r) ==
    /\ \/ At(r, "append") /\ transcript' = Append(transcript, [role |-> "user", of |-> r])
                          /\ Goes(r, "reply")
       \/ At(r, "reply") /\ transcript' = Append(transcript, [role |-> "assistant", of |-> r])
                         /\ Goes(r, "start")
    /\ UNCHANGED <<meets, parts, liveChat, conversations, turns, drawn>>

(* ensureLive, with a history without open calls if there is none in memory. *)
SendStarts(r) ==
    /\ At(r, "start")
    /\ Goes(r, "done")
    /\ IF liveChat # 0
       THEN /\ StartTurn(liveChat, conversations, r, asking[r].results, NoCards)
            /\ UNCHANGED liveChat
       ELSE /\ liveChat' = Len(conversations) + 1
            /\ StartTurn(Len(conversations) + 1, Append(conversations, NewConversation),
                         r, asking[r].results, NoCards)
    /\ UNCHANGED <<meets, transcript, parts, drawn>>

SendStep(r) ==
    \/ SendRefused(r) \/ SendStops(r) \/ Stopped(r, "wait", "decline")
    \/ SendDeclines(r) \/ SendCollects(r) \/ SendAppends(r) \/ SendStarts(r)

-----------------------------------------------------------------------------
(* act: refused while a reply is written.                                  *)
MayAct_Always == TRUE

MayAct == ~Writing(liveChat)

ActBegins(r, k, choice) ==
    /\ MayBegin(r)
    /\ IF MayAct
       THEN asking' = [asking EXCEPT ![r].step = "read", ![r].conv = liveChat,
                                     ![r].card = k, ![r].choice = choice]
       ELSE Goes(r, "done")
    /\ UNCHANGED <<meets, transcript, parts, liveChat, conversations, turns, drawn>>

ActReads(r) ==
    LET last == LastReply IN
    /\ At(r, "read")
    /\ IF last # NoMessage /\ parts[last][asking[r].card] = "pending"
       THEN asking' = [asking EXCEPT ![r].message = last, ![r].before = parts[last],
                          ![r].step = IF asking[r].choice = "applied"
                                      THEN "apply" ELSE "write"]
       ELSE Goes(r, "done")
    /\ UNCHANGED <<meets, transcript, parts, liveChat, conversations, turns, drawn>>

(* The session ended or the tool is gone, or the change is made or fails.  *)
ActApplies(r) ==
    /\ At(r, "apply")
    /\ \/ Goes(r, "done")
       \/ \E outcome \in {"applied", "failed"} :
            asking' = [asking EXCEPT ![r].step = "write", ![r].choice = outcome]
    /\ UNCHANGED <<meets, transcript, parts, liveChat, conversations, turns, drawn>>

Decided(r) == [asking[r].before EXCEPT ![asking[r].card] = asking[r].choice]

ActWrites(r) ==
    /\ At(r, "write")
    /\ parts' = [parts EXCEPT ![asking[r].message] = Decided(r)]
    /\ Goes(r, "go")
    /\ UNCHANGED <<meets, transcript, liveChat, conversations, turns, drawn>>

(* The last card of the reply that is answered lets the assistant go on.   *)
ActGoesOn(r) ==
    LET c == asking[r].conv
        k == asking[r].card
        results == conversations[c].held \union {k}
        left == conversations[c].pending \ {k}
    IN  /\ At(r, "go")
        /\ Goes(r, "done")
        /\ IF c = 0 \/ k \notin conversations[c].pending
           THEN UNCHANGED <<conversations, turns>>
           ELSE IF left # {}
           THEN /\ conversations' = [conversations EXCEPT ![c].pending = left,
                                                          ![c].held = results]
                /\ UNCHANGED turns
           ELSE StartTurn(c, [conversations EXCEPT ![c].pending = {}, ![c].held = {}],
                          asking[r].message, results, Decided(r))
        /\ UNCHANGED <<meets, transcript, parts, liveChat, drawn>>

ActStep(r) == ActReads(r) \/ ActApplies(r) \/ ActWrites(r) \/ ActGoesOn(r)

CancelBegins(r) ==
    /\ MayBegin(r)
    /\ StopTurn(r, "cancel", "done")
    /\ UNCHANGED <<meets, transcript, parts, liveChat, conversations, drawn>>

CancelStops(r) == Stopped(r, "cancel", "done")

-----------------------------------------------------------------------------
(* sweep: nobody has used the chat for half an hour.                       *)
ChatSwept ==
    /\ liveChat # 0
    /\ conversations[liveChat].turn = 0 /\ conversations[liveChat].pending = {}
    /\ \A r \in Asking : ~UnderWay(r)
    /\ liveChat' = 0
    /\ UNCHANGED <<meets, transcript, parts, conversations, turns, asking, drawn>>

(* The process starts again with nothing in memory.                        *)
ChatRestarts(r) ==
    /\ IsNext(r)
    /\ liveChat' = 0
    /\ turns' = [n \in 1..Len(turns) |-> Ended(turns[n])]
    /\ asking' = [s \in Asking |->
                     IF s = r \/ UnderWay(s) THEN Answered ELSE asking[s]]
    /\ UNCHANGED <<meets, transcript, parts, conversations, drawn>>

ChatWork ==
    \/ \E n \in 1..Len(turns) : TurnStep(n)
    \/ \E r \in Asking : SendStep(r) \/ ActStep(r) \/ CancelStops(r)

ChatNext ==
    \/ ChatWork
    \/ \E r \in Asking : SendReads(r) \/ CancelBegins(r) \/ ChatRestarts(r)
    \/ \E r \in Asking, k \in 1..drawn, choice \in {"applied", "declined"} :
        ActBegins(r, k, choice)
    \/ ChatSwept

ChatSpec == ChatInit /\ [][ChatNext]_chatVars

-----------------------------------------------------------------------------
ChatTypeOK ==
    /\ meets \in Meetings
    /\ transcript \in Seq([role : {"user", "assistant"}, of : Messages])
    /\ parts \in [Messages -> [Cards -> CardStates]]
    /\ liveChat \in 0..Len(conversations)
    /\ conversations \in Seq([pending : SUBSET Cards, held : SUBSET Cards,
                              turn : 0..Len(turns), array : 0..Len(turns),
                              owed : SUBSET Cards])
    /\ turns \in Seq([conv : 1..Len(conversations), message : Messages,
                      results : SUBSET Cards, shown : [Cards -> CardStates],
                      step : {"ask", "provider", "calls", "failing", "ended"},
                      calls : SUBSET Cards, proposed : SUBSET Cards, aborted : BOOLEAN])
    /\ asking \in [Asking ->
          [step : {"new", "stop", "wait", "cancel", "decline", "collect", "append", "reply",
                   "start", "read", "apply", "write", "go", "done"},
           conv : 0..Len(conversations), message : Messages \union {NoMessage},
           before : [Cards -> CardStates], card : Cards,
           choice : {"applied", "failed", "declined"}, results : SUBSET Cards,
           awaits : 0..Len(turns)]]
    /\ drawn \in 0..MaxCalls

(***************************************************************************)
(* "pending actions are declined first, so provider history stays valid    *)
(* (every tool call gets a result)": whenever the provider is asked, no    *)
(* call of its conversation is without a result.                           *)
(***************************************************************************)
EveryCallIsAnswered ==
    \A n \in 1..Len(turns) :
        turns[n].step = "provider" => conversations[turns[n].conv].owed = {}

(***************************************************************************)
(* If nothing meets a request, cards can always be answered: while nobody  *)
(* is at work, the conversation in memory waits for just the cards that    *)
(* the last reply shows as waiting, and every other call has its result.   *)
(***************************************************************************)
ChatIdle ==
    /\ \A r \in Asking : ~UnderWay(r)
    /\ \A n \in 1..Len(turns) : turns[n].step = "ended"

CardsCanBeAnswered ==
    meets = {} =>
        /\ EveryCallIsAnswered
        /\ ChatIdle /\ liveChat # 0 =>
            LET c == conversations[liveChat] IN
            /\ LastReply # NoMessage => c.pending = Waiting(parts[LastReply])
            /\ c.owed = c.pending \union c.held

(***************************************************************************)
(* What a person decided about a card stays decided, unless requests meet. *)
(***************************************************************************)
CardsAreFinal ==
    [][ "requests" \notin meets =>
        \A m \in Messages, k \in Cards :
            parts[m][k] \in {"applied", "failed", "declined"} =>
                parts'[m][k] = parts[m][k] ]_chatVars

(* Every request is answered and every reply ends.                         *)
ChatSettles == <>[]ChatIdle
==============================================================================

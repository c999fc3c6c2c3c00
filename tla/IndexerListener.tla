--------------------------- MODULE IndexerListener ---------------------------
(***************************************************************************)
(* The connection on which the API listens to what the indexer announces,  *)
(* from createIndexerListener in apps/api/src/events/indexer-listener.ts.  *)
(* It is started and stopped once, by apps/api/src/composition.ts, so the  *)
(* generation it compares is whether it has been stopped.  Connections are *)
(* numbered as they are created, 0 is none.  What an announcement leads to *)
(* is left out, and so is the growing delay between retries.               *)
(***************************************************************************)
EXTENDS Integers, FiniteSets

CONSTANTS
    MaxBreaks,     \* bound: connections that fail or break
    MaxPayloads    \* bound: announcements that arrive

ASSUME ListenerBounds == MaxBreaks \in Nat /\ MaxPayloads \in Nat

(***************************************************************************)
(* establishing: what the promise `connecting` waits for, or "no", and     *)
(* closing the connection that it or stop is ending.  retry: a timer has   *)
(* fired and waits for that promise.  open: what the database has open.    *)
(***************************************************************************)
VARIABLES phase, establishing, client, closing, open, created, reconnectPending, timer,
          retry, payloads, handling, breaks, arrived

listenerVars == <<phase, establishing, client, closing, open, created, reconnectPending,
                  timer, retry, payloads, handling, breaks, arrived>>

ListenerInit ==
    /\ phase = "new"
    /\ establishing = "no" /\ client = 0 /\ closing = 0
    /\ open = {} /\ created = 0
    /\ reconnectPending = FALSE /\ timer = FALSE /\ retry = FALSE
    /\ payloads = 0 /\ handling = FALSE
    /\ breaks = 0 /\ arrived = 0

StoppedListening == phase # "started"

(* createClient and its connect.                                           *)
Creates ==
    /\ created' = created + 1
    /\ client' = created + 1
    /\ establishing' = "connect"

(* establish: the previous connection is detached before it is closed.     *)
Establishes ==
    IF client = 0
    THEN Creates /\ UNCHANGED closing
    ELSE /\ establishing' = "close"
         /\ closing' = client
         /\ client' = 0
         /\ UNCHANGED created

(* scheduleReconnect: one retry, however many reasons there are.           *)
Schedules ==
    /\ reconnectPending' = TRUE
    /\ timer' = IF reconnectPending THEN timer ELSE TRUE

ListenerStarts ==
    /\ phase = "new"
    /\ phase' = "started"
    /\ Establishes
    /\ UNCHANGED <<open, reconnectPending, timer, retry, payloads, handling, breaks, arrived>>

PreviousClosed ==
    /\ establishing = "close"
    /\ open' = open \ {closing}
    /\ closing' = 0
    /\ IF StoppedListening
       THEN establishing' = "no" /\ UNCHANGED <<client, created>>
       ELSE Creates
    /\ UNCHANGED <<phase, reconnectPending, timer, retry, payloads, handling, breaks, arrived>>

Connected ==
    /\ establishing = "connect"
    /\ open' = open \union {created}
    /\ establishing' = IF StoppedListening THEN "end" ELSE "listen"
    /\ UNCHANGED <<phase, client, closing, created, reconnectPending, timer, retry, payloads,
                   handling, breaks, arrived>>

Listened ==
    /\ establishing = "listen"
    /\ created \in open
    /\ establishing' = "no"
    /\ UNCHANGED <<phase, client, closing, open, created, reconnectPending, timer, retry,
                   payloads, handling, breaks, arrived>>

(* connect or LISTEN rejects: the new connection is given up and ended.    *)
ConnectRejects ==
    /\ \/ establishing \in {"connect", "listen"}
          /\ breaks < MaxBreaks /\ breaks' = breaks + 1
       \/ establishing = "listen" /\ created \notin open /\ UNCHANGED breaks
    /\ establishing' = "failed"
    /\ client' = IF client = created THEN 0 ELSE client
    /\ UNCHANGED <<phase, closing, open, created, reconnectPending, timer, retry, payloads,
                   handling, arrived>>

NewOneEnded ==
    /\ establishing \in {"end", "failed"}
    /\ open' = open \ {created}
    /\ IF establishing = "failed" /\ ~StoppedListening
       THEN Schedules
       ELSE UNCHANGED <<reconnectPending, timer>>
    /\ establishing' = "no"
    /\ UNCHANGED <<phase, client, closing, created, retry, payloads, handling, breaks, arrived>>

(* A connection breaks; only the current one is reported.                  *)
Breaks ==
    /\ breaks < MaxBreaks
    /\ \E c \in open :
        /\ open' = open \ {c}
        /\ IF ~StoppedListening /\ client = c
           THEN Schedules
           ELSE UNCHANGED <<reconnectPending, timer>>
    /\ breaks' = breaks + 1
    /\ UNCHANGED <<phase, establishing, client, closing, created, retry, payloads, handling,
                   arrived>>

TimerFires ==
    /\ timer
    /\ timer' = FALSE
    /\ retry' = ~StoppedListening
    /\ UNCHANGED <<phase, establishing, client, closing, open, created, reconnectPending,
                   payloads, handling, breaks, arrived>>

(* A slow connect may outlast the delay: the retry waits for it.           *)
RetryConnects ==
    /\ retry
    /\ establishing = "no"
    /\ retry' = FALSE
    /\ IF StoppedListening
       THEN UNCHANGED <<establishing, client, closing, created, reconnectPending>>
       ELSE reconnectPending' = FALSE /\ Establishes
    /\ UNCHANGED <<phase, open, timer, payloads, handling, breaks, arrived>>

(* Announcements are handled one after another, none that waits at a stop. *)
PayloadArrives ==
    /\ ~StoppedListening
    /\ client \in open /\ establishing = "no"
    /\ arrived < MaxPayloads
    /\ arrived' = arrived + 1
    /\ payloads' = payloads + 1
    /\ UNCHANGED <<phase, establishing, client, closing, open, created, reconnectPending,
                   timer, retry, handling, breaks>>

PayloadTaken ==
    /\ payloads > 0 /\ ~handling
    /\ payloads' = payloads - 1
    /\ handling' = ~StoppedListening
    /\ UNCHANGED <<phase, establishing, client, closing, open, created, reconnectPending,
                   timer, retry, breaks, arrived>>

PayloadHandled ==
    /\ handling
    /\ handling' = FALSE
    /\ UNCHANGED <<phase, establishing, client, closing, open, created, reconnectPending,
                   timer, retry, payloads, breaks, arrived>>

(* stop: close the connection, then wait for connecting, then the queue.   *)
StopBegins ==
    /\ phase = "started"
    /\ phase' = "closing"
    /\ reconnectPending' = FALSE /\ timer' = FALSE
    /\ closing' = IF client = 0 THEN closing ELSE client
    /\ client' = 0
    /\ UNCHANGED <<establishing, open, created, retry, payloads, handling, breaks, arrived>>

StopCloses ==
    /\ phase = "closing"
    /\ phase' = "connecting"
    /\ open' = IF establishing = "close" THEN open ELSE open \ {closing}
    /\ UNCHANGED <<establishing, client, closing, created, reconnectPending, timer, retry,
                   payloads, handling, breaks, arrived>>

ConnectingOver_NotAwaited == TRUE

ConnectingOver == establishing = "no"

StopWaits ==
    /\ phase = "connecting" /\ ConnectingOver
    /\ phase' = "draining"
    /\ UNCHANGED <<establishing, client, closing, open, created, reconnectPending, timer,
                   retry, payloads, handling, breaks, arrived>>

StopReturns ==
    /\ phase = "draining" /\ payloads = 0 /\ ~handling
    /\ phase' = "stopped"
    /\ UNCHANGED <<establishing, client, closing, open, created, reconnectPending, timer,
                   retry, payloads, handling, breaks, arrived>>

ListenerWork ==
    \/ PreviousClosed \/ Connected \/ Listened \/ ConnectRejects \/ NewOneEnded
    \/ TimerFires \/ RetryConnects
    \/ PayloadTaken \/ PayloadHandled
    \/ StopCloses \/ StopWaits \/ StopReturns

ListenerNext ==
    \/ ListenerWork \/ ListenerStarts \/ StopBegins \/ Breaks \/ PayloadArrives

ListenerSpec == ListenerInit /\ [][ListenerNext]_listenerVars

-----------------------------------------------------------------------------
ListenerTypeOK ==
    /\ phase \in {"new", "started", "closing", "connecting", "draining", "stopped"}
    /\ establishing \in {"no", "close", "connect", "listen", "end", "failed"}
    /\ created \in Nat
    /\ client \in 0..created /\ closing \in 0..created
    /\ open \subseteq 1..created
    /\ reconnectPending \in BOOLEAN /\ timer \in BOOLEAN /\ retry \in BOOLEAN
    /\ payloads \in 0..MaxPayloads /\ handling \in BOOLEAN
    /\ breaks \in 0..MaxBreaks /\ arrived \in 0..MaxPayloads

(***************************************************************************)
(* Whatever breaks while it connects, retries or stops, the listener holds *)
(* at most one connection, and once stop has returned none is open or      *)
(* being opened, no retry is due and nothing is handled any more.          *)
(***************************************************************************)
OneListener ==
    /\ Cardinality(open) <= 1
    /\ phase = "stopped" =>
        open = {} /\ establishing = "no" /\ ~timer /\ ~handling

(* When nothing breaks any more, the listener listens until it is stopped. *)
ListenerSettles ==
    <>[](phase \in {"new", "stopped"} \/ (client \in open /\ establishing = "no"))
==============================================================================

------------------------------ MODULE WsSession ------------------------------
(***************************************************************************)
(* WSClient.Run: one connection per call, a main goroutine that pings and  *)
(* waits, a reader goroutine that reads and dispatches, and a caller that  *)
(* calls Run again once it has returned.  The client's conn field is       *)
(* overwritten by the next Run and re-read by every reader's loop; Run     *)
(* does not wait for its reader.  Time is counted in half ping intervals.  *)
(***************************************************************************)
EXTENDS Naturals

CONSTANTS
    MaxRuns,   \* bound on the calls of Run on one client
    PingMin,   \* the ping timer, with its jitter of 10%, fires after
    PingMax,   \* PingMin..PingMax ticks
    Deadline,  \* readDeadline(): ticks without data before a read times out
    Latency,   \* a healthy server answers a PING within Latency ticks
    Typed      \* are the callbacks of the typed events registered

Runs == 1..MaxRuns

ASSUME WsAssumption ==
    /\ MaxRuns \in Nat \ {0} /\ Typed \in BOOLEAN /\ Latency \in Nat
    /\ PingMin \in Nat \ {0} /\ PingMax \in Nat /\ PingMin <= PingMax
    /\ Deadline \in Nat /\ PingMax + Latency < Deadline

VARIABLES
    main,      \* where each call of Run is
    ctx,       \* runs whose context is cancelled
    conn,      \* c.conn: the run that dialled it, 0 before the first
    link,      \* each connection: "none", "up", or how it ended
    young,     \* connections less than three seconds old
    healthy,   \* does the server of the connection answer PINGs
    owed,      \* ticks a PING has waited for its answer, counted from 1
    inbox,     \* the message that has arrived on the connection
    quiet,     \* ticks since the connection's read deadline was set
    pinged,    \* ticks since the ping timer was set
    reader,    \* where each reader goroutine is
    target,    \* the connection it reads from
    readErr,   \* the readErr channel of each run, of capacity one
    result,    \* what each Run returned
    crashed,   \* a callback that is nil was called
    hindered   \* history: a slow handler, or a reader on another's connection

clocks == <<young, owed, quiet, pinged>>
net == <<link, healthy, inbox>>
client == <<main, ctx, conn, result>>
readers == <<reader, target, readErr>>
flags == <<crashed, hindered>>
vars == <<clocks, net, client, readers, flags>>

Ends == {"eof", "normal", "nostatus", "code", "closed"}
Verdicts == {"timeout", "serverClose", "authRejected", "other"}

TypeOK ==
    /\ main \in [Runs -> {"idle", "dial", "subscribe", "loop", "returned"}]
    /\ ctx \subseteq Runs /\ conn \in 0..MaxRuns
    /\ link \in [Runs -> Ends \cup {"none", "up"}]
    /\ young \subseteq Runs /\ healthy \subseteq Runs
    /\ owed \in [Runs -> 0..(Latency + 1)]
    /\ inbox \in [Runs -> {"none", "control", "pong", "typed", "other"}]
    /\ quiet \in [Runs -> 0..Deadline] /\ pinged \in [Runs -> 0..PingMax]
    /\ reader \in [Runs -> {"none", "top", "reading", "handling", "exited"}]
    /\ target \in [Runs -> 0..MaxRuns]
    /\ readErr \in [Runs -> Verdicts \cup {"none"}]
    /\ result \in [Runs -> Verdicts \cup {"none", "ctx"}]
    /\ crashed \in BOOLEAN /\ hindered \in BOOLEAN
    \* a Run that is under way writes to the connection it dialled
    /\ \A i \in Runs : main[i] \in {"subscribe", "loop"} => conn = i

Init ==
    /\ main = [i \in Runs |-> "idle"] /\ ctx = {} /\ conn = 0
    /\ link = [i \in Runs |-> "none"]
    /\ young = {} /\ healthy = {}
    /\ owed = [i \in Runs |-> 0]
    /\ inbox = [i \in Runs |-> "none"]
    /\ quiet = [i \in Runs |-> 0] /\ pinged = [i \in Runs |-> 0]
    /\ reader = [i \in Runs |-> "none"] /\ target = [i \in Runs |-> 0]
    /\ readErr = [i \in Runs |-> "none"] /\ result = [i \in Runs |-> "none"]
    /\ crashed = FALSE /\ hindered = FALSE

-----------------------------------------------------------------------------
(* The main goroutine of Run.                                              *)

\* The caller connects, or reconnects once the run before has returned.
Call(i) ==
    /\ main[i] = "idle"
    /\ \A j \in Runs : j < i => main[j] = "returned"
    /\ main' = [main EXCEPT ![i] = "dial"]
    /\ UNCHANGED <<clocks, net, ctx, conn, result, readers, flags>>

Cancel(i) ==
    /\ main[i] \in {"dial", "subscribe", "loop"} /\ i \notin ctx
    /\ ctx' = ctx \cup {i}
    /\ UNCHANGED <<clocks, net, main, conn, result, readers, flags>>

\* Run returns e; the deferred calls close its connection and stop its timer.
Return(i, e) ==
    /\ main' = [main EXCEPT ![i] = "returned"]
    /\ result' = [result EXCEPT ![i] = e]
    /\ link' = [link EXCEPT ![i] = IF @ = "none" THEN @ ELSE "closed"]
    /\ inbox' = [inbox EXCEPT ![i] = "none"]
    /\ owed' = [owed EXCEPT ![i] = 0]
    /\ pinged' = [pinged EXCEPT ![i] = 0]
    /\ quiet' = [quiet EXCEPT ![i] = 0]
    /\ young' = young \ {i} /\ healthy' = healthy \ {i}
    /\ UNCHANGED <<ctx, conn>>

DialFails(i) ==
    /\ main[i] = "dial"
    /\ Return(i, "other")
    /\ UNCHANGED <<readers, flags>>

\* Mutant: a connection is only stored by the first Run.
StoredOnce(i) == IF conn = 0 THEN i ELSE conn

\* c.conn = conn
Stored(i) == i

Dial(i) ==
    /\ main[i] = "dial"
    /\ main' = [main EXCEPT ![i] = "subscribe"]
    /\ conn' = Stored(i)
    /\ link' = [link EXCEPT ![i] = "up"]
    /\ young' = young \cup {i}
    /\ healthy' \in {healthy, healthy \cup {i}}
    /\ UNCHANGED <<ctx, owed, inbox, quiet, pinged, result, readers, flags>>

\* The subscription is written and the reader started.
Subscribe(i) ==
    /\ main[i] = "subscribe"
    /\ main' = [main EXCEPT ![i] = "loop"]
    /\ reader' = [reader EXCEPT ![i] = "top"]
    /\ UNCHANGED <<clocks, net, ctx, conn, result, target, readErr, flags>>

SubscribeFails(i) ==
    /\ main[i] = "subscribe" /\ link[i] # "up"
    /\ Return(i, "other")
    /\ UNCHANGED <<readers, flags>>

\* select: the context, the ping timer and the reader's error, in any order.
Cancelled(i) ==
    /\ main[i] = "loop" /\ i \in ctx
    /\ Return(i, "ctx")
    /\ UNCHANGED <<readers, flags>>

\* Mutant: sending a PING counts as hearing from the server.
HeardItself(i) == 0

\* Writing does not touch the read deadline.
QuietAfterPing(i) == quiet[i]

SendPing(i) ==
    /\ main[i] = "loop" /\ pinged[i] >= PingMin
    /\ pinged' = [pinged EXCEPT ![i] = 0]
    /\ quiet' = [quiet EXCEPT ![i] = QuietAfterPing(i)]
    /\ owed' = [owed EXCEPT ![i] = IF @ = 0 /\ i \in healthy THEN 1 ELSE @]
    /\ UNCHANGED <<young, net, client, readers, flags>>

PingFails(i) ==
    /\ main[i] = "loop" /\ pinged[i] >= PingMin /\ link[i] # "up"
    /\ Return(i, "other")
    /\ UNCHANGED <<readers, flags>>

ReaderFailed(i) ==
    /\ main[i] = "loop" /\ readErr[i] # "none"
    /\ Return(i, readErr[i])
    /\ readErr' = [readErr EXCEPT ![i] = "none"]
    /\ UNCHANGED <<reader, target, flags>>

-----------------------------------------------------------------------------
(* The reader goroutine: readLoop and dispatch.                            *)

\* ReadMessage is called on whatever c.conn is by now.
EnterRead(i) ==
    /\ reader[i] = "top"
    /\ reader' = [reader EXCEPT ![i] = "reading"]
    /\ target' = [target EXCEPT ![i] = conn]
    /\ hindered' = (hindered \/ conn # i)
    /\ UNCHANGED <<clocks, net, client, readErr, crashed>>

\* Mutant: received data does not extend the read deadline.
KeepDeadline(i) == quiet

\* resetDeadline() is a closure over the connection of the reader's own Run.
ResetDeadline(i) == [quiet EXCEPT ![i] = 0]

\* A PONG is dropped.  An event goes to its callback: dispatchOne compares the
\* closure around the callback with nil, never the callback.
Receive(i) ==
    LET t == target[i] IN
    /\ reader[i] = "reading" /\ inbox[t] \notin {"none", "control"}
    /\ inbox' = [inbox EXCEPT ![t] = "none"]
    /\ quiet' = ResetDeadline(i)
    /\ reader' = [reader EXCEPT ![i] = IF inbox[t] = "pong" THEN "top" ELSE "handling"]
    /\ target' = [target EXCEPT ![i] = 0]
    /\ crashed' = (crashed \/ (inbox[t] = "typed" /\ ~Typed))
    /\ UNCHANGED <<young, owed, pinged, link, healthy, client, readErr, hindered>>

\* ReadMessage goes on after a ping or pong frame, whose handler belongs to the
\* connection, whoever reads it.
HearControl(i) ==
    LET t == target[i] IN
    /\ reader[i] = "reading" /\ inbox[t] = "control"
    /\ inbox' = [inbox EXCEPT ![t] = "none"]
    /\ quiet' = ResetDeadline(t)
    /\ UNCHANGED <<young, owed, pinged, link, healthy, client, readers, flags>>

HandlerReturns(i) ==
    /\ reader[i] = "handling"
    /\ reader' = [reader EXCEPT ![i] = "top"]
    /\ UNCHANGED <<clocks, net, client, target, readErr, flags>>

\* The error of a read on connection t; connectedAt is the latest dial's.
Verdict(t) ==
    CASE link[t] = "up" -> "timeout"
      [] link[t] = "normal" -> "serverClose"
      [] link[t] \in {"eof", "code"} ->
            IF conn \in young THEN "authRejected" ELSE "serverClose"
      [] link[t] \in {"nostatus", "closed"} -> "other"

\* Mutant: the channel has no buffer, a send needs Run to be waiting.
NeedsReceiver(i) == main[i] = "loop"

\* readErr has room for the only error it gets, whoever waits.
MaySend(i) == readErr[i] = "none"

\* Nobody reads the channel of a Run that has returned.
ReadFails(i) ==
    LET t == target[i] IN
    /\ reader[i] = "reading"
    /\ IF link[t] = "up" THEN quiet[t] >= Deadline ELSE inbox[t] = "none"
    /\ MaySend(i)
    /\ readErr' = [readErr EXCEPT ![i] =
                      IF main[i] = "returned" THEN "none" ELSE Verdict(t)]
    /\ reader' = [reader EXCEPT ![i] = "exited"]
    /\ target' = [target EXCEPT ![i] = 0]
    /\ UNCHANGED <<clocks, net, client, flags>>

-----------------------------------------------------------------------------
(* The server and the clock.                                               *)

Push(i) ==
    /\ link[i] = "up" /\ inbox[i] = "none"
    /\ inbox' \in {[inbox EXCEPT ![i] = m] : m \in {"control", "pong", "typed", "other"}}
    /\ UNCHANGED <<clocks, link, healthy, client, readers, flags>>

Answer(i) ==
    /\ link[i] = "up" /\ owed[i] > 0
    /\ owed' = [owed EXCEPT ![i] = 0]
    /\ inbox' = [inbox EXCEPT ![i] = IF @ = "none" THEN "pong" ELSE @]
    /\ UNCHANGED <<young, quiet, pinged, link, healthy, client, readers, flags>>

\* A close frame, with or without a status, or the connection just ends.
Hangup(i) ==
    /\ link[i] = "up"
    /\ link' \in {[link EXCEPT ![i] = e] : e \in Ends \ {"closed"}}
    /\ owed' = [owed EXCEPT ![i] = 0]
    /\ UNCHANGED <<young, quiet, pinged, healthy, inbox, client, readers, flags>>

\* Half a ping interval, longer than three seconds.  Goroutines and a healthy
\* server are prompt; a callback may take its time.
Prompt(i) ==
    /\ main[i] \notin {"dial", "subscribe"} /\ reader[i] # "top"
    /\ main[i] = "loop" =>
          pinged[i] < PingMax /\ readErr[i] = "none" /\ i \notin ctx
    /\ reader[i] = "reading" => /\ link[target[i]] = "up"
                                /\ inbox[target[i]] = "none"
                                /\ quiet[target[i]] < Deadline
    /\ owed[i] <= Latency

Later(b, n, max) == IF b /\ n < max THEN n + 1 ELSE n

Tick ==
    /\ \A i \in Runs : Prompt(i)
    /\ \E i \in Runs : main[i] = "loop"
    /\ quiet' = [i \in Runs |-> Later(main[i] = "loop", quiet[i], Deadline)]
    /\ pinged' = [i \in Runs |-> Later(main[i] = "loop", pinged[i], PingMax)]
    /\ owed' = [i \in Runs |-> Later(owed[i] > 0, owed[i], Latency + 1)]
    /\ young' = {}
    /\ hindered' = (hindered \/ \E i \in Runs : reader[i] = "handling")
    /\ UNCHANGED <<net, client, readers, crashed>>

-----------------------------------------------------------------------------

Main(i) ==
    \/ DialFails(i) \/ Dial(i) \/ Subscribe(i) \/ SubscribeFails(i)
    \/ Cancelled(i) \/ SendPing(i) \/ PingFails(i) \/ ReaderFailed(i)

Reader(i) ==
    EnterRead(i) \/ Receive(i) \/ HearControl(i) \/ HandlerReturns(i) \/ ReadFails(i)

Environment(i) == Call(i) \/ Cancel(i) \/ Push(i) \/ Answer(i) \/ Hangup(i)

\* A panic ends the process.
Next ==
    /\ ~crashed
    /\ \/ \E i \in Runs : Main(i) \/ Reader(i) \/ Environment(i)
       \/ Tick

Spec == Init /\ [][Next]_vars

\* Goroutines run, callbacks return, time passes, a healthy server answers.
FairSpec ==
    /\ Spec /\ WF_vars(~crashed /\ Tick)
    /\ \A i \in Runs : /\ WF_vars(~crashed /\ Main(i))
                       /\ WF_vars(~crashed /\ Reader(i))
                       /\ WF_vars(~crashed /\ Answer(i))

-----------------------------------------------------------------------------
(* Properties.                                                             *)

\* The read deadline leaves room for the PING's jitter and the answer's delay:
\* the connection to a server that answers PINGs in time is never taken for a
\* half-open one, unless a callback or a foreign reader holds its data up.
HealthyNeverTimesOut ==
    \A i \in Runs : readErr[i] = "timeout" /\ ~hindered => i \notin healthy

\* A Run that never returns keeps receiving data: a half-open connection is
\* noticed, however many PINGs can still be written to it.
HalfOpenEnds ==
    \A i \in Runs : <>[](main[i] = "loop") => []<>(inbox[i] # "none")

\* Run does not wait for its reader, yet no reader is left behind once every
\* Run has returned.
ReadersEnd ==
    (\A i \in Runs : main[i] = "returned")
        ~> (\A i \in Runs : reader[i] \in {"none", "exited"})

\* "The reader ends on a deadline, a close by the server or a network error":
\* it never goes on with the connection of a later Run.
ReadsOwnConnection ==
    \A i \in Runs : reader[i] = "reading" => target[i] = i

\* "Every method may be nil: not registered means dropped."
UnregisteredIsDropped == ~crashed
=============================================================================

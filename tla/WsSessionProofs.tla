--------------------------- MODULE WsSessionProofs ---------------------------
(***************************************************************************)
(* The theorems of WsSession, for every number of Runs and every ping      *)
(* interval, latency and deadline with PingMax + Latency < Deadline.       *)
(*                                                                         *)
(* Why a healthy connection never times out: while nothing is owed, no     *)
(* more ticks have passed since data came than since the last PING; while  *)
(* an answer is owed, the PING had been due within PingMax of the data.    *)
(* What has arrived is read before the next tick, unless a callback or     *)
(* another Run's reader keeps the connection from being read.              *)
(***************************************************************************)
EXTENDS WsSession, TLAPS

USE DEF Runs

-----------------------------------------------------------------------------
(* Types, one part for each group of variables.                            *)

MainTypes ==
    /\ main \in [Runs -> {"idle", "dial", "subscribe", "loop", "returned"}]
    /\ ctx \subseteq Runs
    /\ conn \in 0..MaxRuns

NetTypes ==
    /\ link \in [Runs -> Ends \cup {"none", "up"}]
    /\ inbox \in [Runs -> {"none", "control", "pong", "typed", "other"}]
    /\ young \subseteq Runs
    /\ healthy \subseteq Runs

Clocks ==
    /\ owed \in [Runs -> 0..(Latency + 1)]
    /\ quiet \in [Runs -> 0..Deadline]
    /\ pinged \in [Runs -> 0..PingMax]

ReaderTypes ==
    /\ reader \in [Runs -> {"none", "top", "reading", "handling", "exited"}]
    /\ target \in [Runs -> 0..MaxRuns]
    /\ readErr \in [Runs -> Verdicts \cup {"none"}]

ResultTypes == result \in [Runs -> Verdicts \cup {"none", "ctx"}]

FlagTypes == crashed \in BOOLEAN /\ hindered \in BOOLEAN

\* The caller makes one Run after the other, and each dials for itself.
Sequential ==
    /\ \A i \in Runs : main[i] # "idle" =>
          \A j \in Runs : j < i => main[j] = "returned"
    /\ \A i \in Runs : main[i] \in {"subscribe", "loop"} => conn = i

\* A reader that reads is reading some connection; there is one to read.
Started == \A i \in Runs : reader[i] # "none" => conn \in Runs
Targets == \A i \in Runs : reader[i] = "reading" => target[i] \in Runs

\* What is stored or read has been dialled.
Dialled ==
    /\ conn # 0 => link[conn] # "none"
    /\ \A i \in Runs : reader[i] = "reading" => link[target[i]] # "none"

TypeInv ==
    /\ MainTypes /\ NetTypes /\ Clocks /\ ReaderTypes /\ ResultTypes /\ FlagTypes
    /\ Sequential /\ Started /\ Targets /\ Dialled

LEMMA TypeInit == Init => TypeInv
<1> SUFFICES ASSUME Init PROVE TypeInv
    OBVIOUS
<1> USE WsAssumption DEF Init
<1>1. MainTypes /\ ResultTypes
    BY DEF MainTypes, ResultTypes
<1>2. NetTypes
    BY DEF NetTypes
<1>3. Clocks
    BY DEF Clocks
<1>4. ReaderTypes
    BY DEF ReaderTypes
<1>5. Sequential /\ Started /\ Targets /\ Dialled
    BY DEF Sequential, Started, Targets, Dialled
<1>6. FlagTypes
    BY DEF FlagTypes
<1>7. QED
    BY <1>1, <1>2, <1>3, <1>4, <1>5, <1>6 DEF TypeInv

LEMMA MainTyped ==
    TypeInv /\ [Next]_vars => MainTypes' /\ ResultTypes' /\ FlagTypes'
<1> SUFFICES ASSUME TypeInv, [Next]_vars
             PROVE  MainTypes' /\ ResultTypes' /\ FlagTypes'
    OBVIOUS
<1> USE WsAssumption DEF TypeInv, MainTypes, ResultTypes, FlagTypes
<1>1. CASE UNCHANGED vars
    BY <1>1 DEF vars, client, readers, flags, net, clocks
<1>2. CASE Tick
    BY <1>2 DEF Tick, client, readers, net
<1>3. ASSUME NEW i \in Runs, Main(i)
      PROVE  MainTypes' /\ ResultTypes' /\ FlagTypes'
    <2>1. CASE DialFails(i) \/ SubscribeFails(i) \/ Cancelled(i) \/ PingFails(i)
        BY <2>1 DEF DialFails, SubscribeFails, Cancelled, PingFails, Return,
            readers, flags, Verdicts
    <2>2. CASE Dial(i)
        BY <2>2 DEF Dial, Stored, readers, flags
    <2>3. CASE Subscribe(i)
        BY <2>3 DEF Subscribe, flags
    <2>4. CASE SendPing(i)
        BY <2>4 DEF SendPing, client, flags
    <2>5. CASE ReaderFailed(i)
        BY <2>5 DEF ReaderFailed, Return, flags, ReaderTypes, Verdicts
    <2>6. QED
        BY <1>3, <2>1, <2>2, <2>3, <2>4, <2>5 DEF Main
<1>4. ASSUME NEW i \in Runs, Reader(i)
      PROVE  MainTypes' /\ ResultTypes' /\ FlagTypes'
    <2>1. CASE EnterRead(i)
        BY <2>1 DEF EnterRead, client
    <2>2. CASE Receive(i)
        BY <2>2 DEF Receive, client
    <2>3. CASE HearControl(i) \/ HandlerReturns(i) \/ ReadFails(i)
        BY <2>3 DEF HearControl, HandlerReturns, ReadFails, client, flags
    <2>4. QED
        BY <1>4, <2>1, <2>2, <2>3 DEF Reader
<1>5. ASSUME NEW i \in Runs, Environment(i)
      PROVE  MainTypes' /\ ResultTypes' /\ FlagTypes'
    <2>1. CASE Call(i)
        BY <2>1 DEF Call, flags
    <2>2. CASE Cancel(i)
        BY <2>2 DEF Cancel, flags
    <2>3. CASE Push(i) \/ Answer(i) \/ Hangup(i)
        BY <2>3 DEF Push, Answer, Hangup, client, flags
    <2>4. QED
        BY <1>5, <2>1, <2>2, <2>3 DEF Environment
<1>6. QED
    BY <1>1, <1>2, <1>3, <1>4, <1>5 DEF Next

LEMMA NetTyped == TypeInv /\ [Next]_vars => NetTypes'
<1> SUFFICES ASSUME TypeInv, [Next]_vars PROVE NetTypes'
    OBVIOUS
<1> USE WsAssumption DEF TypeInv, NetTypes
<1>1. CASE UNCHANGED vars
    BY <1>1 DEF vars, net, clocks
<1>2. CASE Tick
    BY <1>2 DEF Tick, net
<1>3. ASSUME NEW i \in Runs, Main(i) PROVE NetTypes'
    <2>1. ASSUME NEW e, Return(i, e) PROVE NetTypes'
        BY <2>1 DEF Return, Ends
    <2>2. CASE Dial(i)
        BY <2>2 DEF Dial
    <2>3. CASE Subscribe(i) \/ SendPing(i)
        BY <2>3 DEF Subscribe, SendPing, clocks, net
    <2>4. QED
        BY <1>3, <2>1, <2>2, <2>3 DEF Main, DialFails, SubscribeFails,
            Cancelled, PingFails, ReaderFailed
<1>4. ASSUME NEW i \in Runs, Reader(i) PROVE NetTypes'
    BY <1>4 DEF Reader, EnterRead, Receive, HearControl, HandlerReturns,
        ReadFails, clocks, net
<1>5. ASSUME NEW i \in Runs, Environment(i) PROVE NetTypes'
    <2>1. CASE Call(i) \/ Cancel(i)
        BY <2>1 DEF Call, Cancel, clocks, net
    <2>2. CASE Push(i) \/ Answer(i)
        BY <2>2 DEF Push, Answer, clocks
    <2>3. CASE Hangup(i)
        BY <2>3 DEF Hangup
    <2>4. QED
        BY <1>5, <2>1, <2>2, <2>3 DEF Environment
<1>6. QED
    BY <1>1, <1>2, <1>3, <1>4, <1>5 DEF Next

LEMMA ClocksTyped == TypeInv /\ [Next]_vars => Clocks'
<1> SUFFICES ASSUME TypeInv, [Next]_vars PROVE Clocks'
    OBVIOUS
<1> USE WsAssumption DEF TypeInv, Clocks
<1>1. CASE UNCHANGED vars
    BY <1>1 DEF vars, clocks
<1>2. CASE Tick
    <2>1. ASSUME NEW b, NEW m \in Nat, NEW n \in 0..m PROVE Later(b, n, m) \in 0..m
        BY DEF Later
    <2>2. quiet' \in [Runs -> 0..Deadline]
        BY <1>2, <2>1 DEF Tick
    <2>3. pinged' \in [Runs -> 0..PingMax]
        BY <1>2, <2>1 DEF Tick
    <2>4. owed' \in [Runs -> 0..(Latency + 1)]
        <3>1. Latency + 1 \in Nat
            OBVIOUS
        <3>2. QED
            BY <1>2, <2>1, <3>1 DEF Tick
    <2>5. QED
        BY <2>2, <2>3, <2>4
<1>3. ASSUME NEW i \in Runs, Main(i) PROVE Clocks'
    <2>1. ASSUME NEW e, Return(i, e) PROVE Clocks'
        BY <2>1 DEF Return
    <2>2. CASE Dial(i) \/ Subscribe(i)
        BY <2>2 DEF Dial, Subscribe, clocks
    <2>3. CASE SendPing(i)
        BY <2>3 DEF SendPing, QuietAfterPing
    <2>4. QED
        BY <1>3, <2>1, <2>2, <2>3 DEF Main, DialFails, SubscribeFails,
            Cancelled, PingFails, ReaderFailed
<1>4. ASSUME NEW i \in Runs, Reader(i) PROVE Clocks'
    <2>1. CASE Receive(i) \/ HearControl(i)
        <3>1. /\ \/ quiet' = [quiet EXCEPT ![i] = 0]
                 \/ quiet' = [quiet EXCEPT ![target[i]] = 0]
              /\ owed' = owed /\ pinged' = pinged
            BY <2>1 DEF Receive, HearControl, ResetDeadline
        <3>2. 0 \in 0..Deadline
            OBVIOUS
        <3>3. QED
            BY <3>1, <3>2
    <2>2. CASE EnterRead(i) \/ HandlerReturns(i) \/ ReadFails(i)
        <3>1. UNCHANGED clocks
            BY <2>2 DEF EnterRead, HandlerReturns, ReadFails
        <3>2. QED
            BY <3>1 DEF clocks
    <2>3. QED
        BY <1>4, <2>1, <2>2 DEF Reader
<1>5. ASSUME NEW i \in Runs, Environment(i) PROVE Clocks'
    <2>1. CASE Call(i) \/ Cancel(i) \/ Push(i)
        BY <2>1 DEF Call, Cancel, Push, clocks
    <2>2. 0 \in 0..(Latency + 1)
        OBVIOUS
    <2>3. CASE Answer(i)
        BY <2>2, <2>3 DEF Answer, client, readers, flags
    <2>4. CASE Hangup(i)
        BY <2>2, <2>4 DEF Hangup, client, readers, flags
    <2>5. QED
        BY <1>5, <2>1, <2>3, <2>4 DEF Environment
<1>6. QED
    BY <1>1, <1>2, <1>3, <1>4, <1>5 DEF Next

LEMMA ReaderTyped == TypeInv /\ [Next]_vars => ReaderTypes' /\ Targets'
<1> SUFFICES ASSUME TypeInv, [Next]_vars PROVE ReaderTypes' /\ Targets'
    OBVIOUS
<1> USE WsAssumption DEF TypeInv, ReaderTypes, Targets
<1>1. CASE UNCHANGED vars
    BY <1>1 DEF vars, readers
<1>2. CASE Tick
    BY <1>2 DEF Tick, readers
<1>3. ASSUME NEW i \in Runs, Main(i) PROVE ReaderTypes' /\ Targets'
    BY <1>3 DEF Main, DialFails, Dial, Subscribe, SubscribeFails, Cancelled,
        SendPing, PingFails, ReaderFailed, readers
<1>4. ASSUME NEW i \in Runs, Reader(i) PROVE ReaderTypes' /\ Targets'
    <2>1. CASE EnterRead(i)
        BY <2>1 DEF EnterRead, MainTypes, Started
    <2>2. CASE Receive(i)
        BY <2>2 DEF Receive
    <2>a. CASE HearControl(i)
        BY <2>a DEF HearControl, readers, client
    <2>3. CASE HandlerReturns(i)
        BY <2>3 DEF HandlerReturns
    <2>4. CASE ReadFails(i)
        <3>1. target[i] \in Runs /\ link[target[i]] \in Ends \cup {"up", "none"}
            BY <2>4 DEF ReadFails, NetTypes
        <3>2. link[target[i]] # "none"
            BY <2>4 DEF ReadFails, Dialled
        <3>3. Verdict(target[i]) \in Verdicts
            BY <3>1, <3>2 DEF Verdict, Ends, Verdicts
        <3>4. QED
            BY <2>4, <3>3 DEF ReadFails
    <2>5. QED
        BY <1>4, <2>1, <2>2, <2>3, <2>4, <2>a DEF Reader
<1>5. ASSUME NEW i \in Runs, Environment(i) PROVE ReaderTypes' /\ Targets'
    BY <1>5 DEF Environment, Call, Cancel, Push, Answer, Hangup, readers
<1>6. QED
    BY <1>1, <1>2, <1>3, <1>4, <1>5 DEF Next

LEMMA SequentialKept == TypeInv /\ [Next]_vars => Sequential' /\ Started'
<1> SUFFICES ASSUME TypeInv, [Next]_vars PROVE Sequential' /\ Started'
    OBVIOUS
<1> USE WsAssumption DEF TypeInv, MainTypes, ReaderTypes, Sequential, Started
<1>1. CASE UNCHANGED vars
    BY <1>1 DEF vars, client, readers
<1>2. CASE Tick
    BY <1>2 DEF Tick, client, readers
<1>3. ASSUME NEW i \in Runs, Main(i) PROVE Sequential' /\ Started'
    <2>1. ASSUME NEW e, Return(i, e), main[i] # "idle",
                 \A j \in Runs : reader'[j] = reader[j]
          PROVE  Sequential' /\ Started'
        BY <2>1 DEF Return
    <2>2. CASE Dial(i)
        BY <2>2 DEF Dial, Stored, readers
    <2>3. CASE Subscribe(i)
        BY <2>3 DEF Subscribe
    <2>4. CASE SendPing(i)
        BY <2>4 DEF SendPing, client, readers
    <2>5. QED
        BY <1>3, <2>1, <2>2, <2>3, <2>4 DEF Main, DialFails, SubscribeFails,
            Cancelled, PingFails, ReaderFailed, readers
<1>4. ASSUME NEW i \in Runs, Reader(i) PROVE Sequential' /\ Started'
    BY <1>4 DEF Reader, EnterRead, Receive, HearControl, HandlerReturns,
        ReadFails, client
<1>5. ASSUME NEW i \in Runs, Environment(i) PROVE Sequential' /\ Started'
    <2>1. CASE Call(i)
        BY <2>1 DEF Call, readers
    <2>2. CASE Cancel(i) \/ Push(i) \/ Answer(i) \/ Hangup(i)
        <3>1. main' = main /\ conn' = conn /\ reader' = reader
            BY <2>2 DEF Cancel, Push, Answer, Hangup, client, readers
        <3>2. QED
            BY <3>1
    <2>3. QED
        BY <1>5, <2>1, <2>2 DEF Environment
<1>6. QED
    BY <1>1, <1>2, <1>3, <1>4, <1>5 DEF Next

LEMMA DialledKept == TypeInv /\ [Next]_vars => Dialled'
<1> SUFFICES ASSUME TypeInv, [Next]_vars PROVE Dialled'
    OBVIOUS
<1> USE WsAssumption DEF TypeInv, MainTypes, NetTypes, ReaderTypes, Started,
        Targets, Dialled
<1>1. CASE UNCHANGED vars
    BY <1>1 DEF vars, client, readers, net
<1>2. CASE Tick
    BY <1>2 DEF Tick, client, readers, net
<1>3. ASSUME NEW i \in Runs, Main(i) PROVE Dialled'
    <2>1. ASSUME NEW e, Return(i, e), reader' = reader, target' = target
          PROVE  Dialled'
        BY <2>1 DEF Return
    <2>2. CASE Dial(i)
        BY <2>2 DEF Dial, Stored, readers
    <2>3. CASE Subscribe(i)
        BY <2>3 DEF Subscribe, net
    <2>4. CASE SendPing(i)
        BY <2>4 DEF SendPing, client, readers, net
    <2>5. QED
        BY <1>3, <2>1, <2>2, <2>3, <2>4 DEF Main, DialFails, SubscribeFails,
            Cancelled, PingFails, ReaderFailed, readers
<1>4. ASSUME NEW i \in Runs, Reader(i) PROVE Dialled'
    <2>1. CASE EnterRead(i)
        BY <2>1 DEF EnterRead, client, net
    <2>2. CASE Receive(i) \/ HearControl(i)
        BY <2>2 DEF Receive, HearControl, client, readers
    <2>3. CASE HandlerReturns(i) \/ ReadFails(i)
        <3>1. /\ conn' = conn /\ link' = link
              /\ \A k \in Runs : reader'[k] = "reading" =>
                     reader[k] = "reading" /\ target'[k] = target[k]
            BY <2>3 DEF HandlerReturns, ReadFails, client, net
        <3>2. QED
            BY <3>1
    <2>4. QED
        BY <1>4, <2>1, <2>2, <2>3 DEF Reader
<1>5. ASSUME NEW i \in Runs, Environment(i) PROVE Dialled'
    <2>1. CASE Call(i) \/ Cancel(i)
        BY <2>1 DEF Call, Cancel, readers, net
    <2>2. CASE Push(i) \/ Answer(i)
        BY <2>2 DEF Push, Answer, client, readers
    <2>3. CASE Hangup(i)
        <3>1. conn' = conn /\ reader' = reader /\ target' = target
            BY <2>3 DEF Hangup, client, readers
        <3>2. PICK e \in Ends \ {"closed"} : link' = [link EXCEPT ![i] = e]
            BY <2>3 DEF Hangup
        <3>3. e # "none"
            BY DEF Ends
        <3>4. \A k \in Runs : link[k] # "none" => link'[k] # "none"
            BY <3>2, <3>3
        <3>5. QED
            BY <3>1, <3>4
    <2>4. QED
        BY <1>5, <2>1, <2>2, <2>3 DEF Environment
<1>6. QED
    BY <1>1, <1>2, <1>3, <1>4, <1>5 DEF Next

LEMMA TypeStep == TypeInv /\ [Next]_vars => TypeInv'
BY MainTyped, NetTyped, ClocksTyped, ReaderTyped, SequentialKept, DialledKept
    DEF TypeInv

\* Every variable keeps its type, and a Run that subscribes or loops writes to
\* the connection it has dialled itself.
THEOREM TypeCorrect == Spec => []TypeOK
<1>1. TypeInv => TypeOK
    <2> SUFFICES ASSUME TypeInv PROVE TypeOK
        OBVIOUS
    <2>1. MainTypes /\ NetTypes /\ Clocks /\ ReaderTypes /\ ResultTypes
          /\ FlagTypes /\ Sequential
        BY DEF TypeInv
    <2>2. QED
        BY <2>1 DEF TypeOK, MainTypes, NetTypes, Clocks, ReaderTypes,
            ResultTypes, FlagTypes, Sequential
<1>2. QED
    BY <1>1, TypeInit, TypeStep, PTL DEF Spec

-----------------------------------------------------------------------------
(* Why a healthy connection never times out.                               *)

\* The clocks of a Run stand still outside its loop, and its reader lives on
\* only after the loop has begun.
Stopped == \A i \in Runs : main[i] # "loop" =>
    owed[i] = 0 /\ quiet[i] = 0 /\ pinged[i] = 0
Asleep == \A i \in Runs : main[i] \in {"idle", "dial", "subscribe"} =>
    reader[i] = "none" /\ readErr[i] = "none"
Awake == \A i \in Runs : main[i] = "loop" =>
    /\ reader[i] # "none"
    /\ reader[i] = "exited" => readErr[i] # "none"

\* A reader is on its own Run's connection, unless a history flag says not.
Own == hindered \/ \A i \in Runs : reader[i] = "reading" => target[i] = i

\* The bounds on the silence of a connection whose server answers.
Bounded(i) ==
    /\ quiet[i] <= PingMax + Latency
    /\ inbox[i] = "none" /\ owed[i] = 0 => quiet[i] <= pinged[i]
    /\ inbox[i] = "none" /\ owed[i] > 0 => quiet[i] < PingMax + owed[i]
Heard == \A i \in Runs :
    i \in healthy /\ link[i] = "up" /\ ~hindered => Bounded(i)

SilenceInv == Stopped /\ Asleep /\ Awake /\ Own /\ Heard /\ HealthyNeverTimesOut

LEMMA SilenceInit == Init => SilenceInv
BY WsAssumption DEF Init, SilenceInv, Stopped, Asleep, Awake, Own, Heard,
    HealthyNeverTimesOut

LEMMA StoppedKept == TypeInv /\ Stopped /\ [Next]_vars => Stopped'
<1> SUFFICES ASSUME TypeInv, Stopped, [Next]_vars PROVE Stopped'
    OBVIOUS
<1> USE WsAssumption DEF TypeInv, MainTypes, Clocks, Stopped
<1>1. CASE UNCHANGED vars
    BY <1>1 DEF vars, client, clocks
<1>2. CASE Tick
    BY <1>2 DEF Tick, Later, client
<1>3. ASSUME NEW i \in Runs, Main(i) PROVE Stopped'
    <2>1. ASSUME NEW e, Return(i, e) PROVE Stopped'
        BY <2>1 DEF Return
    <2>2. CASE Dial(i) \/ Subscribe(i)
        BY <2>2 DEF Dial, Subscribe, clocks
    <2>3. CASE SendPing(i)
        BY <2>3 DEF SendPing, client
    <2>4. QED
        BY <1>3, <2>1, <2>2, <2>3 DEF Main, DialFails, SubscribeFails,
            Cancelled, PingFails, ReaderFailed
<1>4. ASSUME NEW i \in Runs, Reader(i) PROVE Stopped'
    <2>1. CASE Receive(i) \/ HearControl(i)
        BY <2>1 DEF Receive, HearControl, ResetDeadline, client
    <2>2. CASE EnterRead(i) \/ HandlerReturns(i) \/ ReadFails(i)
        BY <2>2 DEF EnterRead, HandlerReturns, ReadFails, clocks, client
    <2>3. QED
        BY <1>4, <2>1, <2>2 DEF Reader
<1>5. ASSUME NEW i \in Runs, Environment(i) PROVE Stopped'
    <2>1. CASE Call(i) \/ Cancel(i) \/ Push(i)
        BY <2>1 DEF Call, Cancel, Push, clocks, client
    <2>2. CASE Answer(i) \/ Hangup(i)
        BY <2>2 DEF Answer, Hangup, client
    <2>3. QED
        BY <1>5, <2>1, <2>2 DEF Environment
<1>6. QED
    BY <1>1, <1>2, <1>3, <1>4, <1>5 DEF Next

LEMMA ReadersKept ==
    TypeInv /\ Asleep /\ Awake /\ Own /\ [Next]_vars => Asleep' /\ Awake' /\ Own'
<1> SUFFICES ASSUME TypeInv, Asleep, Awake, Own, [Next]_vars
             PROVE  Asleep' /\ Awake' /\ Own'
    OBVIOUS
<1> USE WsAssumption DEF TypeInv, MainTypes, ReaderTypes, FlagTypes, Asleep,
        Awake, Own
<1>1. CASE UNCHANGED vars
    BY <1>1 DEF vars, client, readers, flags
<1>2. CASE Tick
    BY <1>2 DEF Tick, client, readers
<1>3. ASSUME NEW i \in Runs, Main(i) PROVE Asleep' /\ Awake' /\ Own'
    <2>1. CASE DialFails(i) \/ SubscribeFails(i) \/ Cancelled(i) \/ PingFails(i)
        BY <2>1 DEF DialFails, SubscribeFails, Cancelled, PingFails, Return,
            readers, flags
    <2>2. CASE Dial(i)
        BY <2>2 DEF Dial, readers, flags
    <2>3. CASE Subscribe(i)
        BY <2>3 DEF Subscribe, flags
    <2>4. CASE SendPing(i)
        BY <2>4 DEF SendPing, client, readers, flags
    <2>5. CASE ReaderFailed(i)
        BY <2>5 DEF ReaderFailed, Return, flags
    <2>6. QED
        BY <1>3, <2>1, <2>2, <2>3, <2>4, <2>5 DEF Main
<1>4. ASSUME NEW i \in Runs, Reader(i) PROVE Asleep' /\ Awake' /\ Own'
    <2>1. CASE EnterRead(i)
        BY <2>1 DEF EnterRead, client
    <2>2. CASE Receive(i) \/ HearControl(i)
        BY <2>2 DEF Receive, HearControl, client, readers, flags
    <2>3. CASE HandlerReturns(i)
        BY <2>3 DEF HandlerReturns, client, flags
    <2>4. CASE ReadFails(i)
        <3>1. target[i] \in Runs /\ link[target[i]] \in Ends \cup {"up"}
            BY <2>4 DEF ReadFails, Targets, Dialled, NetTypes
        <3>2. Verdict(target[i]) # "none"
            BY <3>1 DEF Verdict, Ends
        <3>3. QED
            BY <2>4, <3>2 DEF ReadFails, client, flags
    <2>5. QED
        BY <1>4, <2>1, <2>2, <2>3, <2>4 DEF Reader
<1>5. ASSUME NEW i \in Runs, Environment(i) PROVE Asleep' /\ Awake' /\ Own'
    <2>1. CASE Call(i)
        BY <2>1 DEF Call, readers, flags
    <2>2. CASE Cancel(i)
        BY <2>2 DEF Cancel, readers, flags
    <2>3. CASE Push(i) \/ Answer(i) \/ Hangup(i)
        BY <2>3 DEF Push, Answer, Hangup, client, readers, flags
    <2>4. QED
        BY <1>5, <2>1, <2>2, <2>3 DEF Environment
<1>6. QED
    BY <1>1, <1>2, <1>3, <1>4, <1>5 DEF Next

\* Time passes only when what has arrived has been read.
LEMMA TickHeard == ASSUME TypeInv, SilenceInv, Tick PROVE Heard'
<1> SUFFICES ASSUME NEW i \in Runs, i \in healthy', link'[i] = "up", ~hindered'
             PROVE  Bounded(i)'
    BY DEF Heard
<1>1. /\ i \in healthy /\ link[i] = "up" /\ ~hindered /\ Prompt(i)
      /\ \A j \in Runs : reader[j] # "handling"
    BY DEF Tick, net
<1>2. Bounded(i)
    BY <1>1 DEF SilenceInv, Heard
<1>3. /\ owed[i] \in Nat /\ quiet[i] \in 0..Deadline /\ pinged[i] \in 0..PingMax
      /\ main[i] \in {"idle", "dial", "subscribe", "loop", "returned"}
      /\ reader[i] \in {"none", "top", "reading", "handling", "exited"}
    <2>1. owed[i] \in 0..(Latency + 1) /\ quiet[i] \in 0..Deadline
          /\ pinged[i] \in 0..PingMax
        BY DEF TypeInv, Clocks
    <2>2. 0..(Latency + 1) \subseteq Nat
        OBVIOUS
    <2>3. main[i] \in {"idle", "dial", "subscribe", "loop", "returned"}
        BY DEF TypeInv, MainTypes
    <2>4. reader[i] \in {"none", "top", "reading", "handling", "exited"}
        BY DEF TypeInv, ReaderTypes
    <2>5. QED
        BY <2>1, <2>2, <2>3, <2>4
<1>4. /\ quiet'[i] = Later(main[i] = "loop", quiet[i], Deadline)
      /\ pinged'[i] = Later(main[i] = "loop", pinged[i], PingMax)
      /\ owed'[i] = Later(owed[i] > 0, owed[i], Latency + 1)
      /\ inbox' = inbox
    BY DEF Tick, net
<1>5. CASE main[i] = "loop"
    <2>1. reader[i] = "reading" /\ target[i] = i
        BY <1>1, <1>3, <1>5 DEF Prompt, SilenceInv, Awake, Own
    <2>2. inbox[i] = "none" /\ pinged[i] < PingMax /\ owed[i] <= Latency
        BY <1>1, <1>5, <2>1 DEF Prompt
    <2>3. CASE owed[i] = 0
        BY <1>2, <1>3, <1>4, <1>5, <2>2, <2>3, WsAssumption DEF Bounded, Later
    <2>4. CASE owed[i] > 0
        BY <1>2, <1>3, <1>4, <1>5, <2>2, <2>4, WsAssumption DEF Bounded, Later
    <2>5. QED
        BY <1>3, <2>3, <2>4
<1>6. CASE main[i] # "loop"
    <2>1. owed[i] = 0 /\ quiet[i] = 0 /\ pinged[i] = 0
        BY <1>6 DEF SilenceInv, Stopped
    <2>2. owed'[i] = 0 /\ quiet'[i] = 0 /\ pinged'[i] = 0
        BY <1>4, <1>6, <2>1 DEF Later
    <2>3. QED
        BY <2>2, WsAssumption DEF Bounded
<1>7. QED
    BY <1>5, <1>6

\* A step that leaves the clocks, what has arrived and the flags of a Run
\* alone, and does not make a connection healthy or link it up.
LEMMA HeardElsewhere ==
    ASSUME SilenceInv, NEW i \in Runs, hindered => hindered',
           /\ quiet'[i] = quiet[i] /\ pinged'[i] = pinged[i]
           /\ owed'[i] = owed[i] /\ inbox'[i] = inbox[i],
           i \in healthy' => i \in healthy,
           link'[i] = "up" => link[i] = "up"
    PROVE  i \in healthy' /\ link'[i] = "up" /\ ~hindered' => Bounded(i)'
BY DEF SilenceInv, Heard, Bounded

LEMMA HeardKept == TypeInv /\ SilenceInv /\ [Next]_vars => Heard'
<1> SUFFICES ASSUME TypeInv, SilenceInv, [Next]_vars PROVE Heard'
    OBVIOUS
<1>0. ASSUME NEW k \in Runs
      PROVE  /\ owed[k] \in 0..(Latency + 1) /\ quiet[k] \in 0..Deadline
             /\ pinged[k] \in 0..PingMax
             /\ main[k] # "loop" => owed[k] = 0 /\ quiet[k] = 0 /\ pinged[k] = 0
    BY DEF TypeInv, Clocks, SilenceInv, Stopped
<1>1. CASE UNCHANGED vars
    BY <1>1 DEF SilenceInv, Heard, Bounded, vars, clocks, net, flags
<1>2. CASE Tick
    BY <1>2, TickHeard
<1>3. ASSUME NEW i \in Runs, Main(i) PROVE Heard'
    <2> SUFFICES ASSUME NEW k \in Runs, k \in healthy', link'[k] = "up", ~hindered'
                 PROVE  Bounded(k)'
        BY DEF Heard
    <2>1. ASSUME NEW e, Return(i, e), hindered' = hindered PROVE Bounded(k)'
        <3>1. k # i
            BY <2>1 DEF Return
        <3>2. /\ quiet'[k] = quiet[k] /\ pinged'[k] = pinged[k]
              /\ owed'[k] = owed[k] /\ inbox'[k] = inbox[k]
              /\ k \in healthy /\ link[k] = "up"
            BY <2>1, <3>1 DEF Return, TypeInv, Clocks, NetTypes
        <3>3. QED
            BY <2>1, <3>2, HeardElsewhere
    <2>2. CASE Dial(i)
        <3>1. CASE k = i
            <4>1. quiet'[k] = 0 /\ pinged'[k] = 0 /\ owed'[k] = 0
                BY <1>0, <2>2, <3>1 DEF Dial
            <4>2. QED
                BY <4>1, WsAssumption DEF Bounded
        <3>2. CASE k # i
            <4>1. /\ quiet' = quiet /\ pinged' = pinged /\ owed' = owed
                  /\ inbox' = inbox /\ hindered' = hindered
                  /\ k \in healthy /\ link[k] = "up"
                BY <2>2, <3>2 DEF Dial, flags, TypeInv, NetTypes
            <4>2. QED
                BY <4>1, HeardElsewhere
        <3>3. QED
            BY <3>1, <3>2
    <2>3. CASE Subscribe(i)
        BY <2>3, HeardElsewhere DEF Subscribe, clocks, net, flags
    <2>4. CASE SendPing(i)
        <3>1. k \in healthy /\ link[k] = "up" /\ ~hindered /\ inbox' = inbox
              /\ quiet'[k] = quiet[k]
            BY <2>4 DEF SendPing, net, flags, QuietAfterPing, TypeInv, Clocks
        <3>2. Bounded(k)
            BY <3>1 DEF SilenceInv, Heard
        <3>3. CASE k = i
            <4>1. pinged'[k] = 0 /\ owed'[k] = IF owed[k] = 0 THEN 1 ELSE owed[k]
                BY <2>4, <3>1, <3>3 DEF SendPing, TypeInv, Clocks
            <4>2. QED
                BY <1>0, <3>1, <3>2, <4>1, WsAssumption DEF Bounded
        <3>4. CASE k # i
            BY <2>4, <3>1, <3>2, <3>4 DEF SendPing, Bounded, TypeInv, Clocks
        <3>5. QED
            BY <3>3, <3>4
    <2>5. QED
        BY <1>3, <2>1, <2>2, <2>3, <2>4 DEF Main, DialFails, SubscribeFails,
            Cancelled, PingFails, ReaderFailed, flags
<1>4. ASSUME NEW i \in Runs, Reader(i) PROVE Heard'
    <2> SUFFICES ASSUME NEW k \in Runs, k \in healthy', link'[k] = "up", ~hindered'
                 PROVE  Bounded(k)'
        BY DEF Heard
    <2>1. CASE EnterRead(i)
        BY <2>1, HeardElsewhere DEF EnterRead, clocks, net
    <2>2. CASE HandlerReturns(i) \/ ReadFails(i)
        BY <2>2, HeardElsewhere DEF HandlerReturns, ReadFails, clocks, net, flags
    <2>3. CASE Receive(i) \/ HearControl(i)
        <3>1. target[i] = i /\ link' = link /\ healthy' = healthy
              /\ pinged' = pinged /\ owed' = owed /\ hindered' = hindered
            BY <2>3 DEF Receive, HearControl, flags, SilenceInv, Own
        <3>2. CASE k = i
            <4>1. quiet'[k] = 0
                BY <2>3, <3>1, <3>2 DEF Receive, HearControl, ResetDeadline, TypeInv,
                    Clocks
            <4>2. QED
                BY <1>0, <3>1, <4>1, WsAssumption DEF Bounded
        <3>3. CASE k # i
            <4>1. quiet'[k] = quiet[k] /\ inbox'[k] = inbox[k]
                BY <2>3, <3>1, <3>3 DEF Receive, HearControl, ResetDeadline, TypeInv, Clocks,
                    NetTypes
            <4>2. QED
                BY <3>1, <4>1, HeardElsewhere
        <3>4. QED
            BY <3>2, <3>3
    <2>4. QED
        BY <1>4, <2>1, <2>2, <2>3 DEF Reader
<1>5. ASSUME NEW i \in Runs, Environment(i) PROVE Heard'
    <2> SUFFICES ASSUME NEW k \in Runs, k \in healthy', link'[k] = "up", ~hindered'
                 PROVE  Bounded(k)'
        BY DEF Heard
    <2>1. CASE Call(i) \/ Cancel(i)
        BY <2>1, HeardElsewhere DEF Call, Cancel, clocks, net, flags
    <2>2. CASE Push(i) \/ Answer(i)
        <3>1. /\ quiet' = quiet /\ pinged' = pinged /\ link' = link
              /\ healthy' = healthy /\ hindered' = hindered
            BY <2>2 DEF Push, Answer, clocks, flags
        <3>2. CASE k = i
            <4>1. inbox'[k] # "none"
                BY <2>2, <3>2 DEF Push, Answer, TypeInv, NetTypes
            <4>2. QED
                BY <3>1, <4>1 DEF Bounded, SilenceInv, Heard
        <3>3. CASE k # i
            <4>1. owed'[k] = owed[k] /\ inbox'[k] = inbox[k]
                BY <2>2, <3>3 DEF Push, Answer, clocks, TypeInv, Clocks, NetTypes
            <4>2. QED
                BY <3>1, <4>1, HeardElsewhere
        <3>4. QED
            BY <3>2, <3>3
    <2>3. CASE Hangup(i)
        <3>1. k # i
            BY <2>3 DEF Hangup, Ends, TypeInv, NetTypes
        <3>2. /\ quiet' = quiet /\ pinged' = pinged /\ healthy' = healthy
              /\ inbox' = inbox /\ hindered' = hindered /\ owed'[k] = owed[k]
              /\ link[k] = "up"
            BY <2>3, <3>1 DEF Hangup, flags, TypeInv, Clocks, NetTypes
        <3>3. QED
            BY <3>2, HeardElsewhere
    <2>4. QED
        BY <1>5, <2>1, <2>2, <2>3 DEF Environment
<1>6. QED
    BY <1>1, <1>2, <1>3, <1>4, <1>5 DEF Next

LEMMA NoTimeout ==
    TypeInv /\ SilenceInv /\ [Next]_vars => HealthyNeverTimesOut'
<1> SUFFICES ASSUME TypeInv, SilenceInv, [Next]_vars,
                    NEW k \in Runs, readErr'[k] = "timeout", ~hindered'
             PROVE  k \notin healthy'
    BY DEF HealthyNeverTimesOut
<1>1. ASSUME readErr[k] = "timeout", ~hindered PROVE k \notin healthy
    BY <1>1 DEF SilenceInv, HealthyNeverTimesOut
<1>2. CASE UNCHANGED vars
    BY <1>1, <1>2 DEF vars, readers, net, flags
<1>3. CASE Tick
    BY <1>1, <1>3 DEF Tick, readers, net
<1>4. ASSUME NEW i \in Runs, Main(i) PROVE k \notin healthy'
    <2>1. CASE Dial(i)
        BY <1>1, <2>1 DEF Dial, readers, flags, SilenceInv, Asleep
    <2>2. CASE ReaderFailed(i)
        BY <1>1, <2>2 DEF ReaderFailed, Return, flags, TypeInv, ReaderTypes
    <2>3. CASE DialFails(i) \/ SubscribeFails(i) \/ Cancelled(i) \/ PingFails(i)
        BY <1>1, <2>3 DEF DialFails, SubscribeFails, Cancelled, PingFails, Return,
            readers, flags
    <2>4. CASE Subscribe(i) \/ SendPing(i)
        BY <1>1, <2>4 DEF Subscribe, SendPing, net, client, readers, flags
    <2>5. QED
        BY <1>4, <2>1, <2>2, <2>3, <2>4 DEF Main
<1>5. ASSUME NEW i \in Runs, Reader(i) PROVE k \notin healthy'
    <2>1. CASE EnterRead(i) \/ Receive(i) \/ HearControl(i) \/ HandlerReturns(i)
        BY <1>1, <2>1 DEF EnterRead, Receive, HearControl, HandlerReturns, net,
            readers, flags
    <2>2. CASE ReadFails(i)
        <3>1. CASE k # i
            BY <1>1, <2>2, <3>1 DEF ReadFails, net, flags, TypeInv, ReaderTypes
        <3>2. CASE k = i
            <4>1. ~hindered /\ target[i] = i
                BY <2>2 DEF ReadFails, flags, SilenceInv, Own
            <4>2. link[i] \in Ends \cup {"up"} /\ Verdict(i) = "timeout"
                BY <2>2, <3>2, <4>1 DEF ReadFails, TypeInv, ReaderTypes, NetTypes,
                    Dialled
            <4>3. link[i] = "up"
                BY <4>2 DEF Verdict, Ends
            <4>4. quiet[i] >= Deadline
                BY <2>2, <4>1, <4>3 DEF ReadFails
            <4>5. ~(quiet[i] <= PingMax + Latency)
                BY <4>4, WsAssumption DEF TypeInv, Clocks
            <4>6. i \notin healthy
                BY <4>1, <4>3, <4>5 DEF SilenceInv, Heard, Bounded
            <4>7. QED
                BY <2>2, <3>2, <4>6 DEF ReadFails, net
        <3>3. QED
            BY <3>1, <3>2
    <2>3. QED
        BY <1>5, <2>1, <2>2 DEF Reader
<1>6. ASSUME NEW i \in Runs, Environment(i) PROVE k \notin healthy'
    BY <1>1, <1>6 DEF Environment, Call, Cancel, Push, Answer, Hangup, net,
        readers, flags
<1>7. QED
    BY <1>2, <1>3, <1>4, <1>5, <1>6 DEF Next

\* A connection whose server answers each PING within Latency is never given up
\* for silence, whatever the jitter of the ping timer and however many Runs
\* follow each other, unless a callback or another Run's reader holds it up.
THEOREM HealthyLives == Spec => []HealthyNeverTimesOut
<1>1. TypeInv /\ SilenceInv /\ [Next]_vars => TypeInv' /\ SilenceInv'
    BY TypeStep, StoppedKept, ReadersKept, HeardKept, NoTimeout DEF SilenceInv
<1>2. SilenceInv => HealthyNeverTimesOut
    BY DEF SilenceInv
<1>3. QED
    BY <1>1, <1>2, TypeInit, SilenceInit, PTL DEF Spec

-----------------------------------------------------------------------------
(* Which connection a reader is on, and where it ends.                     *)

\* Runs dial one after the other, and a reader lives on beside those that came
\* later: the connection it is on was dialled by its own Run or one of them.
ConnInv ==
    /\ \A i \in Runs : i > conn => main[i] \in {"idle", "dial", "returned"}
                                   /\ reader[i] = "none"
    /\ conn # 0 => main[conn] \notin {"idle", "dial"}
    /\ \A i \in Runs : reader[i] = "reading" => target[i] \in i..conn

LEMMA ConnInit == Init => ConnInv
BY WsAssumption DEF Init, ConnInv

LEMMA ConnStep == TypeInv /\ ConnInv /\ [Next]_vars => ConnInv'
<1> SUFFICES ASSUME TypeInv, ConnInv, [Next]_vars PROVE ConnInv'
    OBVIOUS
<1> USE WsAssumption DEF TypeInv, MainTypes, ReaderTypes, ConnInv
<1>1. CASE UNCHANGED vars
    BY <1>1 DEF vars, client, readers
<1>2. CASE Tick
    BY <1>2 DEF Tick, client, readers
<1>3. ASSUME NEW i \in Runs, Main(i) PROVE ConnInv'
    <2>1. CASE DialFails(i) \/ SubscribeFails(i) \/ Cancelled(i) \/ PingFails(i)
               \/ ReaderFailed(i)
        <3>1. main' = [main EXCEPT ![i] = "returned"] /\ main[i] # "idle"
              /\ UNCHANGED <<conn, reader, target>>
            BY <2>1 DEF DialFails, SubscribeFails, Cancelled, PingFails,
                ReaderFailed, Return, readers
        <3>2. QED
            BY <3>1
    <2>2. CASE Dial(i)
        <3>1. conn <= i
            <4>1. ASSUME conn # 0 PROVE ~(i < conn)
                BY <2>2, <4>1 DEF Dial, Sequential
            <4>2. QED
                BY <4>1
        <3>2. main' = [main EXCEPT ![i] = "subscribe"] /\ conn' = i
              /\ reader' = reader /\ target' = target
            BY <2>2 DEF Dial, Stored, readers
        <3>3. QED
            BY <3>1, <3>2
    <2>3. CASE Subscribe(i)
        <3>1. conn = i
            BY <2>3 DEF Subscribe, Sequential
        <3>2. QED
            BY <2>3, <3>1 DEF Subscribe
    <2>4. CASE SendPing(i)
        BY <2>4 DEF SendPing, client, readers
    <2>5. QED
        BY <1>3, <2>1, <2>2, <2>3, <2>4 DEF Main
<1>4. ASSUME NEW i \in Runs, Reader(i) PROVE ConnInv'
    <2>1. CASE EnterRead(i)
        BY <2>1 DEF EnterRead, client
    <2>2. CASE Receive(i) \/ HandlerReturns(i) \/ ReadFails(i)
        <3>1. /\ reader[i] \in {"reading", "handling"}
              /\ \E next \in {"top", "handling", "exited"} :
                     reader' = [reader EXCEPT ![i] = next]
            BY <2>2 DEF Receive, HandlerReturns, ReadFails
        <3>2. /\ target' = target \/ target' = [target EXCEPT ![i] = 0]
              /\ main' = main /\ conn' = conn
            BY <2>2 DEF Receive, HandlerReturns, ReadFails, client
        <3>3. QED
            BY <3>1, <3>2
    <2>a. CASE HearControl(i)
        BY <2>a DEF HearControl, readers, client
    <2>3. QED
        BY <1>4, <2>1, <2>2, <2>a DEF Reader
<1>5. ASSUME NEW i \in Runs, Environment(i) PROVE ConnInv'
    <2>1. CASE Call(i)
        BY <2>1 DEF Call, readers
    <2>2. CASE Cancel(i) \/ Push(i) \/ Answer(i) \/ Hangup(i)
        BY <2>2 DEF Cancel, Push, Answer, Hangup, client, readers
    <2>3. QED
        BY <1>5, <2>1, <2>2 DEF Environment
<1>6. QED
    BY <1>1, <1>2, <1>3, <1>4, <1>5 DEF Next

\* The reader of a Run is on its own connection until a later Run has dialled.
OwnUntilRedialled ==
    \A i \in Runs : reader[i] = "reading" =>
        target[i] >= i
        /\ ((\A j \in Runs : j > i => main[j] \in {"idle", "dial"}) => target[i] = i)

\* A reader that goes on with another Run's connection, which the code does not
\* prevent, needs a caller that has connected again: it never reads an earlier
\* connection, and without a later Run that has dialled only its own.
THEOREM ForeignReadsNeedRedial == Spec => []OwnUntilRedialled
<1>1. TypeInv /\ ConnInv => OwnUntilRedialled
    <2> SUFFICES ASSUME TypeInv, ConnInv, NEW i \in Runs, reader[i] = "reading"
                 PROVE  /\ target[i] >= i
                        /\ (\A j \in Runs : j > i => main[j] \in {"idle", "dial"})
                              => target[i] = i
        BY DEF OwnUntilRedialled
    <2>1. conn \in 0..MaxRuns /\ target[i] \in i..conn
        BY DEF TypeInv, MainTypes, ConnInv
    <2>2. ASSUME \A j \in Runs : j > i => main[j] \in {"idle", "dial"}
          PROVE  ~(conn > i)
        BY <2>1, <2>2, WsAssumption DEF ConnInv
    <2>3. QED
        BY <2>1, <2>2, WsAssumption
<1>2. QED
    BY <1>1, TypeInit, TypeStep, ConnInit, ConnStep, PTL DEF Spec

\* A client on which Run is called once reads no connection but its own.
THEOREM OneRunReadsItsOwn == ASSUME MaxRuns = 1 PROVE Spec => []ReadsOwnConnection
<1>1. OwnUntilRedialled => ReadsOwnConnection
    BY DEF OwnUntilRedialled, ReadsOwnConnection
<1>2. QED
    BY <1>1, ForeignReadsNeedRedial, PTL

\* What the reader has to say finds room.
Roomy ==
    /\ \A i \in Runs : reader[i] # "exited" => readErr[i] = "none"
    /\ \A i \in Runs : reader[i] # "none" => main[i] \in {"loop", "returned"}

LEMMA RoomyInit == Init => Roomy
BY DEF Init, Roomy

LEMMA RoomyKept == TypeInv /\ Roomy /\ [Next]_vars => Roomy'
<1> SUFFICES ASSUME TypeInv, Roomy, [Next]_vars PROVE Roomy'
    OBVIOUS
<1> USE WsAssumption DEF TypeInv, MainTypes, ReaderTypes, Roomy
<1>1. CASE UNCHANGED vars
    BY <1>1 DEF vars, client, readers
<1>2. CASE Tick
    BY <1>2 DEF Tick, client, readers
<1>3. ASSUME NEW i \in Runs, Main(i) PROVE Roomy'
    <2>1. CASE DialFails(i) \/ SubscribeFails(i) \/ Cancelled(i) \/ PingFails(i)
               \/ ReaderFailed(i)
        BY <2>1 DEF DialFails, SubscribeFails, Cancelled, PingFails,
            ReaderFailed, Return, readers
    <2>2. CASE Dial(i) \/ SendPing(i)
        BY <2>2 DEF Dial, SendPing, client, readers
    <2>3. CASE Subscribe(i)
        BY <2>3 DEF Subscribe
    <2>4. QED
        BY <1>3, <2>1, <2>2, <2>3 DEF Main
<1>4. ASSUME NEW i \in Runs, Reader(i) PROVE Roomy'
    BY <1>4 DEF Reader, EnterRead, Receive, HearControl, HandlerReturns,
        ReadFails, client, readers
<1>5. ASSUME NEW i \in Runs, Environment(i) PROVE Roomy'
    BY <1>5 DEF Environment, Call, Cancel, Push, Answer, Hangup, client, readers
<1>6. QED
    BY <1>1, <1>2, <1>3, <1>4, <1>5 DEF Next

\* However its Run ends and whatever a callback does, the reader is never stuck
\* in sending its error: it sends one, and the channel holds one.
THEOREM ReaderNeverBlocks ==
    Spec => [](\A i \in Runs : reader[i] = "reading" => MaySend(i))
<1>1. Roomy => \A i \in Runs : reader[i] = "reading" => MaySend(i)
    BY DEF Roomy, MaySend
<1>2. QED
    BY <1>1, TypeInit, TypeStep, RoomyInit, RoomyKept, PTL DEF Spec

-----------------------------------------------------------------------------
(* The safety half of the liveness properties.                             *)

\* Run closes its connection as it returns, and none opens it again.
Closed == \A i \in Runs :
    main[i] = "returned" => link[i] # "up" /\ inbox[i] = "none"

LEMMA ClosedInit == Init => Closed
BY DEF Init, Closed

LEMMA ClosedKept == TypeInv /\ Closed /\ [Next]_vars => Closed'
<1> SUFFICES ASSUME TypeInv, Closed, [Next]_vars PROVE Closed'
    OBVIOUS
<1> USE WsAssumption DEF TypeInv, MainTypes, NetTypes, ReaderTypes, Closed
<1>1. CASE UNCHANGED vars
    BY <1>1 DEF vars, client, net
<1>2. CASE Tick
    BY <1>2 DEF Tick, client, net
<1>3. ASSUME NEW i \in Runs, Main(i) PROVE Closed'
    <2>1. ASSUME NEW e, Return(i, e) PROVE Closed'
        <3>1. /\ main' = [main EXCEPT ![i] = "returned"]
              /\ link'[i] # "up" /\ inbox'[i] = "none"
              /\ \A j \in Runs \ {i} : link'[j] = link[j] /\ inbox'[j] = inbox[j]
            BY <2>1 DEF Return
        <3>2. QED
            BY <3>1
    <2>2. CASE Dial(i) \/ Subscribe(i) \/ SendPing(i)
        BY <2>2 DEF Dial, Subscribe, SendPing, client, net
    <2>3. QED
        BY <1>3, <2>1, <2>2 DEF Main, DialFails, SubscribeFails, Cancelled,
            PingFails, ReaderFailed
<1>4. ASSUME NEW i \in Runs, Reader(i) PROVE Closed'
    <2>1. CASE Receive(i) \/ HearControl(i)
        <3>1. main' = main /\ link' = link
              /\ \E t \in 0..MaxRuns : inbox' = [inbox EXCEPT ![t] = "none"]
            BY <2>1 DEF Receive, HearControl, client
        <3>2. QED
            BY <3>1
    <2>2. CASE EnterRead(i) \/ HandlerReturns(i) \/ ReadFails(i)
        BY <2>2 DEF EnterRead, HandlerReturns, ReadFails, client, net
    <2>3. QED
        BY <1>4, <2>1, <2>2 DEF Reader
<1>5. ASSUME NEW i \in Runs, Environment(i) PROVE Closed'
    <2>1. CASE Call(i) \/ Cancel(i)
        BY <2>1 DEF Call, Cancel, net
    <2>2. CASE Push(i) \/ Answer(i) \/ Hangup(i)
        <3>1. link[i] = "up" /\ main' = main
            BY <2>2 DEF Push, Answer, Hangup, client
        <3>2. main[i] # "returned"
            BY <3>1
        <3>3. \A j \in Runs \ {i} : link'[j] = link[j] /\ inbox'[j] = inbox[j]
            <4>1. CASE Push(i)
                <5>1. PICK m \in {"control", "pong", "typed", "other"} :
                          inbox' = [inbox EXCEPT ![i] = m]
                    BY <4>1 DEF Push
                <5>2. link' = link
                    BY <4>1 DEF Push
                <5>3. QED
                    BY <5>1, <5>2
            <4>2. CASE Answer(i)
                BY <4>2 DEF Answer
            <4>3. CASE Hangup(i)
                <5>1. PICK e \in Ends : link' = [link EXCEPT ![i] = e]
                    BY <4>3 DEF Hangup
                <5>2. inbox' = inbox
                    BY <4>3 DEF Hangup
                <5>3. QED
                    BY <5>1, <5>2
            <4>4. QED
                BY <2>2, <4>1, <4>2, <4>3
        <3>4. QED
            BY <3>1, <3>2, <3>3
    <2>3. QED
        BY <1>5, <2>1, <2>2 DEF Environment
<1>6. QED
    BY <1>1, <1>2, <1>3, <1>4, <1>5 DEF Next

AllReturned == \A i \in Runs : main[i] = "returned"

\* What a reader waits for has come: a read that is under way fails.
ReadsFail == AllReturned =>
    \A i \in Runs : reader[i] = "reading" =>
        link[target[i]] # "up" /\ inbox[target[i]] = "none" /\ MaySend(i)

\* The stops of a reader that finds no data any more.
Stops == {<<"handling", "top">>, <<"top", "reading">>, <<"reading", "exited">>}

OneStopOn ==
    /\ main' = main
    /\ \E i \in Runs : \E stop \in {"top", "reading", "exited"} :
          <<reader[i], stop>> \in Stops /\ reader' = [reader EXCEPT ![i] = stop]

\* Once every Run has returned, no read that a reader left behind can wait, and
\* each step there is takes one of those readers a stop further to its end: at
\* most three steps for each, and nothing that starts one again.
THEOREM ReadersRunOut == Spec => []ReadsFail /\ [][AllReturned => OneStopOn]_vars
<1>1. TypeInv /\ Closed /\ Roomy => ReadsFail
    BY DEF TypeInv, Targets, Closed, Roomy, ReadsFail, AllReturned, MaySend
<1>2. TypeInv /\ Closed /\ AllReturned /\ Next => OneStopOn
    <2> SUFFICES ASSUME TypeInv, Closed, AllReturned, Next PROVE OneStopOn
        OBVIOUS
    <2> USE DEF AllReturned
    <2>1. ~Tick
        BY DEF Tick
    <2>2. ASSUME NEW i \in Runs PROVE ~Main(i)
        BY DEF Main, DialFails, Dial, Subscribe, SubscribeFails, Cancelled,
            SendPing, PingFails, ReaderFailed
    <2>3. ASSUME NEW i \in Runs PROVE ~Environment(i)
        <3>1. link[i] # "up" /\ main[i] = "returned"
            BY DEF Closed
        <3>2. QED
            BY <3>1 DEF Environment, Call, Cancel, Push, Answer, Hangup
    <2>4. ASSUME NEW i \in Runs, Reader(i) PROVE OneStopOn
        <3>1. CASE EnterRead(i)
            BY <3>1 DEF EnterRead, OneStopOn, Stops, client
        <3>2. CASE Receive(i) \/ HearControl(i)
            <4>1. reader[i] = "reading" /\ inbox[target[i]] # "none"
                BY <3>2 DEF Receive, HearControl
            <4>2. QED
                BY <4>1 DEF TypeInv, Targets, Closed
        <3>3. CASE HandlerReturns(i)
            BY <3>3 DEF HandlerReturns, OneStopOn, Stops, client
        <3>4. CASE ReadFails(i)
            BY <3>4 DEF ReadFails, OneStopOn, Stops, client
        <3>5. QED
            BY <2>4, <3>1, <3>2, <3>3, <3>4 DEF Reader
    <2>5. QED
        BY <2>1, <2>2, <2>3, <2>4 DEF Next
<1>3. QED
    BY <1>1, <1>2, TypeInit, TypeStep, ClosedInit, ClosedKept, RoomyInit,
        RoomyKept, PTL DEF Spec

\* A Run that waits for data on a connection that has none.
Listening(i) == main[i] = "loop" /\ reader[i] = "reading" /\ inbox[i] = "none"

\* A tick brings the deadline nearer, and finds it not yet reached.
DeadlineNears(i) ==
    IF Tick THEN quiet[i] < Deadline /\ quiet'[i] = quiet[i] + 1
    ELSE quiet'[i] = quiet[i]

\* While a Run listens in vain, only time passes for its read deadline, whatever
\* it writes and whatever the readers of earlier Runs do: no more than Deadline
\* ticks go by before the read fails.
THEOREM SilenceCounts ==
    Spec => [][\A i \in Runs :
                  Listening(i) /\ main'[i] = "loop" => DeadlineNears(i)]_vars
<1>1. TypeInv /\ ConnInv /\ Next =>
          \A i \in Runs : Listening(i) /\ main'[i] = "loop" => DeadlineNears(i)
    <2> SUFFICES ASSUME TypeInv, ConnInv, Next, NEW i \in Runs, Listening(i),
                        main'[i] = "loop"
                 PROVE  DeadlineNears(i)
        OBVIOUS
    <2> USE WsAssumption DEF TypeInv, MainTypes, Clocks, ReaderTypes, Listening
    <2>1. target[i] = i
        <3>1. conn = i /\ target[i] \in i..conn
            BY DEF Sequential, ConnInv
        <3>2. QED
            BY <3>1
    <2>2. CASE Tick
        <3>1. quiet[i] < Deadline /\ quiet'[i] = Later(TRUE, quiet[i], Deadline)
            BY <2>1, <2>2 DEF Tick, Prompt
        <3>2. QED
            BY <2>2, <3>1 DEF Later, DeadlineNears
    <2>3. CASE ~Tick
        <3> SUFFICES quiet'[i] = quiet[i]
            BY <2>3 DEF DeadlineNears
        <3>1. ASSUME NEW j \in Runs, Main(j) PROVE quiet'[i] = quiet[i]
            <4>1. ASSUME NEW e, Return(j, e) PROVE quiet'[i] = quiet[i]
                BY <4>1 DEF Return
            <4>2. CASE Dial(j) \/ Subscribe(j)
                BY <4>2 DEF Dial, Subscribe, clocks
            <4>3. CASE SendPing(j)
                BY <4>3 DEF SendPing, QuietAfterPing
            <4>4. QED
                BY <3>1, <4>1, <4>2, <4>3 DEF Main, DialFails, SubscribeFails,
                    Cancelled, PingFails, ReaderFailed
        <3>2. ASSUME NEW j \in Runs, Reader(j) PROVE quiet'[i] = quiet[i]
            <4>1. CASE Receive(j)
                <5>1. j # i
                    BY <2>1, <4>1 DEF Receive
                <5>2. QED
                    BY <4>1, <5>1 DEF Receive, ResetDeadline
            <4>a. CASE HearControl(j)
                <5>1. target[j] # i
                    BY <4>a DEF HearControl
                <5>2. QED
                    BY <4>a, <5>1 DEF HearControl, ResetDeadline
            <4>2. CASE EnterRead(j) \/ HandlerReturns(j) \/ ReadFails(j)
                BY <4>2 DEF EnterRead, HandlerReturns, ReadFails, clocks
            <4>3. QED
                BY <3>2, <4>1, <4>2, <4>a DEF Reader
        <3>3. ASSUME NEW j \in Runs, Environment(j) PROVE quiet'[i] = quiet[i]
            BY <3>3 DEF Environment, Call, Cancel, Push, Answer, Hangup, clocks
        <3>4. QED
            BY <2>3, <3>1, <3>2, <3>3 DEF Next
    <2>4. QED
        BY <2>2, <2>3
<1>2. QED
    BY <1>1, TypeInit, TypeStep, ConnInit, ConnStep, PTL DEF Spec
=============================================================================

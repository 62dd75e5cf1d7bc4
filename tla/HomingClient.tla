---------------------------- MODULE HomingClient ----------------------------
(***************************************************************************)
(* The loop of pkg/client: a service that embeds it reports home every     *)
(* SleepTime.  Each round stamps a report, asks up to three endpoints for  *)
(* the public address, posts the report, and then sleeps; a report that    *)
(* fails with a known address is followed by a fresh one after BackOff.    *)
(* The loop looks at its context only between rounds.                      *)
(*                                                                         *)
(* Time is what the waits have left: there is no clock.  The steps between *)
(* two waits take no time.                                                 *)
(***************************************************************************)
EXTENDS Naturals

CONSTANTS
  SleepTime,    \* callHomeSleepTime
  BackOff,      \* backOff
  StopWait,     \* stopWaitTime
  MaxExchange,  \* bound on one HTTP exchange (the network's: the client sets no timeout)
  Faults        \* which of AllFaults may happen

AllFaults == {"interfaces", "ip", "refuse", "break"}

ASSUME DurationAssumption ==
  /\ {SleepTime, BackOff, StopWait, MaxExchange} \subseteq Nat \ {0}
  /\ BackOff <= SleepTime
ASSUME FaultAssumption == Faults \subseteq AllFaults

VARIABLES
  pc,        \* "check", "collect", "locate", "post", "backoff", "sleep" or "stop"
  left,      \* time left of the wait or the exchange under way
  endpoint,  \* which of ipEndpoints is asked
  known,     \* the report has an address
  age,       \* time since the report was stamped (LastSeen)
  post,      \* the report at the server: "none", "sent", "stored" or "refused"
  done,      \* the context is done
  stopped,   \* the loop's own Stop has called cancel
  sinceAck,  \* time since the last 201, up to SleepTime
  sinceRow,  \* time since the last row whose answer was not lost, up to SleepTime
  sinceDone  \* time from the end of the context to stopped, up to Limit + 1

vars == <<pc, left, endpoint, known, age, post, done, stopped, sinceAck, sinceRow, sinceDone>>
report == <<endpoint, known, age, post>>
clocks == <<sinceAck, sinceRow, sinceDone>>

Endpoints == 3

Init ==
  /\ pc = "check" /\ left = 0
  /\ endpoint = 1 /\ known = FALSE /\ age = 0 /\ post = "none"
  /\ done = FALSE /\ stopped = FALSE
  /\ sinceAck = SleepTime /\ sinceRow = SleepTime /\ sinceDone = 0

Wait(state, time) == pc' = state /\ left' = time

----------------------------------------------------------------------------
(* One round *)

\* Mutations of Begin: the stamp of the last round; whatever the context says.
BeginWithOldStamp ==
  /\ pc = "check" /\ ~done
  /\ Wait("collect", 0)
  /\ known' = FALSE
  /\ UNCHANGED <<endpoint, age, post, done, stopped, clocks>>
BeginAnyway ==
  /\ pc = "check"
  /\ Wait("collect", 0)
  /\ known' = FALSE /\ age' = 0
  /\ UNCHANGED <<endpoint, post, done, stopped, clocks>>

\* The default branch of the select.
Begin ==
  /\ pc = "check" /\ ~done
  /\ Wait("collect", 0)
  /\ known' = FALSE /\ age' = 0
  /\ UNCHANGED <<endpoint, post, done, stopped, clocks>>

\* The host's interfaces cannot be listed: the loop starts again at once.
NoInterfaces ==
  /\ "interfaces" \in Faults
  /\ pc = "collect"
  /\ Wait("check", 0)
  /\ UNCHANGED <<report, done, stopped, clocks>>

Collect ==
  /\ pc = "collect"
  /\ Wait("locate", MaxExchange)
  /\ endpoint' = 1
  /\ UNCHANGED <<known, age, post, done, stopped, clocks>>

Send ==
  /\ Wait("post", MaxExchange)
  /\ post' = "sent"

\* Mutation of Located: the answer's newline is left in, and nothing parses.
LocatedUnparsed ==
  /\ pc = "locate"
  /\ Send
  /\ UNCHANGED <<endpoint, known, age, done, stopped, clocks>>

\* An endpoint answers with an address.
Located ==
  /\ pc = "locate"
  /\ known' = TRUE
  /\ Send
  /\ UNCHANGED <<endpoint, age, done, stopped, clocks>>

\* Mutation of NextEndpoint: one too many.
NextEndpointPastEnd ==
  /\ endpoint <= Endpoints
  /\ endpoint' = endpoint + 1
  /\ Wait("locate", MaxExchange)
  /\ UNCHANGED post

NextEndpoint ==
  /\ endpoint < Endpoints
  /\ endpoint' = endpoint + 1
  /\ Wait("locate", MaxExchange)
  /\ UNCHANGED post

\* An endpoint fails or answers with something else; after the last one the report
\* is sent without an address.
NotLocated ==
  /\ "ip" \in Faults
  /\ pc = "locate"
  /\ \/ NextEndpoint
     \/ endpoint = Endpoints /\ Send /\ UNCHANGED endpoint
  /\ UNCHANGED <<known, age, done, stopped, clocks>>

\* The server stores the report, as only one with an address can be ...
Accept ==
  /\ post = "sent"
  /\ known
  /\ post' = "stored"
  /\ sinceRow' = 0
  /\ UNCHANGED <<pc, left, endpoint, known, age, done, stopped, sinceAck, sinceDone>>

\* ... or refuses it.
Refuse ==
  /\ post = "sent"
  /\ ~known \/ "refuse" \in Faults
  /\ post' = "refused"
  /\ UNCHANGED <<pc, left, endpoint, known, age, done, stopped, clocks>>

\* Mutation of Acknowledged: the next round comes after BackOff.
AcknowledgedBackOff ==
  /\ pc = "post" /\ post = "stored"
  /\ post' = "none"
  /\ Wait("sleep", BackOff)
  /\ sinceAck' = 0
  /\ UNCHANGED <<endpoint, known, age, done, stopped, sinceRow, sinceDone>>

\* The answer is a 201.
Acknowledged ==
  /\ pc = "post" /\ post = "stored"
  /\ post' = "none"
  /\ Wait("sleep", SleepTime)
  /\ sinceAck' = 0
  /\ UNCHANGED <<endpoint, known, age, done, stopped, sinceRow, sinceDone>>

Failed ==
  /\ post' = "none"
  /\ \/ known /\ Wait("backoff", BackOff)
     \/ ~known /\ Wait("sleep", SleepTime)
  /\ UNCHANGED <<endpoint, known, age, done, stopped, sinceAck, sinceDone>>

\* Mutation of Rejected: only 200 is taken for success.
RejectedUnlessOK ==
  /\ pc = "post" /\ post \in {"refused", "stored"}
  /\ Failed
  /\ UNCHANGED sinceRow

\* The answer is anything but a 201.
Rejected ==
  /\ pc = "post" /\ post = "refused"
  /\ Failed
  /\ UNCHANGED sinceRow

\* The exchange fails: the report, or the answer to it, is lost, and with it all
\* knowledge of the row, which sinceRow forgets.
Broken ==
  /\ "break" \in Faults
  /\ pc = "post"
  /\ Failed
  /\ sinceRow' = SleepTime

----------------------------------------------------------------------------
(* Waiting and stopping *)

\* Mutation of Wake: the next report is collected without a look at the context.
WakeToCollect ==
  /\ pc \in {"backoff", "sleep"} /\ left = 0
  /\ Wait("collect", 0)
  /\ UNCHANGED <<report, done, stopped, clocks>>

Wake ==
  /\ pc \in {"backoff", "sleep"} /\ left = 0
  /\ Wait("check", 0)
  /\ UNCHANGED <<report, done, stopped, clocks>>

\* <-ctx.Done(): Stop waits on a channel nobody sends to, then calls cancel.
Notice ==
  /\ pc = "check" /\ done
  /\ Wait("stop", StopWait)
  /\ UNCHANGED <<report, done, stopped, clocks>>

\* The loop does not end with Stop: it sleeps and stops again.
StopReturns ==
  /\ pc = "stop" /\ left = 0
  /\ stopped' = TRUE
  /\ Wait("sleep", SleepTime)
  /\ UNCHANGED <<report, done, clocks>>

\* The host ends the context: by its own cancel, or by calling Stop itself, which
\* changes nothing else.
Cancel ==
  /\ ~done
  /\ done' = TRUE
  /\ UNCHANGED <<pc, left, report, stopped, clocks>>

\* The longest way from any point of the loop to the end of Stop.
Limit == (Endpoints + 1) * MaxExchange + SleepTime + StopWait

Later(since) == IF since < SleepTime THEN since + 1 ELSE since

Elapse ==
  /\ left > 0
  /\ left' = left - 1
  /\ age' = IF pc \in {"locate", "post"} THEN age + 1 ELSE age
  /\ sinceAck' = Later(sinceAck)
  /\ sinceRow' = Later(sinceRow)
  /\ sinceDone' = IF done /\ ~stopped /\ sinceDone <= Limit THEN sinceDone + 1 ELSE sinceDone
  /\ UNCHANGED <<pc, endpoint, known, post, done, stopped>>

Round ==
  \/ Begin \/ NoInterfaces \/ Collect \/ Located \/ NotLocated
  \/ Accept \/ Refuse \/ Acknowledged \/ Rejected \/ Broken

Step == Round \/ Wake \/ Notice \/ StopReturns

Next == Step \/ Cancel \/ Elapse

\* The loop's goroutine runs, exchanges end, and time passes.
Fairness == WF_vars(Step) /\ WF_vars(Elapse)

\* A network and a server that are not down for ever: nothing in the code gives this.
WorkingNetwork ==
  /\ SF_vars(Collect) /\ SF_vars(Located) /\ SF_vars(Accept) /\ SF_vars(Acknowledged)

Spec == Init /\ [][Next]_vars
FairSpec == Spec /\ Fairness

----------------------------------------------------------------------------
(* Properties *)

\* Every variable has its type.
TypeOK ==
  /\ pc \in {"check", "collect", "locate", "post", "backoff", "sleep", "stop"}
  /\ left \in Nat /\ age \in Nat /\ sinceDone \in Nat
  /\ sinceAck \in 0 .. SleepTime /\ sinceRow \in 0 .. SleepTime
  /\ endpoint \in 1 .. Endpoints
  /\ post \in {"none", "sent", "stored", "refused"}
  /\ known \in BOOLEAN /\ done \in BOOLEAN /\ stopped \in BOOLEAN

\* Two reports of one client that it knows to be stored are a full SleepTime apart,
\* however many rounds failed and were retried after BackOff in between (CallHome).
AcksSpaced == [][Acknowledged => sinceAck = SleepTime]_vars

\* So are two rows of one client, whether it knows of them or not, unless the first
\* one's answer was lost: what the client retries was not stored.  (A 201 that is
\* lost makes the retry a second row.)
RowsSpaced == [][Accept => sinceRow = SleepTime]_vars

\* A report's LastSeen is no older than the exchanges of its own round, retries
\* included: a retry is a new report (CallHome, client.go:58-62, 95-98).
FreshReports == pc = "post" => age <= (Endpoints + 1) * MaxExchange

\* Once the loop has run Stop, nothing is sent again, although the loop goes on for ever.
SilentAfterStop == stopped => pc \in {"check", "sleep", "stop"}

\* Stop has called cancel at the latest one round, one sleep and StopWait after the
\* context was done: it is not heard before the sleep is over (client.go:55, 101).
StopsInTime == done /\ ~stopped => sinceDone <= Limit

\* The end of the context is heard, whatever fails and however long: the network may
\* be down and the interfaces unlisted for ever (client.go:54-55, 69, 99).
StopHeard == done ~> stopped

\* The loop never gives up: with a network that works again and again it gets a
\* report acknowledged, unless it is stopped.
ReportsArrive == WorkingNetwork => (pc = "check" ~> done \/ sinceAck = 0)

----------------------------------------------------------------------------
(* The invariants behind them *)

\* What is left of a wait is at most the wait; a step that takes no time waits for none.
WaitInv ==
  /\ pc \in {"check", "collect"} => left = 0
  /\ pc \in {"locate", "post"} => left <= MaxExchange
  /\ pc = "backoff" => left <= BackOff
  /\ pc = "sleep" => left <= SleepTime
  /\ pc = "stop" => left <= StopWait
  /\ pc # "post" => post = "none"

\* A report's age is paid by the exchanges of its round so far.
AgeInv ==
  /\ pc = "collect" => age = 0
  /\ pc = "locate" => age + left <= endpoint * MaxExchange
  /\ pc = "post" => age + left <= (Endpoints + 1) * MaxExchange

\* While a client sleeps after a 201, the time since and the time left make up SleepTime.
SpacedInv == IF pc = "sleep" THEN sinceAck + left >= SleepTime ELSE sinceAck = SleepTime
RowSpacedInv ==
  /\ pc = "sleep" => sinceRow + left >= SleepTime
  /\ ~(pc = "sleep" \/ post = "stored") => sinceRow = SleepTime

\* The time to stopped is bounded by what the loop has still to go through.
StopInv ==
  /\ ~done => sinceDone = 0
  /\ done /\ ~stopped =>
       /\ pc = "check" => sinceDone + StopWait <= Limit
       /\ pc = "collect" => sinceDone = 0
       /\ pc = "locate" =>
            sinceDone + left + (Endpoints + 1 - endpoint) * MaxExchange
              + SleepTime + StopWait <= Limit
       /\ pc = "post" => sinceDone + left + SleepTime + StopWait <= Limit
       /\ pc \in {"backoff", "sleep"} => sinceDone + left + StopWait <= Limit
       /\ pc = "stop" => sinceDone + left <= Limit
  /\ stopped \/ pc = "stop" => done

LoopInv == WaitInv /\ AgeInv /\ SpacedInv /\ StopInv
=============================================================================

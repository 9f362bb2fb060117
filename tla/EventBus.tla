------------------------------- MODULE EventBus -------------------------------
(***************************************************************************)
(* The in-process event bus (events.py).  publish() copies the handlers of *)
(* its topic and runs them side by side under asyncio.gather; _deliver()   *)
(* gives each handler a deadline of its own and turns its failure into an  *)
(* entry of the report.  Meanwhile plugins subscribe, lose their           *)
(* subscriptions and have their own publish() cancelled, and a handler may *)
(* itself publish, so that publications nest.                              *)
(*                                                                         *)
(* What gather does is modelled from its contract: cancelling it cancels   *)
(* the handlers that still run, recursively where a handler waits for a    *)
(* publication; the first CancelledError that comes out of a handler ends  *)
(* it, while the others run on.                                            *)
(***************************************************************************)
EXTENDS Naturals, Sequences, FiniteSets

CONSTANTS
    Topics,
    Owners,         \* the plugins that subscribe
    Publications,   \* calls of publish()
    Outside,        \* the caller of a publication that is not a handler
    MaxHandlers,    \* bound: subscriptions of one topic at a time
    StrayCancel     \* may a handler raise CancelledError by itself?

ASSUME BusAssumption == /\ MaxHandlers \in Nat
                        /\ StrayCancel \in BOOLEAN
                        /\ Outside \notin Publications \X Nat

VARIABLES
    handlers,       \* [Topics -> Seq(Owners)], in order of subscription
    pc,             \* where each publication is
    roster,         \* the owners publish() copied
    delivery,       \* how far each of the copied handlers is
    caller,         \* the handler <<publication, position>> that publishes
    within,         \* all the handlers a publication runs within
    cancelled,      \* publications whose gather() was cancelled
    revoked,        \* publications whose caller outside the bus was cancelled
    report          \* the EventDeliveryReport returned

bus  == <<pc, roster, delivery, caller, within, cancelled, revoked, report>>
vars == <<handlers, bus>>

Failures == {"handler_error", "handler_timeout"}
Ended    == {"delivered", "cancelled"} \cup Failures
Live     == {"running", "expiring"}
Stages   == {"scheduled"} \cup Live \cup Ended

NoReport == [delivered |-> 0, failures |-> <<>>]

\* What a comprehension with a condition makes of s: the elements at these
\* positions, one after the other.  (The recursion is a function, and not that of
\* SelectSeq, because EventBusProofs reasons about it.)
Kept(s, positions) ==
    LET upTo[n \in 0..Len(s)] ==
            IF n = 0 THEN <<>>
            ELSE IF n \in positions THEN Append(upTo[n - 1], s[n]) ELSE upTo[n - 1]
    IN  upTo[Len(s)]
-----------------------------------------------------------------------------
\* The handlers of publication q, by position.
Positions(q) == DOMAIN roster[q]

Done(q) == \A i \in Positions(q) : delivery[q][i] \in Ended

\* The handler does not wait for a publication of its own.
Awake(q, i) == \A n \in Publications : pc[n] = "gathering" => caller[n] # <<q, i>>

\* The publications a cancellation of handler d reaches: those it waits for,
\* directly or through handlers it waits for.
Below(d) == {n \in Publications :
                /\ pc[n] = "gathering"
                /\ d \in within[n]
                /\ \A e \in within[n] : d \in within[e[1]] => pc[e[1]] = "gathering"}

\* What publish() makes of the outcomes of gather().
Outcomes(q) ==
    [i \in Positions(q) |-> [owner |-> roster[q][i], reason |-> delivery[q][i]]]

FailuresOf(q) == Kept(Outcomes(q), {i \in Positions(q) : delivery[q][i] \in Failures})

\* Mutant: what was delivered is counted from the present subscriptions.
ReportOfPresent(q) ==
    LET present == CHOOSE t \in Topics : TRUE
    IN [delivered |-> Len(handlers[present]) - Len(FailuresOf(q)), failures |-> FailuresOf(q)]

Report(q) ==
    [delivered |-> Len(roster[q]) - Len(FailuresOf(q)), failures |-> FailuresOf(q)]

Ends(q, i, outcome) ==
    /\ delivery' = [delivery EXCEPT ![q][i] = outcome]
    /\ UNCHANGED <<handlers, pc, roster, caller, within, cancelled, revoked, report>>
-----------------------------------------------------------------------------
(* Subscriptions.                                                          *)

Subscribe(t, o) ==
    /\ Len(handlers[t]) < MaxHandlers
    /\ handlers' = [handlers EXCEPT ![t] = Append(@, o)]
    /\ UNCHANGED bus

UnsubscribeOwner(o) ==
    /\ handlers' = [t \in Topics |->
                     Kept(handlers[t], {i \in DOMAIN handlers[t] : handlers[t][i] # o})]
    /\ UNCHANGED bus
-----------------------------------------------------------------------------
(* publish().                                                              *)

\* Nobody but a handler at work, or a plugin outside the bus, publishes.
MayPublish(c) ==
    c # Outside => delivery[c[1]][c[2]] = "running" /\ Awake(c[1], c[2])

\* An event without subscribers returns at once.
Publish(q, t, c) ==
    /\ pc[q] = "idle"
    /\ MayPublish(c)
    /\ roster' = [roster EXCEPT ![q] = handlers[t]]
    /\ delivery' = [delivery EXCEPT ![q] = [i \in DOMAIN handlers[t] |-> "scheduled"]]
    /\ pc' = [pc EXCEPT ![q] = IF handlers[t] = <<>> THEN "returned" ELSE "gathering"]
    /\ caller' = [caller EXCEPT ![q] = c]
    /\ within' = [within EXCEPT ![q] = IF c = Outside THEN {} ELSE {c} \cup within[c[1]]]
    /\ UNCHANGED <<handlers, cancelled, revoked, report>>

\* Mutant: a cancellation the handlers swallowed is forgotten.
ReturnRegardless(q) ==
    /\ pc[q] = "gathering"
    /\ Done(q)
    /\ \A i \in Positions(q) : delivery[q][i] # "cancelled"
    /\ pc' = [pc EXCEPT ![q] = "returned"]
    /\ report' = [report EXCEPT ![q] = Report(q)]
    /\ UNCHANGED <<handlers, roster, delivery, caller, within, cancelled, revoked>>

\* gather() has all outcomes, and publish() reports them.
Return(q) ==
    /\ pc[q] = "gathering"
    /\ q \notin cancelled
    /\ Done(q)
    /\ \A i \in Positions(q) : delivery[q][i] # "cancelled"
    /\ pc' = [pc EXCEPT ![q] = "returned"]
    /\ report' = [report EXCEPT ![q] = Report(q)]
    /\ UNCHANGED <<handlers, roster, delivery, caller, within, cancelled, revoked>>

\* gather() raises CancelledError: as soon as it comes out of one handler, or
\* when all have ended in spite of the cancellation.
Raise(q) ==
    /\ pc[q] = "gathering"
    /\ \/ \E i \in Positions(q) : delivery[q][i] = "cancelled"
       \/ q \in cancelled /\ Done(q)
    /\ pc' = [pc EXCEPT ![q] = "raised"]
    /\ UNCHANGED <<handlers, roster, delivery, caller, within, cancelled, revoked, report>>

\* The task outside the bus that publishes is cancelled, by the deadline of a
\* plugin operation or by the server.
CancelCaller(q) ==
    /\ pc[q] = "gathering"
    /\ caller[q] = Outside
    /\ q \notin revoked
    /\ revoked' = revoked \cup {q}
    /\ cancelled' = cancelled \cup {q} \cup UNION {Below(<<q, i>>) : i \in Positions(q)}
    /\ UNCHANGED <<handlers, pc, roster, delivery, caller, within, report>>
-----------------------------------------------------------------------------
(* _deliver().                                                             *)

\* The task of the handler runs for the first time.
Begin(q, i) ==
    /\ delivery[q][i] = "scheduled"
    /\ Ends(q, i, IF q \in cancelled THEN "cancelled" ELSE "running")

\* The handler returns, or raises: an error, or a TimeoutError of its own.  It
\* may do so in spite of a cancellation.
HandlerEnds(q, i, outcome) ==
    /\ delivery[q][i] \in Live
    /\ Awake(q, i)
    /\ outcome \in {"delivered"} \cup Failures
    /\ Ends(q, i, outcome)

\* Mutant: the handlers of a publication share one deadline.
SharedDeadline(q, i) ==
    /\ delivery[q][i] = "running"
    /\ q \notin cancelled
    /\ delivery' = [delivery EXCEPT ![q][i] = "expiring"]
    /\ cancelled' = cancelled \cup {q} \cup UNION {Below(<<q, j>>) : j \in Positions(q)}
    /\ UNCHANGED <<handlers, pc, roster, caller, within, revoked, report>>

\* Mutant: the deadlines end with publish().
DeadlineWhilePublishing(q, i) ==
    /\ delivery[q][i] = "running"
    /\ pc[q] = "gathering"
    /\ q \notin cancelled
    /\ delivery' = [delivery EXCEPT ![q][i] = "expiring"]
    /\ cancelled' = cancelled \cup Below(<<q, i>>)
    /\ UNCHANGED <<handlers, pc, roster, caller, within, revoked, report>>

\* Mutant: the deadline serves the first handler that meets it.
DeadlineOnce(q, i) ==
    /\ delivery[q][i] = "running"
    /\ \A j \in Positions(q) : delivery[q][j] \notin {"expiring", "handler_timeout"}
    /\ q \notin cancelled
    /\ delivery' = [delivery EXCEPT ![q][i] = "expiring"]
    /\ cancelled' = cancelled \cup Below(<<q, i>>)
    /\ UNCHANGED <<handlers, pc, roster, caller, within, revoked, report>>

\* The deadline of the handler passes: its task is cancelled, and with it the
\* publication it waits for.
Deadline(q, i) ==
    /\ delivery[q][i] = "running"
    /\ q \notin cancelled
    /\ delivery' = [delivery EXCEPT ![q][i] = "expiring"]
    /\ cancelled' = cancelled \cup Below(<<q, i>>)
    /\ UNCHANGED <<handlers, pc, roster, caller, within, revoked, report>>

\* A CancelledError comes out of the handler.  asyncio.timeout makes it a
\* TimeoutError if the deadline alone asked for it; else _deliver raises it.
CancelledComesOut(q, i) ==
    /\ delivery[q][i] \in Live
    /\ Awake(q, i)
    /\ q \in cancelled \/ delivery[q][i] = "expiring" \/ StrayCancel
    /\ Ends(q, i, IF delivery[q][i] = "expiring" /\ q \notin cancelled
                  THEN "handler_timeout" ELSE "cancelled")
-----------------------------------------------------------------------------
Init ==
    /\ handlers = [t \in Topics |-> <<>>]
    /\ pc = [q \in Publications |-> "idle"]
    /\ roster = [q \in Publications |-> <<>>]
    /\ delivery = [q \in Publications |-> <<>>]
    /\ caller = [q \in Publications |-> Outside]
    /\ within = [q \in Publications |-> {}]
    /\ cancelled = {}
    /\ revoked = {}
    /\ report = [q \in Publications |-> NoReport]

\* A handler that is being delivered to.
Deliveries == {<<q, i>> : q \in Publications, i \in 1..MaxHandlers}
InRoster(d) == d[2] \in Positions(d[1])

Callers == {Outside} \cup {d \in Deliveries : InRoster(d)}

\* What the event loop does by itself.
LoopStep(q) ==
    \/ Return(q)
    \/ Raise(q)
    \/ \E i \in Positions(q) : Begin(q, i) \/ Deadline(q, i)

\* A handler whose task was cancelled lets the CancelledError out.
Obeys(q, i) ==
    /\ q \in cancelled \/ delivery[q][i] = "expiring"
    /\ CancelledComesOut(q, i)

Next ==
    \/ \E t \in Topics, o \in Owners : Subscribe(t, o)
    \/ \E o \in Owners : UnsubscribeOwner(o)
    \/ \E q \in Publications :
          \/ \E t \in Topics, c \in Callers : Publish(q, t, c)
          \/ CancelCaller(q)
          \/ LoopStep(q)
          \/ \E i \in Positions(q) :
                \/ \E outcome \in Stages : HandlerEnds(q, i, outcome)
                \/ CancelledComesOut(q, i)

Spec == Init /\ [][Next]_vars

\* The loop runs what is ready and fires deadlines.  A handler may hang, but
\* not once it has been cancelled.
Fairness ==
    /\ \A q \in Publications : /\ WF_vars(Return(q))
                               /\ WF_vars(Raise(q))
    /\ \A q \in Publications, i \in 1..MaxHandlers :
          /\ WF_vars(i \in Positions(q) /\ Begin(q, i))
          /\ WF_vars(i \in Positions(q) /\ Deadline(q, i))
          /\ WF_vars(i \in Positions(q) /\ Obeys(q, i))

FairSpec == Spec /\ Fairness
-----------------------------------------------------------------------------
(* Invariants.                                                             *)

\* A report accounts for every handler publish() copied, whatever subscribed or
\* unsubscribed meanwhile: each was delivered to or failed, once, and the
\* failures stand in order of subscription.
ReportsAreComplete ==
    \A q \in Publications : pc[q] = "returned" =>
        /\ Done(q)
        /\ report[q].delivered = Cardinality({i \in Positions(q) : delivery[q][i] = "delivered"})
        /\ report[q].delivered + Len(report[q].failures) = Len(roster[q])
        /\ \E place \in [DOMAIN report[q].failures -> Positions(q)] :
              /\ \A k, l \in DOMAIN place : k < l => place[k] < place[l]
              /\ \A k \in DOMAIN place :
                    report[q].failures[k] = [owner  |-> roster[q][place[k]],
                                             reason |-> delivery[q][place[k]]]

\* Handlers are isolated from their publisher, whatever their errors, deadlines
\* and publications: publish() raises only when its own task was cancelled, or
\* that of a handler it runs within, or when a handler let out a CancelledError
\* that nobody had sent it.
PublisherSurvivesHandlers ==
    \A q \in Publications : pc[q] = "raised" =>
        \/ q \in revoked
        \/ q \notin cancelled /\ \E i \in Positions(q) : delivery[q][i] = "cancelled"
        \/ \E d \in within[q] : d[1] \in revoked \/ delivery[d[1]][d[2]] # "running"

\* A publisher that was cancelled hears of it, even if its handlers swallow the
\* CancelledError they are sent.
CancellationIsNotLost ==
    \A q \in revoked : pc[q] \in {"gathering", "raised"}
-----------------------------------------------------------------------------
(* Liveness, under FairSpec.                                               *)

\* Every publish() ends, though handlers hang and publish in turn.
EveryPublishEnds ==
    \A q \in Publications : pc[q] = "gathering" ~> pc[q] \in {"returned", "raised"}

\* Every handler ends, also those whose publication has already raised.
EveryHandlerEnds ==
    \A q \in Publications, i \in 1..MaxHandlers :
        i \in Positions(q) ~> i \in Positions(q) /\ delivery[q][i] \in Ended
=============================================================================

---------------------------- MODULE EventBusProofs ----------------------------
(***************************************************************************)
(* Cancellations and reports of the event bus, for any number of           *)
(* publications nested to any depth, any number of handlers, and any order *)
(* of deadlines, cancellations, outcomes and subscriptions.                *)
(***************************************************************************)
EXTENDS EventBus, FiniteSetTheorems, SequenceTheorems, WellFoundedInduction, TLAPS

\* Every variable stays in its range.
BusTypes ==
    /\ pc \in [Publications -> {"idle", "gathering", "returned", "raised"}]
    /\ DOMAIN roster = Publications /\ DOMAIN delivery = Publications
    /\ \A q \in Publications : delivery[q] \in [Positions(q) -> Stages]
    /\ DOMAIN caller = Publications /\ DOMAIN report = Publications
    /\ within \in [Publications -> SUBSET (Publications \X Nat)]
    /\ cancelled \subseteq Publications /\ revoked \subseteq cancelled

\* A publication that was never made has no handlers.
IdleIsEmpty == \A q \in Publications : pc[q] = "idle" => Positions(q) = {}

\* A handler that published had begun.
PublishersHaveBegun ==
    \A q \in Publications : \A d \in within[q] :
        d[2] \in Positions(d[1]) /\ delivery[d[1]][d[2]] # "scheduled"

\* What was cancelled has not returned.
CancelledHaveNotReturned == \A q \in cancelled : pc[q] \in {"gathering", "raised"}

\* A publication is cancelled for a reason outside its own handlers: its caller
\* was, or that of a handler it runs within, or such a handler has had its deadline
\* or has ended.
Explained(q) ==
    \/ q \in revoked
    \/ \E d \in within[q] : d[1] \in revoked \/ delivery[d[1]][d[2]] # "running"

CancellationsAreExplained == \A q \in cancelled : Explained(q)

\* Together these are inductive.
BusInvariant ==
    /\ BusTypes /\ IdleIsEmpty /\ PublishersHaveBegun
    /\ CancelledHaveNotReturned /\ CancellationsAreExplained
    /\ PublisherSurvivesHandlers
-----------------------------------------------------------------------------
(* The steps.                                                              *)

\* The invariant does not look at the subscriptions.
LEMMA SubscriptionsKeep ==
    ASSUME BusInvariant, UNCHANGED bus
    PROVE  BusInvariant'
  BY DEF BusInvariant, bus, BusTypes, IdleIsEmpty, PublishersHaveBegun, CancelledHaveNotReturned,
         CancellationsAreExplained, Explained, PublisherSurvivesHandlers, Positions

\* A handler that had not ended begins, or ends.
LEMMA HandlerStepKeeps ==
    ASSUME BusInvariant, NEW q \in Publications, NEW i \in Positions(q), NEW outcome \in {"running"} \cup Ended,
           delivery[q][i] \notin Ended,
           outcome = "running" => delivery[q][i] = "scheduled",
           Ends(q, i, outcome)
    PROVE  BusInvariant'
<1>1. /\ pc' = pc /\ roster' = roster /\ caller' = caller /\ within' = within
      /\ cancelled' = cancelled /\ revoked' = revoked /\ report' = report
  BY DEF Ends
<1>2. \A p \in Publications : Positions(p)' = Positions(p)
  BY <1>1 DEF Positions
<1>3. BusTypes
  BY DEF BusInvariant
<1>4. DOMAIN delivery' = Publications
  BY <1>3 DEF Ends, BusTypes
<1>5. \A p \in Publications : DOMAIN delivery'[p] = Positions(p)
  BY <1>3 DEF Ends, BusTypes
<1>6. \A p \in Publications : \A j \in Positions(p) :
        delivery'[p][j] = IF p = q /\ j = i THEN outcome ELSE delivery[p][j]
  BY <1>3 DEF Ends, BusTypes
<1>7. \A p \in Publications : delivery'[p] \in [Positions(p) -> Stages]
  <2> SUFFICES ASSUME NEW p \in Publications  PROVE delivery'[p] \in [Positions(p) -> Stages]
    OBVIOUS
  <2>1. outcome \in Stages
    BY DEF Stages, Live
  <2>2. CASE p = q
    <3>1. delivery'[p] = [delivery[p] EXCEPT ![i] = outcome]
      BY <1>3, <2>2 DEF Ends, BusTypes
    <3> QED
      BY <1>3, <2>1, <2>2, <3>1 DEF BusTypes
  <2>3. CASE p # q
    BY <1>3, <2>3 DEF Ends, BusTypes
  <2> QED
    BY <2>2, <2>3
<1>8. BusTypes'
  BY <1>1, <1>2, <1>3, <1>4, <1>7 DEF BusTypes
<1>9. IdleIsEmpty' /\ CancelledHaveNotReturned'
  BY <1>1, <1>2 DEF BusInvariant, IdleIsEmpty, CancelledHaveNotReturned
<1>10. \A p \in Publications : \A d \in within[p] :
         /\ d[1] \in Publications /\ d[2] \in Positions(d[1])
         /\ delivery[d[1]][d[2]] # "scheduled"
  BY <1>3 DEF BusInvariant, BusTypes, PublishersHaveBegun
<1>11. PublishersHaveBegun'
  BY <1>1, <1>2, <1>6, <1>10 DEF PublishersHaveBegun, Ended, Failures
<1>12. \A p \in Publications : \A d \in within[p] :
         delivery[d[1]][d[2]] # "running" => delivery'[d[1]][d[2]] # "running"
  BY <1>6, <1>10 DEF Ended, Failures
<1>13. \A p \in cancelled : Explained(p) => Explained(p)'
  BY <1>1, <1>3, <1>12 DEF Explained, BusTypes
<1>14. CancellationsAreExplained'
  BY <1>1, <1>13 DEF BusInvariant, CancellationsAreExplained
<1>15. PublisherSurvivesHandlers'
  <2> SUFFICES ASSUME NEW p \in Publications, pc[p] = "raised"
               PROVE  \/ p \in revoked
                      \/ p \notin cancelled /\ \E j \in Positions(p) : delivery'[p][j] = "cancelled"
                      \/ \E d \in within[p] : d[1] \in revoked \/ delivery'[d[1]][d[2]] # "running"
    BY <1>1, <1>2 DEF PublisherSurvivesHandlers
  <2>1. \A j \in Positions(p) : delivery[p][j] = "cancelled" => delivery'[p][j] = "cancelled"
    BY <1>6 DEF Ended
  <2> QED
    BY <1>12, <2>1 DEF BusInvariant, PublisherSurvivesHandlers
<1> QED
  BY <1>8, <1>9, <1>11, <1>14, <1>15 DEF BusInvariant

\* A publication begins, of a caller outside or of a handler at work.
LEMMA PublishKeeps ==
    ASSUME BusInvariant, NEW q \in Publications, NEW t \in Topics, NEW c \in Callers, Publish(q, t, c)
    PROVE  BusInvariant'
<1>1. BusTypes /\ pc[q] = "idle"
  BY DEF BusInvariant, Publish
<1>2. c # Outside =>
        /\ c \in Publications \X Nat /\ c[2] \in Positions(c[1])
        /\ delivery[c[1]][c[2]] = "running"
  BY DEF Callers, Deliveries, InRoster, Publish, MayPublish
<1>3. q \notin cancelled
  BY <1>1 DEF BusInvariant, CancelledHaveNotReturned
<1>4. \A p \in Publications : \A d \in within[p] :
        /\ d[1] \in Publications /\ d[2] \in Positions(d[1]) /\ d[1] # q
        /\ delivery[d[1]][d[2]] # "scheduled"
  BY <1>1 DEF BusInvariant, BusTypes, PublishersHaveBegun, IdleIsEmpty
<1>5. c # Outside => c[1] # q
  BY <1>1, <1>2 DEF BusInvariant, IdleIsEmpty
<1>6. \A p \in Publications \ {q} :
        pc'[p] = pc[p] /\ roster'[p] = roster[p] /\ delivery'[p] = delivery[p] /\ within'[p] = within[p]
  BY <1>1 DEF Publish, BusTypes
<1>7. /\ pc'[q] \in {"returned", "gathering"}
      /\ delivery'[q] = [i \in DOMAIN roster'[q] |-> "scheduled"]
      /\ within'[q] = IF c = Outside THEN {} ELSE {c} \cup within[c[1]]
  BY <1>1 DEF Publish, BusTypes
<1>8. cancelled' = cancelled /\ revoked' = revoked /\ report' = report
  BY DEF Publish
<1>9. BusTypes'
  <2>1. pc' \in [Publications -> {"idle", "gathering", "returned", "raised"}]
        /\ DOMAIN roster' = Publications /\ DOMAIN delivery' = Publications
        /\ DOMAIN caller' = Publications
    BY <1>1 DEF Publish, BusTypes
  <2>2. \A p \in Publications : delivery'[p] \in [Positions(p)' -> Stages]
    BY <1>1, <1>6, <1>7 DEF BusTypes, Positions, Stages
  <2>3. within'[q] \subseteq Publications \X Nat
    BY <1>1, <1>2, <1>7 DEF BusTypes
  <2>4. within' \in [Publications -> SUBSET (Publications \X Nat)]
    BY <1>1, <2>3 DEF Publish, BusTypes
  <2> QED
    BY <1>1, <1>8, <2>1, <2>2, <2>4 DEF BusTypes
<1>10. IdleIsEmpty'
  BY <1>6, <1>7 DEF BusInvariant, IdleIsEmpty, Positions
<1>11. PublishersHaveBegun'
  <2> SUFFICES ASSUME NEW p \in Publications, NEW d \in within'[p]
               PROVE  d[2] \in Positions(d[1])' /\ delivery'[d[1]][d[2]] # "scheduled"
    BY DEF PublishersHaveBegun
  <2>1. /\ d[1] \in Publications /\ d[2] \in Positions(d[1]) /\ d[1] # q
        /\ delivery[d[1]][d[2]] # "scheduled"
    BY <1>2, <1>4, <1>5, <1>6, <1>7
  <2> QED
    BY <1>6, <2>1 DEF Positions
<1>12. CancelledHaveNotReturned'
  BY <1>1, <1>3, <1>6, <1>8 DEF BusInvariant, BusTypes, CancelledHaveNotReturned
<1>13. \A p \in Publications \ {q} : Explained(p) => Explained(p)'
  BY <1>4, <1>6, <1>8 DEF Explained
<1>14. CancellationsAreExplained'
  BY <1>1, <1>3, <1>8, <1>13 DEF BusInvariant, BusTypes, CancellationsAreExplained
<1>15. PublisherSurvivesHandlers'
  <2> SUFFICES ASSUME NEW p \in Publications, pc'[p] = "raised"
               PROVE  \/ p \in revoked
                      \/ p \notin cancelled /\ \E j \in Positions(p)' : delivery'[p][j] = "cancelled"
                      \/ \E d \in within'[p] : d[1] \in revoked \/ delivery'[d[1]][d[2]] # "running"
    BY <1>8 DEF PublisherSurvivesHandlers
  <2>1. p # q /\ pc[p] = "raised"
    BY <1>6, <1>7
  <2>2. Positions(p)' = Positions(p)
    BY <1>6, <2>1 DEF Positions
  <2> QED
    BY <1>4, <1>6, <2>1, <2>2 DEF BusInvariant, PublisherSurvivesHandlers
<1> QED
  BY <1>9, <1>10, <1>11, <1>12, <1>14, <1>15 DEF BusInvariant

\* publish() returns, or raises.
LEMMA EndKeeps ==
    ASSUME BusInvariant, NEW q \in Publications, Return(q) \/ Raise(q)
    PROVE  BusInvariant'
<1>1. BusTypes /\ pc[q] = "gathering"
  BY DEF BusInvariant, Return, Raise
<1>2. /\ roster' = roster /\ delivery' = delivery /\ caller' = caller
      /\ within' = within /\ cancelled' = cancelled /\ revoked' = revoked
  BY DEF Return, Raise
<1>3. \A p \in Publications \ {q} : pc'[p] = pc[p]
  BY <1>1 DEF Return, Raise, BusTypes
<1>4. (pc'[q] = "returned" /\ q \notin cancelled) \/ pc'[q] = "raised"
  BY <1>1 DEF Return, Raise, BusTypes
<1>5. \A p \in Publications : Positions(p)' = Positions(p) /\ (Explained(p)' <=> Explained(p))
  BY <1>2 DEF Positions, Explained
<1>6. BusTypes'
  <2>1. pc' \in [Publications -> {"idle", "gathering", "returned", "raised"}]
    BY <1>1 DEF BusTypes, Return, Raise
  <2>2. DOMAIN report' = Publications
    BY <1>1 DEF BusTypes, Return, Raise
  <2> QED
    BY <1>1, <1>2, <1>5, <2>1, <2>2 DEF BusTypes
<1>7. IdleIsEmpty' /\ PublishersHaveBegun'
  BY <1>1, <1>2, <1>3, <1>4, <1>5
  DEF BusInvariant, BusTypes, IdleIsEmpty, PublishersHaveBegun, Positions
<1>8. CancelledHaveNotReturned'
  BY <1>1, <1>2, <1>3, <1>4 DEF BusInvariant, BusTypes, CancelledHaveNotReturned
<1>9. CancellationsAreExplained'
  BY <1>1, <1>2, <1>5 DEF BusInvariant, BusTypes, CancellationsAreExplained
<1>10. PublisherSurvivesHandlers'
  <2> SUFFICES ASSUME NEW p \in Publications, pc'[p] = "raised"
               PROVE  \/ p \in revoked
                      \/ p \notin cancelled /\ \E j \in Positions(p) : delivery[p][j] = "cancelled"
                      \/ \E d \in within[p] : d[1] \in revoked \/ delivery[d[1]][d[2]] # "running"
    BY <1>2, <1>5 DEF PublisherSurvivesHandlers
  <2>1. CASE p # q
    BY <1>3, <2>1 DEF BusInvariant, PublisherSurvivesHandlers
  <2>2. CASE p = q /\ q \in cancelled
    BY <2>2 DEF BusInvariant, CancellationsAreExplained, Explained
  <2>3. CASE p = q /\ q \notin cancelled
    <3>1. Raise(q)
      BY <1>1, <2>3 DEF Return, BusTypes
    <3> QED
      BY <2>3, <3>1 DEF Raise
  <2> QED
    BY <2>1, <2>2, <2>3
<1> QED
  BY <1>6, <1>7, <1>8, <1>9, <1>10 DEF BusInvariant

\* What a cancellation adds: publications under way, each of them within a handler
\* whose publication is revoked, or which does not run any more.
LEMMA CancellationKeeps ==
    ASSUME BusInvariant, NEW new \in SUBSET Publications,
           cancelled' = cancelled \cup new, revoked \subseteq revoked',
           revoked' \subseteq cancelled',
           \A n \in new : pc[n] = "gathering" /\ Explained(n)',
           pc' = pc, roster' = roster, within' = within, caller' = caller, report' = report,
           DOMAIN delivery' = Publications,
           \A p \in Publications : delivery'[p] \in [Positions(p) -> Stages],
           \A p \in Publications : \A j \in Positions(p) :
               \/ delivery'[p][j] = delivery[p][j]
               \/ delivery[p][j] = "running" /\ delivery'[p][j] = "expiring"
    PROVE  BusInvariant'
<1>1. BusTypes
  BY DEF BusInvariant
<1>2. \A p \in Publications : Positions(p)' = Positions(p)
  BY DEF Positions
<1>3. BusTypes'
  BY <1>1, <1>2 DEF BusTypes
<1>4. IdleIsEmpty' /\ CancelledHaveNotReturned'
  BY <1>2 DEF BusInvariant, IdleIsEmpty, CancelledHaveNotReturned
<1>5. \A p \in Publications : \A d \in within[p] :
         /\ d[1] \in Publications /\ d[2] \in Positions(d[1])
         /\ delivery[d[1]][d[2]] # "scheduled"
  BY <1>1 DEF BusInvariant, BusTypes, PublishersHaveBegun
<1>6. PublishersHaveBegun'
  BY <1>2, <1>5 DEF PublishersHaveBegun
<1>7. \A p \in Publications : Explained(p) => Explained(p)'
  BY <1>5 DEF Explained
<1>8. CancellationsAreExplained'
  BY <1>1, <1>7 DEF BusInvariant, BusTypes, CancellationsAreExplained
<1>9. PublisherSurvivesHandlers'
  <2> SUFFICES ASSUME NEW p \in Publications, pc[p] = "raised"
               PROVE  \/ p \in revoked'
                      \/ p \notin cancelled' /\ \E j \in Positions(p) : delivery'[p][j] = "cancelled"
                      \/ \E d \in within[p] : d[1] \in revoked' \/ delivery'[d[1]][d[2]] # "running"
    BY <1>2 DEF PublisherSurvivesHandlers
  <2>1. p \notin new
    OBVIOUS
  <2>2. \A j \in Positions(p) : delivery[p][j] = "cancelled" => delivery'[p][j] = "cancelled"
    OBVIOUS
  <2> QED
    BY <1>5, <2>1, <2>2 DEF BusInvariant, PublisherSurvivesHandlers
<1> QED
  BY <1>3, <1>4, <1>6, <1>8, <1>9 DEF BusInvariant

LEMMA CancelCallerKeeps ==
    ASSUME BusInvariant, NEW q \in Publications, CancelCaller(q)
    PROVE  BusInvariant'
<1> DEFINE new == {q} \cup UNION {Below(<<q, i>>) : i \in Positions(q)}
<1>1. BusTypes
  BY DEF BusInvariant
<1>2. /\ pc' = pc /\ roster' = roster /\ delivery' = delivery /\ caller' = caller
      /\ within' = within /\ report' = report
      /\ revoked' = revoked \cup {q} /\ cancelled' = cancelled \cup new
  BY DEF CancelCaller
<1>3. ASSUME NEW n \in new  PROVE n \in Publications /\ pc[n] = "gathering" /\ Explained(n)'
  <2>1. CASE n = q
    BY <1>2, <2>1 DEF CancelCaller, Explained
  <2>2. CASE n # q
    <3>1. PICK i \in Positions(q) : n \in Below(<<q, i>>)
      BY <2>2
    <3>2. n \in Publications /\ pc[n] = "gathering" /\ <<q, i>> \in within[n]
      BY <3>1 DEF Below
    <3> QED
      BY <1>2, <3>2 DEF Explained
  <2> QED
    BY <2>1, <2>2
<1> HIDE DEF new
<1>4. new \in SUBSET Publications /\ q \in new
  BY <1>3 DEF new
<1>5. revoked' \subseteq cancelled' /\ revoked \subseteq revoked'
  BY <1>1, <1>2, <1>4 DEF BusTypes
<1>6. DOMAIN delivery' = Publications /\ \A p \in Publications : delivery'[p] \in [Positions(p) -> Stages]
  BY <1>1, <1>2 DEF BusTypes
<1> QED
  BY <1>2, <1>3, <1>4, <1>5, <1>6, CancellationKeeps

LEMMA DeadlineKeeps ==
    ASSUME BusInvariant, NEW q \in Publications, NEW i \in Positions(q), Deadline(q, i)
    PROVE  BusInvariant'
<1> DEFINE new == Below(<<q, i>>)
<1>1. BusTypes
  BY DEF BusInvariant
<1>2. /\ pc' = pc /\ roster' = roster /\ caller' = caller /\ within' = within
      /\ report' = report /\ revoked' = revoked /\ cancelled' = cancelled \cup new
      /\ delivery[q][i] = "running"
  BY DEF Deadline
<1>3. /\ DOMAIN delivery' = Publications
      /\ delivery'[q] = [delivery[q] EXCEPT ![i] = "expiring"]
      /\ \A p \in Publications \ {q} : delivery'[p] = delivery[p]
  BY <1>1 DEF Deadline, BusTypes
<1>4. delivery'[q][i] = "expiring" /\ \A j \in Positions(q) \ {i} : delivery'[q][j] = delivery[q][j]
  BY <1>1, <1>3 DEF BusTypes
<1>5. \A p \in Publications : delivery'[p] \in [Positions(p) -> Stages]
  BY <1>1, <1>3 DEF BusTypes, Stages, Live
<1>6. ASSUME NEW n \in new  PROVE n \in Publications /\ pc[n] = "gathering" /\ Explained(n)'
  <2>1. n \in Publications /\ pc[n] = "gathering" /\ <<q, i>> \in within[n]
    BY DEF Below
  <2> QED
    BY <1>2, <1>4, <2>1 DEF Explained
<1> HIDE DEF new
<1>7. new \in SUBSET Publications /\ revoked' \subseteq cancelled' /\ revoked \subseteq revoked'
  BY <1>1, <1>2, <1>6 DEF BusTypes
<1>8. \A p \in Publications : \A j \in Positions(p) :
               \/ delivery'[p][j] = delivery[p][j]
               \/ delivery[p][j] = "running" /\ delivery'[p][j] = "expiring"
  BY <1>2, <1>3, <1>4
<1> QED
  BY <1>2, <1>3, <1>5, <1>6, <1>7, <1>8, CancellationKeeps
-----------------------------------------------------------------------------
\* The bus invariant holds throughout.
THEOREM BusInvariantHolds == Spec => []BusInvariant
<1>1. Init => BusInvariant
  BY DEF Init, BusInvariant, BusTypes, IdleIsEmpty, PublishersHaveBegun, CancelledHaveNotReturned,
         CancellationsAreExplained, PublisherSurvivesHandlers, Positions
<1>2. BusInvariant /\ [Next]_vars => BusInvariant'
  <2> SUFFICES ASSUME BusInvariant, [Next]_vars  PROVE BusInvariant'
    OBVIOUS
  <2>1. CASE \E t \in Topics, o \in Owners : Subscribe(t, o)
    BY <2>1, SubscriptionsKeep DEF Subscribe
  <2>2. CASE \E o \in Owners : UnsubscribeOwner(o)
    BY <2>2, SubscriptionsKeep DEF UnsubscribeOwner
  <2>3. CASE \E q \in Publications : \E t \in Topics, c \in Callers : Publish(q, t, c)
    BY <2>3, PublishKeeps
  <2>4. CASE \E q \in Publications : CancelCaller(q)
    BY <2>4, CancelCallerKeeps
  <2>5. CASE \E q \in Publications : Return(q) \/ Raise(q)
    BY <2>5, EndKeeps
  <2>6. ASSUME NEW q \in Publications, NEW i \in Positions(q), Begin(q, i)  PROVE BusInvariant'
    <3> DEFINE outcome == IF q \in cancelled THEN "cancelled" ELSE "running"
    <3>1. outcome \in {"running"} \cup Ended
      BY DEF Ended
    <3>2. delivery[q][i] = "scheduled" /\ delivery[q][i] \notin Ended /\ Ends(q, i, outcome)
      BY <2>6 DEF Begin, Ended, Failures
    <3> QED
      BY <3>1, <3>2, HandlerStepKeeps
  <2>7. CASE \E q \in Publications : \E i \in Positions(q) : Deadline(q, i)
    BY <2>7, DeadlineKeeps
  <2>8. ASSUME NEW q \in Publications, NEW i \in Positions(q), NEW outcome \in Stages,
               HandlerEnds(q, i, outcome)
        PROVE  BusInvariant'
    <3>1. outcome \in Ended /\ outcome # "running" /\ delivery[q][i] \notin Ended /\ Ends(q, i, outcome)
      BY <2>8 DEF HandlerEnds, Ended, Failures, Live
    <3> QED
      BY <3>1, HandlerStepKeeps
  <2>9. ASSUME NEW q \in Publications, NEW i \in Positions(q), CancelledComesOut(q, i)  PROVE BusInvariant'
    <3> DEFINE outcome == IF delivery[q][i] = "expiring" /\ q \notin cancelled
                          THEN "handler_timeout" ELSE "cancelled"
    <3>1. outcome \in Ended /\ outcome # "running"
      BY DEF Ended, Failures
    <3>2. delivery[q][i] \notin Ended /\ Ends(q, i, outcome)
      BY <2>9 DEF CancelledComesOut, Ended, Failures, Live
    <3> QED
      BY <3>1, <3>2, HandlerStepKeeps
  <2>10. CASE UNCHANGED vars
    BY <2>10, SubscriptionsKeep DEF vars
  <2> QED
    BY <2>1, <2>2, <2>3, <2>4, <2>5, <2>6, <2>7, <2>8, <2>9, <2>10 DEF Next, LoopStep
<1> QED
  BY <1>1, <1>2, PTL DEF Spec

\* publish() raises only for its own cancellation, for that of a handler around it,
\* or for a CancelledError nobody sent: no error, deadline or nested publication of
\* its handlers reaches the publisher.
THEOREM PublishersSurvive == Spec => []PublisherSurvivesHandlers
<1>1. BusInvariant => PublisherSurvivesHandlers
  BY DEF BusInvariant
<1> QED
  BY <1>1, BusInvariantHolds, PTL

\* A publisher whose own task was cancelled is not told that publish() succeeded,
\* whatever the handlers make of the cancellation they are sent.
THEOREM CancellationsAreHeard == Spec => []CancellationIsNotLost
<1>1. BusInvariant => CancellationIsNotLost
  BY DEF BusInvariant, BusTypes, CancelledHaveNotReturned, CancellationIsNotLost
<1> QED
  BY <1>1, BusInvariantHolds, PTL
-----------------------------------------------------------------------------
(* What a report rests on.                                                 *)

\* publish() waits for its handlers.
ReturnedAreDone == \A q \in Publications : pc[q] = "returned" => Done(q)

\* A publication that returned is over: its handlers, their outcomes and its
\* report stay as they are.
Over(q) == pc'[q] = pc[q] /\ roster'[q] = roster[q] /\ delivery'[q] = delivery[q] /\ report'[q] = report[q]

LEMMA ReturnedStayOver ==
    ASSUME BusInvariant, ReturnedAreDone, Next, NEW p \in Publications, pc[p] = "returned"
    PROVE  Over(p)
<1>1. BusTypes /\ Done(p)
  BY DEF BusInvariant, ReturnedAreDone
<1>2. ASSUME NEW q \in Publications, NEW i \in Positions(q), NEW outcome,
             delivery[q][i] \notin Ended, Ends(q, i, outcome)
      PROVE  Over(p)
  <2>1. p # q
    BY <1>1, <1>2 DEF Done
  <2> QED
    BY <1>1, <1>2, <2>1 DEF Ends, Over, BusTypes
<1>3. CASE UNCHANGED bus
  BY <1>3 DEF bus, Over
<1>4. ASSUME NEW q \in Publications, NEW t \in Topics, NEW c \in Callers, Publish(q, t, c)  PROVE Over(p)
  BY <1>1, <1>4 DEF Publish, Over, BusTypes
<1>5. ASSUME NEW q \in Publications, CancelCaller(q)  PROVE Over(p)
  BY <1>5 DEF CancelCaller, Over
<1>6. ASSUME NEW q \in Publications, Return(q) \/ Raise(q)  PROVE Over(p)
  BY <1>1, <1>6 DEF Return, Raise, Over, BusTypes
<1>7. ASSUME NEW q \in Publications, NEW i \in Positions(q), Deadline(q, i)  PROVE Over(p)
  <2>1. p # q
    BY <1>1, <1>7 DEF Done, Deadline, Ended, Failures
  <2> QED
    BY <1>1, <1>7, <2>1 DEF Deadline, Over, BusTypes
<1>8. ASSUME NEW q \in Publications, NEW i \in Positions(q), NEW outcome \in Stages,
             Begin(q, i) \/ HandlerEnds(q, i, outcome) \/ CancelledComesOut(q, i)
      PROVE  Over(p)
  <2>1. delivery[q][i] \notin Ended
    BY <1>8 DEF Begin, HandlerEnds, CancelledComesOut, Ended, Failures, Live
  <2>2. \E o \in Stages : Ends(q, i, o)
    BY <1>8 DEF Begin, HandlerEnds, CancelledComesOut, Stages, Live, Ended, Failures
  <2> QED
    BY <1>2, <2>1, <2>2
<1>9. \/ UNCHANGED bus
      \/ \E q \in Publications :
            \/ \E t \in Topics, c \in Callers : Publish(q, t, c)
            \/ CancelCaller(q) \/ Return(q) \/ Raise(q)
            \/ \E i \in Positions(q) :
                  \/ Deadline(q, i)
                  \/ \E outcome \in Stages : Begin(q, i) \/ HandlerEnds(q, i, outcome) \/ CancelledComesOut(q, i)
  <2>1. "running" \in Stages
    BY DEF Stages, Live
  <2> QED
    BY <2>1 DEF Next, LoopStep, Subscribe, UnsubscribeOwner
<1> QED
  BY <1>3, <1>4, <1>5, <1>6, <1>7, <1>8, <1>9

LEMMA ReturnedAreDoneStep ==
    ASSUME BusInvariant, ReturnedAreDone, [Next]_vars
    PROVE  ReturnedAreDone'
<1>1. CASE UNCHANGED vars
  BY <1>1 DEF vars, bus, ReturnedAreDone, Done, Positions
<1>2. CASE Next
  <2> SUFFICES ASSUME NEW p \in Publications, pc'[p] = "returned"  PROVE Done(p)'
    BY DEF ReturnedAreDone
  <2>1. CASE pc[p] = "returned"
    BY <1>2, <2>1, ReturnedStayOver DEF ReturnedAreDone, Over, Done, Positions
  <2>2. CASE pc[p] # "returned"
    <3>1. BusTypes
      BY DEF BusInvariant
    <3>2. \/ \E q \in Publications, t \in Topics, c \in Callers : Publish(q, t, c)
          \/ \E q \in Publications : Return(q) \/ Raise(q)
      BY <1>2, <2>2 DEF Next, LoopStep, Subscribe, UnsubscribeOwner, bus, CancelCaller, Begin, HandlerEnds,
                        Deadline, CancelledComesOut, Ends
    <3>3. ASSUME NEW q \in Publications, NEW t \in Topics, NEW c \in Callers, Publish(q, t, c)
          PROVE  Done(p)'
      BY <2>2, <3>1, <3>3 DEF Publish, BusTypes, Done, Positions
    <3>4. ASSUME NEW q \in Publications, Return(q) \/ Raise(q)  PROVE Done(p)'
      BY <2>2, <3>1, <3>4 DEF Return, Raise, BusTypes, Done, Positions
    <3> QED
      BY <3>2, <3>3, <3>4
  <2> QED
    BY <2>1, <2>2
<1> QED
  BY <1>1, <1>2

\* A report is final: once publish() has returned no handler it ran is left to
\* end, and nothing that happens later changes an outcome it reported.
THEOREM ReportsAreFinal ==
    Spec => [][\A q \in Publications : pc[q] = "returned" => Over(q)]_vars
<1>1. Init => ReturnedAreDone
  BY DEF Init, ReturnedAreDone
<1>2. BusInvariant /\ ReturnedAreDone /\ [Next]_vars => ReturnedAreDone'
  BY ReturnedAreDoneStep
<1>3. BusInvariant /\ ReturnedAreDone /\ [Next]_vars
        => [\A q \in Publications : pc[q] = "returned" => Over(q)]_vars
  BY ReturnedStayOver
<1> QED
  BY <1>1, <1>2, <1>3, BusInvariantHolds, PTL DEF Spec
-----------------------------------------------------------------------------
(* What a comprehension with a condition computes.                         *)

\* Induction over the naturals, for a set of them.
LEMMA Induction ==
    ASSUME NEW T \in SUBSET Nat, 0 \in T, \A n \in T : n + 1 \in T
    PROVE  T = Nat
<1> SUFFICES ASSUME Nat \ T # {} PROVE FALSE
  OBVIOUS
<1> DEFINE R == OpToRel(<, Nat)
<1>1. PICK n \in Nat \ T : \A m \in Nat \ T : <<m, n>> \notin R
  <2> HIDE DEF R
  <2>1. IsWellFoundedOn(R, Nat)
    BY NatLessThanWellFounded DEF R
  <2> QED  BY <2>1, WFMin
<1>2. n - 1 \in Nat /\ (n - 1) + 1 = n
  <2>1. n # 0
    OBVIOUS
  <2> QED  BY <2>1
<1>3. n - 1 \notin T
  <2>1. n - 1 \in T => (n - 1) + 1 \in T
    OBVIOUS
  <2> QED  BY <1>2, <2>1
<1>4. <<n - 1, n>> \in R
  BY <1>2 DEF OpToRel
<1> HIDE DEF R
<1> QED  BY <1>1, <1>2, <1>3, <1>4

\* The prefixes a comprehension goes through, up to the position m.
Prefixes(f, s, positions, m) ==
    f = [n \in 0..m |-> IF n = 0 THEN <<>>
                        ELSE IF n \in positions THEN Append(f[n - 1], s[n]) ELSE f[n - 1]]

LEMMA PrefixAt ==
    ASSUME NEW f, NEW s, NEW positions, NEW m \in Nat, Prefixes(f, s, positions, m)
    PROVE  /\ f[0] = <<>>
           /\ \A n \in 1..m :
                 f[n] = IF n \in positions THEN Append(f[n - 1], s[n]) ELSE f[n - 1]
<1> DEFINE value(n) == IF n = 0 THEN <<>>
                       ELSE IF n \in positions THEN Append(f[n - 1], s[n]) ELSE f[n - 1]
<1>1. f = [n \in 0..m |-> value(n)]
  BY DEF Prefixes
<1>2. \A n \in 1..m : value(n) = IF n \in positions THEN Append(f[n - 1], s[n]) ELSE f[n - 1]
  OBVIOUS
<1>3. value(0) = <<>>
  OBVIOUS
<1> HIDE DEF value
<1>4. \A n \in 0..m : f[n] = value(n)
  BY <1>1
<1>5. 0 \in 0..m /\ \A n \in 1..m : n \in 0..m
  OBVIOUS
<1>6. f[0] = <<>>
  BY <1>3, <1>4, <1>5
<1>7. ASSUME NEW n \in 1..m
      PROVE  f[n] = IF n \in positions THEN Append(f[n - 1], s[n]) ELSE f[n - 1]
  <2>1. f[n] = value(n)
    BY <1>4, <1>5
  <2> QED  BY <1>2, <2>1, Zenon
<1> QED  BY <1>6, <1>7, Zenon

LEMMA PrefixesExist ==
    ASSUME NEW s, NEW positions, NEW m \in Nat
    PROVE  \E f : Prefixes(f, s, positions, m)
<1> DEFINE T == {n \in Nat : \E f : Prefixes(f, s, positions, n)}
<1>1. 0 \in T
  <2> DEFINE f == [n \in 0..0 |-> <<>>]
  <2>1. Prefixes(f, s, positions, 0)
    BY DEF Prefixes
  <2> QED  BY <2>1
<1>2. ASSUME NEW n \in T PROVE n + 1 \in T
  <2>1. PICK f : Prefixes(f, s, positions, n)
    OBVIOUS
  <2> DEFINE g == [k \in 0..(n + 1) |->
                      IF k <= n THEN f[k]
                      ELSE IF n + 1 \in positions THEN Append(f[n], s[n + 1]) ELSE f[n]]
             h == [k \in 0..(n + 1) |->
                      IF k = 0 THEN <<>>
                      ELSE IF k \in positions THEN Append(g[k - 1], s[k]) ELSE g[k - 1]]
  <2>2. ASSUME NEW k \in 0..(n + 1) PROVE g[k] = h[k]
    <3>1. CASE k = 0
      <4>1. f[0] = <<>>
        BY <2>1, PrefixAt
      <4> QED  BY <3>1, <4>1
    <3>2. CASE k \in 1..n
      <4>1. f[k] = IF k \in positions THEN Append(f[k - 1], s[k]) ELSE f[k - 1]
        BY <2>1, <3>2, PrefixAt
      <4>2. g[k] = f[k] /\ g[k - 1] = f[k - 1]
        BY <3>2
      <4>3. h[k] = IF k \in positions THEN Append(g[k - 1], s[k]) ELSE g[k - 1]
        BY <3>2
      <4> HIDE DEF g, h
      <4> QED  BY <4>1, <4>2, <4>3
    <3>3. CASE k = n + 1
      <4>1. g[k] = IF k \in positions THEN Append(f[n], s[k]) ELSE f[n]
        BY <3>3
      <4>2. g[k - 1] = f[n]
        BY <3>3
      <4>3. h[k] = IF k \in positions THEN Append(g[k - 1], s[k]) ELSE g[k - 1]
        BY <3>3
      <4> HIDE DEF g, h
      <4> QED  BY <4>1, <4>2, <4>3
    <3> QED  BY <3>1, <3>2, <3>3
  <2>3. g = h
    BY <2>2
  <2>4. Prefixes(g, s, positions, n + 1)
    BY <2>3 DEF Prefixes
  <2> HIDE DEF g
  <2> QED  BY <2>4
<1> HIDE DEF T
<1>3. T = Nat
  BY <1>1, <1>2, Induction DEF T
<1> QED  BY <1>3 DEF T

\* r lists the elements of s at the positions up to n, each once and in order.
Lists(r, s, positions, n) ==
    \E place \in [1..Len(r) -> positions \cap (1..n)] :
        /\ \A k, l \in 1..Len(r) : k < l => place[k] < place[l]
        /\ \A i \in positions \cap (1..n) : \E k \in 1..Len(r) : place[k] = i
        /\ \A k \in 1..Len(r) : r[k] = s[place[k]]

LEMMA PrefixesList ==
    ASSUME NEW S, NEW s \in Seq(S), NEW positions, NEW f, Prefixes(f, s, positions, Len(s))
    PROVE  \A n \in 0..Len(s) : f[n] \in Seq(S) /\ Lists(f[n], s, positions, n)
<1> DEFINE T == {n \in Nat : n <= Len(s) => f[n] \in Seq(S) /\ Lists(f[n], s, positions, n)}
<1>0. Len(s) \in Nat
  OBVIOUS
<1>1. 0 \in T
  <2>1. f[0] = <<>>
    BY <1>0, PrefixAt
  <2>2. Lists(<<>>, s, positions, 0)
    <3> DEFINE place == [k \in 1..0 |-> k]
    <3>1. place \in [1..0 -> positions \cap (1..0)]
      OBVIOUS
    <3>2. Len(<<>>) = 0 /\ \A k \in 1..0 : FALSE
      OBVIOUS
    <3> HIDE DEF place
    <3> QED  BY <3>1, <3>2 DEF Lists
  <2>3. f[0] \in Seq(S) /\ Lists(f[0], s, positions, 0)
    BY <2>1, <2>2
  <2> QED  BY <2>3
<1>2. ASSUME NEW n \in T PROVE n + 1 \in T
  <2> SUFFICES ASSUME n + 1 <= Len(s)
               PROVE  f[n + 1] \in Seq(S) /\ Lists(f[n + 1], s, positions, n + 1)
    OBVIOUS
  <2>1. n \in Nat /\ f[n] \in Seq(S) /\ Lists(f[n], s, positions, n)
    BY <1>0
  <2>2. f[n + 1] = IF n + 1 \in positions THEN Append(f[n], s[n + 1]) ELSE f[n]
    <3>1. n + 1 \in 1..Len(s) /\ (n + 1) - 1 = n
      BY <1>0, <2>1
    <3> QED  BY <1>0, <3>1, PrefixAt
  <2> HIDE DEF T
  <2>3. PICK place \in [1..Len(f[n]) -> positions \cap (1..n)] :
            /\ \A k, l \in 1..Len(f[n]) : k < l => place[k] < place[l]
            /\ \A i \in positions \cap (1..n) : \E k \in 1..Len(f[n]) : place[k] = i
            /\ \A k \in 1..Len(f[n]) : f[n][k] = s[place[k]]
    BY <2>1 DEF Lists
  <2>4. CASE n + 1 \notin positions
    <3>1. positions \cap (1..(n + 1)) = positions \cap (1..n)
      BY <2>1, <2>4
    <3>2. Lists(f[n], s, positions, n + 1)
      BY <2>3, <3>1, Zenon DEF Lists
    <3> QED  BY <2>1, <2>2, <2>4, <3>2
  <2>5. CASE n + 1 \in positions
    <3> DEFINE r == Append(f[n], s[n + 1])
               next == [k \in 1..Len(r) |-> IF k <= Len(f[n]) THEN place[k] ELSE n + 1]
    <3>1. s[n + 1] \in S
      BY <1>0, <2>1
    <3>2. /\ r \in Seq(S) /\ Len(r) = Len(f[n]) + 1 /\ Len(f[n]) \in Nat
          /\ \A k \in 1..Len(f[n]) : r[k] = f[n][k]
          /\ r[Len(f[n]) + 1] = s[n + 1]
      BY <2>1, <3>1, AppendProperties
    <3> HIDE DEF r
    <3>3. \A k \in 1..Len(f[n]) : k \in 1..Len(r) /\ next[k] = place[k] /\ place[k] \in positions \cap (1..n)
      <4> SUFFICES ASSUME NEW k \in 1..Len(f[n])
                   PROVE  k \in 1..Len(r) /\ next[k] = place[k] /\ place[k] \in positions \cap (1..n)
        OBVIOUS
      <4>1. k \in 1..Len(r) /\ k <= Len(f[n])
        BY <3>2
      <4>2. next[k] = place[k]
        BY <4>1
      <4>3. place[k] \in positions \cap (1..n)
        BY <2>3
      <4> QED  BY <4>1, <4>2, <4>3
    <3>4. next[Len(f[n]) + 1] = n + 1 /\ Len(f[n]) + 1 \in 1..Len(r)
      BY <3>2
    <3>5. \A k \in 1..Len(r) : k \in 1..Len(f[n]) \/ k = Len(f[n]) + 1
      BY <3>2
    <3>6. DOMAIN next = 1..Len(r)
      OBVIOUS
    <3>7. \A k \in 1..Len(r) : next[k] \in positions \cap (1..(n + 1))
      <4> SUFFICES ASSUME NEW k \in 1..Len(r)  PROVE next[k] \in positions \cap (1..(n + 1))
        OBVIOUS
      <4> HIDE DEF next
      <4>1. CASE k \in 1..Len(f[n])
        <5>1. next[k] \in positions /\ next[k] \in 1..n
          BY <3>3, <4>1
        <5> QED  BY <2>1, <5>1
      <4>2. CASE k = Len(f[n]) + 1
        BY <2>1, <2>5, <3>4, <4>2
      <4> QED  BY <3>5, <4>1, <4>2
    <3>8. next \in [1..Len(r) -> positions \cap (1..(n + 1))]
      BY <3>7
    <3> HIDE DEF next
    <3>9. \A k, l \in 1..Len(r) : k < l => next[k] < next[l]
      <4> SUFFICES ASSUME NEW k \in 1..Len(r), NEW l \in 1..Len(r), k < l PROVE next[k] < next[l]
        OBVIOUS
      <4>1. k \in 1..Len(f[n])
        BY <3>2
      <4>2. CASE l \in 1..Len(f[n])
        BY <2>3, <3>3, <4>1, <4>2
      <4>3. CASE l = Len(f[n]) + 1
        BY <2>1, <3>3, <3>4, <4>1, <4>3
      <4> QED  BY <3>5, <4>2, <4>3
    <3>10. \A i \in positions \cap (1..(n + 1)) : \E k \in 1..Len(r) : next[k] = i
      <4> SUFFICES ASSUME NEW i \in positions \cap (1..(n + 1)) PROVE \E k \in 1..Len(r) : next[k] = i
        OBVIOUS
      <4>1. CASE i = n + 1
        BY <3>4, <4>1
      <4>2. CASE i # n + 1
        <5>1. i \in positions \cap (1..n)
          BY <2>1, <4>2
        <5>2. PICK k \in 1..Len(f[n]) : place[k] = i
          BY <2>3, <5>1
        <5> QED  BY <3>3, <5>2
      <4> QED  BY <4>1, <4>2
    <3>11. \A k \in 1..Len(r) : r[k] = s[next[k]]
      BY <2>3, <3>2, <3>3, <3>4, <3>5
    <3>12. Lists(r, s, positions, n + 1)
      BY <3>8, <3>9, <3>10, <3>11 DEF Lists
    <3> QED  BY <2>2, <2>5, <3>2, <3>12 DEF r
  <2> QED  BY <2>4, <2>5
<1> HIDE DEF T
<1>3. T = Nat
  BY <1>1, <1>2, Induction DEF T
<1> QED  BY <1>0, <1>3 DEF T

\* A comprehension lists what it keeps: each element at a position kept, once and
\* in order, and no other.
LEMMA KeptLists ==
    ASSUME NEW S, NEW s \in Seq(S), NEW positions \in SUBSET DOMAIN s
    PROVE  /\ Kept(s, positions) \in Seq(S)
           /\ Lists(Kept(s, positions), s, positions, Len(s))
<1>1. Len(s) \in Nat
  OBVIOUS
<1> DEFINE f == CHOOSE f : Prefixes(f, s, positions, Len(s))
<1>2. Prefixes(f, s, positions, Len(s))
  BY <1>1, PrefixesExist
<1>3. Kept(s, positions) = f[Len(s)]
  BY DEF Kept, Prefixes
<1> HIDE DEF f
<1> QED  BY <1>1, <1>2, <1>3, PrefixesList

LEMMA KeptCounts ==
    ASSUME NEW S, NEW s \in Seq(S), NEW positions \in SUBSET DOMAIN s
    PROVE  Len(Kept(s, positions)) = Cardinality(positions)
<1> DEFINE r == Kept(s, positions)
<1>1. r \in Seq(S) /\ Lists(r, s, positions, Len(s))
  BY KeptLists
<1> HIDE DEF r
<1>2. positions \cap (1..Len(s)) = positions
  OBVIOUS
<1>3. PICK place \in [1..Len(r) -> positions] :
            /\ \A k, l \in 1..Len(r) : k < l => place[k] < place[l]
            /\ \A i \in positions : \E k \in 1..Len(r) : place[k] = i
  BY <1>1, <1>2 DEF Lists
<1>4. Len(r) \in Nat
  BY <1>1
<1>5. \A k, l \in 1..Len(r) : place[k] = place[l] => k = l
  <2> SUFFICES ASSUME NEW k \in 1..Len(r), NEW l \in 1..Len(r), place[k] = place[l], k # l PROVE FALSE
    OBVIOUS
  <2>1. place[k] \in Nat /\ place[l] \in Nat
    OBVIOUS
  <2>2. k < l \/ l < k
    BY <1>4
  <2> QED  BY <1>3, <2>1, <2>2
<1>6. ExistsBijection(1..Len(r), positions)
  <2>1. place \in Bijection(1..Len(r), positions)
    BY <1>3, <1>5 DEF Bijection, Injection, Surjection, IsInjective
  <2> QED  BY <2>1 DEF ExistsBijection
<1> QED  BY <1>4, <1>6, FS_CountingElements DEF r
-----------------------------------------------------------------------------
(* Reports are complete.                                                   *)

\* Subscriptions and what publish() copied of them are sequences; nothing is
\* reported before publish() is called.
SequencesOfOwners ==
    /\ handlers \in [Topics -> Seq(Owners)]
    /\ roster \in [Publications -> Seq(Owners)]
    /\ \A q \in Publications : pc[q] = "idle" => report[q] = NoReport

\* What ReportsAreComplete says of one publication that reports r.
Accounts(q, r) ==
    /\ r.delivered = Cardinality({i \in Positions(q) : delivery[q][i] = "delivered"})
    /\ r.delivered + Len(r.failures) = Len(roster[q])
    /\ \E place \in [DOMAIN r.failures -> Positions(q)] :
          /\ \A k, l \in DOMAIN place : k < l => place[k] < place[l]
          /\ \A k \in DOMAIN place :
                r.failures[k] = [owner  |-> roster[q][place[k]],
                                         reason |-> delivery[q][place[k]]]

LEMMA SequencesKept ==
    ASSUME BusInvariant, SequencesOfOwners, [Next]_vars
    PROVE  SequencesOfOwners'
<1>1. CASE UNCHANGED vars
  BY <1>1 DEF vars, bus, SequencesOfOwners
<1>2. ASSUME NEW t \in Topics, NEW o \in Owners, Subscribe(t, o) PROVE SequencesOfOwners'
  <2>1. handlers[t] \in Seq(Owners) /\ Append(handlers[t], o) \in Seq(Owners)
    BY AppendProperties DEF SequencesOfOwners
  <2> QED  BY <1>2, <2>1 DEF Subscribe, bus, SequencesOfOwners
<1>3. ASSUME NEW o \in Owners, UnsubscribeOwner(o) PROVE SequencesOfOwners'
  <2>1. \A t \in Topics :
            Kept(handlers[t], {i \in DOMAIN handlers[t] : handlers[t][i] # o}) \in Seq(Owners)
    BY KeptLists DEF SequencesOfOwners
  <2> QED  BY <1>3, <2>1 DEF UnsubscribeOwner, bus, SequencesOfOwners
<1>4. ASSUME NEW q \in Publications, NEW t \in Topics, NEW c \in Callers, Publish(q, t, c)
      PROVE  SequencesOfOwners'
  <2>1. pc' = [pc EXCEPT ![q] = pc'[q]] /\ pc'[q] # "idle" /\ report' = report /\ handlers' = handlers
    BY <1>4 DEF Publish, BusInvariant, BusTypes
  <2>2. \A p \in Publications : pc'[p] = "idle" => pc[p] = "idle"
    BY <2>1 DEF BusInvariant, BusTypes
  <2>3. roster' = [roster EXCEPT ![q] = handlers[t]]
    BY <1>4 DEF Publish
  <2> QED  BY <2>1, <2>2, <2>3 DEF SequencesOfOwners
<1>5. ASSUME NEW q \in Publications, Return(q) \/ Raise(q) PROVE SequencesOfOwners'
  <2>1. roster' = roster /\ handlers' = handlers /\ \A p \in Publications : p # q => report'[p] = report[p]
    BY <1>5 DEF Return, Raise, BusInvariant, BusTypes
  <2>2. \A p \in Publications : pc'[p] = "idle" => p # q /\ pc[p] = "idle"
    BY <1>5 DEF Return, Raise, BusInvariant, BusTypes
  <2> QED  BY <2>1, <2>2 DEF SequencesOfOwners
<1>6. CASE UNCHANGED <<handlers, roster, pc, report>>
  BY <1>6 DEF SequencesOfOwners
<1>7. \/ UNCHANGED <<handlers, roster, pc, report>>
      \/ UNCHANGED vars
      \/ \E t \in Topics, o \in Owners : Subscribe(t, o)
      \/ \E o \in Owners : UnsubscribeOwner(o)
      \/ \E q \in Publications, t \in Topics, c \in Callers : Publish(q, t, c)
      \/ \E q \in Publications : Return(q) \/ Raise(q)
  BY DEF Next, LoopStep, CancelCaller, Begin, HandlerEnds, Deadline, CancelledComesOut, Ends
<1> QED  BY <1>1, <1>2, <1>3, <1>4, <1>5, <1>6, <1>7

\* What Report makes of outcomes that are all there accounts for every handler.
LEMMA ReportAccounts ==
    ASSUME BusInvariant, SequencesOfOwners, NEW q \in Publications, Done(q),
           \A i \in Positions(q) : delivery[q][i] # "cancelled"
    PROVE  Accounts(q, Report(q))
<1> DEFINE failing == {i \in Positions(q) : delivery[q][i] \in Failures}
           served == {i \in Positions(q) : delivery[q][i] = "delivered"}
           list == FailuresOf(q)
<1>1. roster[q] \in Seq(Owners) /\ Len(roster[q]) \in Nat /\ Positions(q) = 1..Len(roster[q])
  BY DEF SequencesOfOwners, Positions
<1>2. Outcomes(q) \in Seq([owner : Owners, reason : Stages]) /\ DOMAIN Outcomes(q) = Positions(q)
  <2>1. \A i \in Positions(q) : roster[q][i] \in Owners /\ delivery[q][i] \in Stages
    BY <1>1 DEF BusInvariant, BusTypes
  <2>2. Outcomes(q) \in [1..Len(roster[q]) -> [owner : Owners, reason : Stages]]
    BY <1>1, <2>1 DEF Outcomes
  <2>3. Outcomes(q) \in UNION {[1..n -> [owner : Owners, reason : Stages]] : n \in Nat}
    BY <1>1, <2>2
  <2>4. DOMAIN Outcomes(q) = Positions(q)
    BY <1>1, <2>2
  <2> QED  BY <2>3, <2>4, SeqDef
<1>3. failing \in SUBSET DOMAIN Outcomes(q) /\ Len(Outcomes(q)) = Len(roster[q])
  BY <1>1, <1>2
<1>4. list = Kept(Outcomes(q), failing)
  BY DEF FailuresOf
<1>5. Len(list) = Cardinality(failing)
  BY <1>2, <1>3, <1>4, KeptCounts
<1>6. list \in Seq([owner : Owners, reason : Stages]) /\ Lists(list, Outcomes(q), failing, Len(roster[q]))
  BY <1>2, <1>3, <1>4, KeptLists
<1>7. /\ IsFiniteSet(failing) /\ IsFiniteSet(served)
      /\ Cardinality(failing) \in Nat /\ Cardinality(served) \in Nat
      /\ Cardinality(served) + Cardinality(failing) = Len(roster[q])
  <2>1. IsFiniteSet(Positions(q)) /\ Cardinality(Positions(q)) = Len(roster[q])
    <3>1. \A n \in Nat : IsFiniteSet(1..n) /\ Cardinality(1..n) = n
      <4> TAKE n \in Nat
      <4>1. IsFiniteSet(1..n) /\ Cardinality(1..n) = IF 1 > n THEN 0 ELSE n - 1 + 1
        BY FS_Interval
      <4> QED  BY <4>1
    <3> HIDE DEF failing, served, list
    <3> QED  BY <1>1, <3>1
  <2>2. IsFiniteSet(failing) /\ IsFiniteSet(served)
    BY <2>1, FS_Subset
  <2>3. served \cup failing = Positions(q)
    BY DEF Done, Ended
  <2>4. served \cap failing = {}
    BY DEF Failures
  <2>5. Cardinality(served \cap failing) = 0
    BY <2>4, FS_EmptySet
  <2> HIDE DEF served, failing
  <2>6. Cardinality(failing) \in Nat /\ Cardinality(served) \in Nat
    BY <2>2, FS_CardinalityType
  <2>7. Cardinality(served \cup failing)
            = Cardinality(served) + Cardinality(failing) - Cardinality(served \cap failing)
    BY <2>2, FS_Union
  <2>8. Cardinality(served \cup failing) = Len(roster[q])
    BY <2>1, <2>3, Zenon
  <2>9. Cardinality(served) + Cardinality(failing) = Len(roster[q])
    BY <1>1, <2>5, <2>6, <2>7, <2>8
  <2> QED  BY <2>2, <2>6, <2>9
<1>8. Report(q).delivered = Len(roster[q]) - Len(list) /\ Report(q).failures = list
  BY DEF Report
<1> HIDE DEF list
<1>9. \E place \in [DOMAIN list -> Positions(q)] :
          /\ \A k, l \in DOMAIN place : k < l => place[k] < place[l]
          /\ \A k \in DOMAIN place :
                list[k] = [owner  |-> roster[q][place[k]], reason |-> delivery[q][place[k]]]
  <2>1. PICK place \in [1..Len(list) -> failing \cap (1..Len(roster[q]))] :
            /\ \A k, l \in 1..Len(list) : k < l => place[k] < place[l]
            /\ \A k \in 1..Len(list) : list[k] = Outcomes(q)[place[k]]
    BY <1>6 DEF Lists
  <2>2. DOMAIN list = 1..Len(list)
    BY <1>6
  <2>3. place \in [DOMAIN list -> Positions(q)] /\ DOMAIN place = DOMAIN list
    BY <2>1, <2>2
  <2>4. \A k \in DOMAIN place :
            list[k] = [owner  |-> roster[q][place[k]], reason |-> delivery[q][place[k]]]
    BY <2>1, <2>2, <2>3 DEF Outcomes
  <2> QED  BY <2>1, <2>2, <2>3, <2>4
<1> HIDE DEF served, failing
<1>10. Report(q).delivered = Cardinality(served) /\ Report(q).delivered + Len(Report(q).failures) = Len(roster[q])
  BY <1>1, <1>5, <1>7, <1>8
<1> QED  BY <1>8, <1>9, <1>10 DEF Accounts, served

\* What returned is complete.
LEMMA ReportsKept ==
    ASSUME BusInvariant, SequencesOfOwners, ReturnedAreDone, ReportsAreComplete, [Next]_vars
    PROVE  ReportsAreComplete'
<1> SUFFICES ASSUME NEW p \in Publications, pc'[p] = "returned"
             PROVE  Done(p)' /\ Accounts(p, report[p])'
  BY DEF ReportsAreComplete, Accounts
<1>1. Done(p)'
  BY ReturnedAreDoneStep DEF ReturnedAreDone
<1>2. ASSUME Over(p), pc[p] = "returned"  PROVE Accounts(p, report[p])'
  <2>1. Accounts(p, report[p])
    BY <1>2 DEF ReportsAreComplete, Accounts
  <2> QED  BY <1>2, <2>1 DEF Over, Accounts, Positions
<1>3. CASE UNCHANGED vars /\ pc[p] = "returned"
  BY <1>1, <1>2, <1>3 DEF vars, bus, Over
<1>4. CASE Next /\ pc[p] = "returned"
  BY <1>1, <1>2, <1>4, ReturnedStayOver
<1>5. CASE Next /\ pc[p] # "returned"
  <2>1. BusTypes
    BY DEF BusInvariant
  <2>2. \/ \E q \in Publications, t \in Topics, c \in Callers : Publish(q, t, c)
        \/ \E q \in Publications : Return(q) \/ Raise(q)
    BY <1>5 DEF Next, LoopStep, Subscribe, UnsubscribeOwner, bus, CancelCaller, Begin, HandlerEnds,
                Deadline, CancelledComesOut, Ends
  <2>3. ASSUME NEW q \in Publications, NEW t \in Topics, NEW c \in Callers, Publish(q, t, c)
        PROVE  Accounts(p, report[p])'
    <3>1. p = q /\ pc[p] = "idle" /\ handlers[t] = <<>> /\ report' = report
      BY <1>5, <2>1, <2>3 DEF Publish, BusTypes
    <3>2. roster'[p] = <<>> /\ report'[p] = NoReport
      BY <2>3, <3>1 DEF Publish, SequencesOfOwners
    <3>3. Positions(p)' = {}
      BY <3>2 DEF Positions
    <3>4. Cardinality({i \in Positions(p)' : delivery'[p][i] = "delivered"}) = 0
      BY <3>3, FS_EmptySet
    <3>5. NoReport.delivered = 0 /\ NoReport.failures = <<>>
      BY DEF NoReport
    <3>6. Len(<<>>) = 0 /\ DOMAIN <<>> = {}
      OBVIOUS
    <3>7. <<>> \in [{} -> Positions(p)']
      BY <3>6
    <3>8. report'[p].delivered
            = Cardinality({i \in Positions(p)' : delivery'[p][i] = "delivered"})
      BY <3>2, <3>4, <3>5
    <3>9. report'[p].delivered + Len(report'[p].failures) = Len(roster'[p])
      BY <3>2, <3>5, <3>6
    <3>10. \E place \in [DOMAIN report'[p].failures -> Positions(p)'] : DOMAIN place = {}
      BY <3>2, <3>5, <3>6, <3>7
    <3> QED  BY <3>8, <3>9, <3>10 DEF Accounts
  <2>4. ASSUME NEW q \in Publications, Return(q) \/ Raise(q)  PROVE Accounts(p, report[p])'
    <3>1. p = q /\ Return(p)
      BY <1>5, <2>1, <2>4 DEF Return, Raise, BusTypes
    <3>2. roster' = roster /\ delivery' = delivery /\ report'[p] = Report(p)
      BY <3>1, <2>1 DEF Return, BusTypes
    <3>3. Accounts(p, Report(p))
      BY <3>1, ReportAccounts DEF Return
    <3> HIDE DEF Report
    <3> QED  BY <3>2, <3>3 DEF Accounts, Positions
  <2> QED  BY <1>1, <2>2, <2>3, <2>4
<1> QED  BY <1>3, <1>4, <1>5 DEF vars, bus

\* A report accounts for every handler publish() copied, whatever subscribed or
\* unsubscribed meanwhile: each was delivered to or failed, once, and the failures
\* stand in order of subscription.
THEOREM ReportsAccountForAll == Spec => []ReportsAreComplete
<1>1. Init => SequencesOfOwners /\ ReturnedAreDone /\ ReportsAreComplete
  BY EmptySeq DEF Init, SequencesOfOwners, ReturnedAreDone, ReportsAreComplete
<1>2. BusInvariant /\ SequencesOfOwners /\ [Next]_vars => SequencesOfOwners'
  BY SequencesKept
<1>3. BusInvariant /\ ReturnedAreDone /\ [Next]_vars => ReturnedAreDone'
  BY ReturnedAreDoneStep
<1>4. BusInvariant /\ SequencesOfOwners /\ ReturnedAreDone /\ ReportsAreComplete /\ [Next]_vars
        => ReportsAreComplete'
  BY ReportsKept
<1> QED
  BY <1>1, <1>2, <1>3, <1>4, BusInvariantHolds, PTL DEF Spec
=============================================================================

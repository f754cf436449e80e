------------------------- MODULE CoapObserverProofs -------------------------
(* Theorems about CoapObserver, for every value of its constants.            *)
EXTENDS CoapObserver, TLAPS

\* A position's successor is a position.
LEMMA SuccessorType == ASSUME NEW p \in Positions PROVE Successor(p) \in Positions
BY WrapAssumption DEF Successor, Positions

-----------------------------------------------------------------------------
(* Type correctness. *)

LEMMA TypeInit == Init => TypeOK
<1> SUFFICES ASSUME Init PROVE TypeOK
    OBVIOUS
<1>1. [lap |-> 0, num |-> First] \in Positions
    BY FirstAssumption DEF Positions
<1>2. -1 \in -1 .. (Wrap - 1) /\ 0 \in 0 .. MaxStale /\ 0 \in 0 .. MaxSent
    BY WrapAssumption, BoundsAssumption
<1>3. lastSeq \in [Uris -> -1 .. (Wrap - 1)]
    BY <1>2 DEF Init
<1>4. staleCount \in [Uris -> 0 .. MaxStale] /\ sent \in [Uris -> 0 .. MaxSent]
    BY <1>2 DEF Init
<1>5. lastPos \in [Uris -> Positions] /\ latest \in [Uris -> Positions]
    BY <1>1 DEF Init
<1> QED
    BY <1>3, <1>4, <1>5 DEF Init, TypeOK, Tasks

LEMMA TypeStep == TypeOK /\ [Next]_vars => TypeOK'
<1> SUFFICES ASSUME TypeOK, [Next]_vars PROVE TypeOK'
    OBVIOUS
<1> USE DEF TypeOK
<1>1. CASE Start
    BY <1>1 DEF Start, taskVars, seqVars, serverVars
<1>2. CASE GatherReturns
    BY <1>2 DEF GatherReturns, taskVars, seqVars, serverVars
<1>3. CASE GatherRaises
    BY <1>3 DEF GatherRaises, taskVars, seqVars, serverVars
<1>4. CASE FetchManifest
    BY <1>4 DEF FetchManifest, taskVars, seqVars, serverVars
<1>5. CASE Interrupt
    BY <1>5 DEF Interrupt, CancelAll, Tasks, seqVars, serverVars
<1>6. CASE Stop
    BY <1>6 DEF Stop, taskVars, seqVars, serverVars
<1>7. CASE Exit
    BY <1>7 DEF Exit, CancelAll, Tasks, seqVars, serverVars
<1>8. ASSUME NEW u \in Uris, Register(u) PROVE TypeOK'
    BY <1>8 DEF Register, Tasks, runVars, seqVars, serverVars
<1>9. ASSUME NEW u \in Uris, Notify(u) PROVE TypeOK'
    <2>1. Successor(latest[u]) \in Positions
        BY SuccessorType
    <2>2. latest' \in [Uris -> Positions]
        BY <1>9, <2>1 DEF Notify
    <2>3. net' \in [Uris -> SUBSET Positions]
        BY <1>9, <2>1 DEF Notify
    <2>4. sent' \in [Uris -> 0 .. MaxSent]
        BY <1>9, BoundsAssumption DEF Notify
    <2> QED
        BY <1>9, <2>2, <2>3, <2>4 DEF Notify, runVars, taskVars, seqVars
<1>10. ASSUME NEW u \in Uris, NEW how \in {"done", "failed"}, EndTask(u, how) PROVE TypeOK'
    BY <1>10 DEF EndTask, Tasks, runVars, seqVars, serverVars
<1>11. ASSUME NEW u \in Uris, NEW p \in net[u], NEW payload \in Payloads,
              HandleNotification(u, p, payload)
       PROVE  TypeOK'
    <2>1. p \in Positions /\ p.num \in 0 .. (Wrap - 1)
        BY DEF Positions
    <2>2. CASE Reject(u, p)
        BY <1>11, <2>2, BoundsAssumption DEF HandleNotification, Reject, taskVars, runVars, serverVars
    <2>3. CASE Accept(u, p, payload)
        <3>1. lastSeq' \in [Uris -> -1 .. (Wrap - 1)]
            BY <2>1, <2>3, WrapAssumption DEF Accept
        <3>2. lastPos' \in [Uris -> Positions]
            BY <2>1, <2>3 DEF Accept
        <3>3. task' \in [Uris -> Tasks] /\ registered' \in [Uris -> BOOLEAN]
            BY <2>3 DEF Accept, Tasks, taskVars
        <3> QED
            BY <1>11, <2>3, <3>1, <3>2, <3>3 DEF HandleNotification, Accept, runVars, serverVars
    <2> QED
        BY <1>11, <2>2, <2>3 DEF HandleNotification
<1>12. CASE UNCHANGED vars
    BY <1>12 DEF vars, runVars, taskVars, seqVars, serverVars
<1> QED
    BY <1>1, <1>2, <1>3, <1>4, <1>5, <1>6, <1>7, <1>8, <1>9, <1>10, <1>11, <1>12
       DEF Next, TimedOut, StreamEnds, StreamFails

\* Type correctness of the observer.
THEOREM TypeCorrect == Spec => []TypeOK
<1>1. Init => TypeOK
    BY TypeInit
<1>2. TypeOK /\ [Next]_vars => TypeOK'
    BY TypeStep
<1> QED
    BY <1>1, <1>2, PTL DEF Spec

-----------------------------------------------------------------------------
(* The freshness test. *)

\* For all numbers below Wrap and all laps: a notification just after the last
\* accepted one is not stale.
LEMMA JustAfterIsFresh ==
    ASSUME NEW p \in Positions, NEW q \in Positions, JustAfter(p, q)
    PROVE  ~Stale(q.num, p.num)
BY WrapAssumption DEF Positions, JustAfter, Stale

\* For all numbers below Wrap and all laps: what is not stale is newer, or from
\* another lap, or more than Wrap - 2 * Margin behind.
LEMMA NotStaleIsNewer ==
    ASSUME NEW p \in Positions, NEW q \in Positions, ~Stale(q.num, p.num)
    PROVE  Newer(p, q) \/ p.lap # q.lap \/ q.num - p.num > Wrap - 2 * Margin
BY WrapAssumption DEF Positions, Newer, Stale

-----------------------------------------------------------------------------
(* The inductive invariant. *)

\* The number the client remembers is that of the notification it accepted last.
Origin == \A u \in Uris : lastSeq[u] >= 0 => lastSeq[u] = lastPos[u].num

\* Only a running task has an active observation.
RegisteredObserves == \A u \in Uris : registered[u] => task[u] = "observing"

IInv == TypeOK /\ Origin /\ RegisteredObserves /\ AllDeregistered /\ SummaryAfterAll

LEMMA IInvInit == Init => IInv
<1> SUFFICES ASSUME Init PROVE IInv
    OBVIOUS
<1> QED
    BY TypeInit DEF Init, IInv, Origin, RegisteredObserves, AllDeregistered, SummaryAfterAll

LEMMA IInvStep == IInv /\ [Next]_vars => IInv'
<1> SUFFICES ASSUME IInv, [Next]_vars PROVE IInv'
    OBVIOUS
<1>t. TypeOK /\ TypeOK'
    BY TypeStep DEF IInv
<1> USE DEF IInv, Origin, RegisteredObserves, AllDeregistered, SummaryAfterAll
<1>1. CASE Start
    BY <1>t, <1>1 DEF Start, taskVars, seqVars, serverVars, TypeOK
<1>2. CASE GatherReturns
    BY <1>t, <1>2 DEF GatherReturns, taskVars, seqVars, serverVars
<1>3. CASE GatherRaises
    BY <1>t, <1>3 DEF GatherRaises, taskVars, seqVars, serverVars
<1>4. CASE FetchManifest
    BY <1>t, <1>4 DEF FetchManifest, taskVars, seqVars, serverVars
<1>5. CASE Interrupt
    BY <1>t, <1>5 DEF Interrupt, CancelAll, seqVars, serverVars, TypeOK
<1>6. CASE Stop
    BY <1>t, <1>6 DEF Stop, taskVars, seqVars, serverVars
<1>7. CASE Exit
    BY <1>t, <1>7 DEF Exit, CancelAll, seqVars, serverVars, TypeOK
<1>8. ASSUME NEW u \in Uris, Register(u) PROVE IInv'
    BY <1>t, <1>8 DEF Register, runVars, seqVars, serverVars, TypeOK
<1>9. ASSUME NEW u \in Uris, Notify(u) PROVE IInv'
    BY <1>t, <1>9 DEF Notify, runVars, taskVars, seqVars
<1>10. ASSUME NEW u \in Uris, NEW how \in {"done", "failed"}, EndTask(u, how) PROVE IInv'
    BY <1>t, <1>10 DEF EndTask, runVars, seqVars, serverVars, TypeOK
<1>11. ASSUME NEW u \in Uris, NEW p \in net[u], NEW payload \in Payloads,
              HandleNotification(u, p, payload)
       PROVE  IInv'
    <2>1. Origin'
        BY <1>t, <1>11 DEF HandleNotification, Reject, Accept, TypeOK
    <2>2. RegisteredObserves'
        BY <1>t, <1>11 DEF HandleNotification, Reject, Accept, taskVars, TypeOK
    <2>3. AllDeregistered' /\ SummaryAfterAll'
        BY <1>t, <1>11 DEF HandleNotification, Reject, Accept, runVars, taskVars, TypeOK
    <2> QED
        BY <1>t, <2>1, <2>2, <2>3
<1>12. CASE UNCHANGED vars
    BY <1>t, <1>12 DEF vars, runVars, taskVars, seqVars, serverVars
<1> QED
    BY <1>1, <1>2, <1>3, <1>4, <1>5, <1>6, <1>7, <1>8, <1>9, <1>10, <1>11, <1>12
       DEF Next, TimedOut, StreamEnds, StreamFails

LEMMA IInvAlways == Spec => []IInv
<1>1. Init => IInv
    BY IInvInit
<1>2. IInv /\ [Next]_vars => IInv'
    BY IInvStep
<1> QED
    BY <1>1, <1>2, PTL DEF Spec

-----------------------------------------------------------------------------
(* What follows from it. *)

\* No notification within Margin of the last accepted one is dropped, whatever the
\* modulus, the margin, the order of arrival and the number of resources.
THEOREM FreshKept == Spec => []FreshIsKept
<1>1. IInv => FreshIsKept
    <2> SUFFICES ASSUME IInv, NEW u \in Uris, NEW p \in net[u],
                        lastSeq[u] >= 0, JustAfter(p, lastPos[u])
                 PROVE  ~Stale(lastSeq[u], p.num)
        BY DEF FreshIsKept
    <2>1. p \in Positions /\ lastPos[u] \in Positions
        BY DEF IInv, TypeOK
    <2>2. lastSeq[u] = lastPos[u].num
        BY DEF IInv, Origin
    <2> QED
        BY <2>1, <2>2, JustAfterIsFresh
<1> QED
    BY <1>1, IInvAlways, PTL

\* An accepted notification is newer than the one before, up to the exceptions
\* NeverGoesBack names.
THEOREM GoesForward == Spec => NeverGoesBack
<1> DEFINE Forward(u) ==
        lastSeq[u] >= 0 /\ lastPos'[u] # lastPos[u] =>
            \/ Newer(lastPos'[u], lastPos[u])
            \/ lastPos'[u].lap # lastPos[u].lap
            \/ lastPos[u].num - lastPos'[u].num > Wrap - 2 * Margin
<1>1. IInv /\ [Next]_vars => [\A u \in Uris : Forward(u)]_vars
    <2> SUFFICES ASSUME IInv, Next, NEW u \in Uris,
                        lastSeq[u] >= 0, lastPos'[u] # lastPos[u]
                 PROVE  Forward(u)
        OBVIOUS
    <2>a. PICK v \in Uris : \E p \in net[v], payload \in Payloads :
              HandleNotification(v, p, payload)
        BY DEF Next, Start, GatherReturns, GatherRaises, FetchManifest, Interrupt, Stop, Exit,
               Register, Notify, TimedOut, StreamEnds, StreamFails, EndTask, seqVars
    <2>1. PICK p \in net[v], payload \in Payloads : HandleNotification(v, p, payload)
        BY <2>a
    <2>2. ~Stale(lastSeq[v], p.num) /\ lastPos' = [lastPos EXCEPT ![v] = p]
        BY <2>1 DEF HandleNotification, Reject, Accept
    <2>3. u = v /\ lastPos'[u] = p
        BY <2>2 DEF IInv, TypeOK
    <2>4. p \in Positions /\ lastPos[u] \in Positions
        BY <2>1, <2>3 DEF IInv, TypeOK
    <2>5. lastSeq[u] = lastPos[u].num
        BY DEF IInv, Origin
    <2> QED
        BY <2>2, <2>3, <2>4, <2>5, NotStaleIsNewer
<1> QED
    BY <1>1, IInvAlways, PTL DEF Spec, NeverGoesBack

\* However the program ends, no observation is left active.
THEOREM NothingLeftRegistered == Spec => []AllDeregistered
<1>1. IInv => AllDeregistered
    BY DEF IInv
<1> QED
    BY <1>1, IInvAlways, PTL

\* No manifest and no summary before every observation ended well.
THEOREM SummaryIsLast == Spec => []SummaryAfterAll
<1>1. IInv => SummaryAfterAll
    BY DEF IInv
<1> QED
    BY <1>1, IInvAlways, PTL
=============================================================================

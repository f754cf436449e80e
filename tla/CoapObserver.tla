---------------------------- MODULE CoapObserver ----------------------------
(***************************************************************************)
(* The Observe client of src/coap/observer.py: run() with its concurrent    *)
(* observe_resource tasks, the freshness check of _handle_notification, and *)
(* the way the program ends.  aiocoap, asyncio and the network are external *)
(* code: notifications may be lost, delayed, repeated and reordered.        *)
(*                                                                         *)
(* A notification is known by its position: the Observe number it carries   *)
(* (modulo Wrap) and the lap of the counter, which only the model knows.    *)
(***************************************************************************)
EXTENDS Integers

CONSTANTS
    Uris,     \* the observed resources
    Wrap,     \* WRAP_THRESHOLD, 2^24 in the code
    Margin,   \* the 256 of the wrap-around test
    First,    \* the number the server gives to the registration
    MaxSent,  \* bound: notifications sent for each resource
    MaxStale  \* bound: notifications counted stale for each resource

ASSUME WrapAssumption   == Wrap \in Nat /\ Margin \in Nat /\ 0 < Margin /\ 2 * Margin < Wrap
ASSUME FirstAssumption  == First \in 0 .. (Wrap - 1)
ASSUME BoundsAssumption == MaxSent \in Nat /\ MaxStale \in Nat

VARIABLES
    pc,          \* run(): init, observing, manifest, stopping, exiting, exited
    task,        \* each observe_resource task
    registered,  \* whether the task's observation is active at the client
    ctx,         \* self._ctx: none, open, closed
    lastSeq,     \* self._last_seq, -1 where the dict has no entry
    staleCount,  \* self._stale_count, 0 where the dict has no entry
    reported,    \* the final summary was logged
    latest,      \* the position of the server's latest notification
    net,         \* positions sent so far: each may arrive late, often or never
    sent,        \* notifications sent
    lastPos      \* history: the position of the notification lastSeq came from

runVars    == <<pc, ctx, reported>>
taskVars   == <<task, registered>>
seqVars    == <<lastSeq, staleCount, lastPos>>
serverVars == <<latest, net, sent>>
vars == <<runVars, taskVars, seqVars, serverVars>>

Positions == [lap : Nat, num : 0 .. (Wrap - 1)]
Tasks     == {"new", "observing", "done", "failed", "cancelled"}
Payloads  == {"usable", "other"}   \* "other": JSON, but not an object

-----------------------------------------------------------------------------
(* The order of notifications, and what the code makes of their numbers. *)

Successor(p) == IF p.num + 1 = Wrap THEN [lap |-> p.lap + 1, num |-> 0]
                ELSE [lap |-> p.lap, num |-> p.num + 1]

Newer(p, q) == p.lap > q.lap \/ (p.lap = q.lap /\ p.num > q.num)

\* p comes after q, by fewer than Margin notifications.
JustAfter(p, q) ==
    \/ p.lap = q.lap /\ p.num > q.num /\ p.num - q.num < Margin
    \/ p.lap = q.lap + 1 /\ p.num + Wrap - q.num < Margin

\* Mutated forms: no wrap-around test; one that forgets where last must be.
StaleNoWrap(last, seq)  == last >= 0 /\ seq <= last
StaleAnyWrap(last, seq) == last >= 0 /\ seq <= last /\ ~(seq < Margin)

\* Lines 72-76.
Stale(last, seq) ==
    /\ last >= 0
    /\ seq <= last
    /\ ~(last > Wrap - Margin /\ seq < Margin)

\* RFC 7641, section 3.4: seq is fresher than last in sequence number arithmetic.
FresherByRfc(last, seq) ==
    \/ last < seq /\ 2 * (seq - last) < Wrap
    \/ last > seq /\ 2 * (last - seq) > Wrap

-----------------------------------------------------------------------------
Init ==
    /\ pc = "init" /\ ctx = "none" /\ reported = FALSE
    /\ task = [u \in Uris |-> "new"] /\ registered = [u \in Uris |-> FALSE]
    /\ lastSeq = [u \in Uris |-> -1] /\ staleCount = [u \in Uris |-> 0]
    /\ lastPos = [u \in Uris |-> [lap |-> 0, num |-> First]]
    /\ latest = [u \in Uris |-> [lap |-> 0, num |-> First]]
    /\ net = [u \in Uris |-> {}] /\ sent = [u \in Uris |-> 0]

\* start() is awaited outside run()'s try block: if it raises, nothing is left to
\* clean up.
Start ==
    /\ pc = "init"
    /\ \/ pc' = "observing" /\ ctx' = "open"
       \/ pc' = "exiting" /\ ctx' = "none"
    /\ UNCHANGED <<reported, taskVars, seqVars, serverVars>>

\* A task sends its GET with Observe=0.  Tasks start when the loop gets to them,
\* and gather() does not wait for that when another one has failed.
Register(u) ==
    /\ pc \in {"observing", "stopping"} /\ ctx = "open" /\ task[u] = "new"
    /\ task' = [task EXCEPT ![u] = "observing"]
    /\ registered' = [registered EXCEPT ![u] = TRUE]
    /\ UNCHANGED <<runVars, seqVars, serverVars>>

\* The server has a new notification for the resource.
Notify(u) ==
    /\ registered[u] /\ sent[u] < MaxSent
    /\ sent' = [sent EXCEPT ![u] = @ + 1]
    /\ latest' = [latest EXCEPT ![u] = Successor(@)]
    /\ net' = [net EXCEPT ![u] = @ \cup {Successor(latest[u])}]
    /\ UNCHANGED <<runVars, taskVars, seqVars>>

\* Lines 77-79: a stale notification is counted and dropped.
Reject(u, p) ==
    /\ Stale(lastSeq[u], p.num) /\ staleCount[u] < MaxStale
    /\ staleCount' = [staleCount EXCEPT ![u] = @ + 1]
    /\ UNCHANGED <<lastSeq, lastPos, taskVars>>

\* Mutated form: the number is remembered as the next one to expect.
AcceptNext(u, p, payload) ==
    /\ ~Stale(lastSeq[u], p.num)
    /\ lastSeq' = [lastSeq EXCEPT ![u] = p.num + 1]
    /\ lastPos' = [lastPos EXCEPT ![u] = p]
    /\ UNCHANGED <<staleCount, taskVars>>

\* Lines 81-93: the number is remembered, the payload logged.  JSON that is no
\* object has no get(): the AttributeError ends the task, whose finally block
\* cancels the observation.
Accept(u, p, payload) ==
    /\ ~Stale(lastSeq[u], p.num)
    /\ lastSeq' = [lastSeq EXCEPT ![u] = p.num]
    /\ lastPos' = [lastPos EXCEPT ![u] = p]
    /\ IF payload = "other"
       THEN /\ task' = [task EXCEPT ![u] = "failed"]
            /\ registered' = [registered EXCEPT ![u] = FALSE]
       ELSE UNCHANGED taskVars
    /\ UNCHANGED staleCount

HandleNotification(u, p, payload) ==
    /\ task[u] = "observing" /\ ctx = "open" /\ p \in net[u]
    /\ Reject(u, p) \/ Accept(u, p, payload)
    /\ UNCHANGED <<runVars, serverVars>>

\* The task leaves its try statement; finally cancels the observation.
EndTask(u, how) ==
    /\ task[u] = "observing"
    /\ task' = [task EXCEPT ![u] = how]
    /\ registered' = [registered EXCEPT ![u] = FALSE]
    /\ UNCHANGED <<runVars, seqVars, serverVars>>

\* Mutated forms: the observation is not cancelled on a timeout; no timeout.
TimedOutKept(u) ==
    /\ task[u] = "observing" /\ task' = [task EXCEPT ![u] = "done"]
    /\ UNCHANGED <<registered, runVars, seqVars, serverVars>>
TimedOutNever(u) == FALSE /\ EndTask(u, "done")

\* wait_for's OBSERVE_DURATION is over.
TimedOut(u) == EndTask(u, "done")

\* The server ends the observation: the iterator stops, well before the timeout.
StreamEnds(u) == EndTask(u, "done")

\* The iterator raises: network error, or the context shut down under the task.
StreamFails(u) == EndTask(u, "failed")

\* Mutated form: gather() keeps exceptions as results.
GatherReturnsAll ==
    /\ pc = "observing" /\ \A u \in Uris : task[u] \in {"done", "failed"}
    /\ pc' = "manifest"
    /\ UNCHANGED <<ctx, reported, taskVars, seqVars, serverVars>>

\* gather() returns once every task has, and raises as soon as one does: the
\* others go on.
GatherReturns ==
    /\ pc = "observing" /\ \A u \in Uris : task[u] = "done"
    /\ pc' = "manifest"
    /\ UNCHANGED <<ctx, reported, taskVars, seqVars, serverVars>>

GatherRaises ==
    /\ pc = "observing" /\ \E u \in Uris : task[u] = "failed"
    /\ pc' = "stopping"
    /\ UNCHANGED <<ctx, reported, taskVars, seqVars, serverVars>>

\* fetch_manifest() and the summary, or an exception out of the request.
FetchManifest ==
    /\ pc = "manifest"
    /\ pc' = "stopping" /\ reported' \in BOOLEAN
    /\ UNCHANGED <<ctx, taskVars, seqVars, serverVars>>

CancelAll ==
    /\ task' = [u \in Uris |-> IF task[u] \in {"new", "observing"} THEN "cancelled" ELSE task[u]]
    /\ registered' = [u \in Uris |-> IF task[u] = "observing" THEN FALSE ELSE registered[u]]

\* Ctrl-C: asyncio.run cancels run(), and gather() its tasks.
Interrupt ==
    /\ pc \in {"observing", "manifest"}
    /\ pc' = "stopping" /\ CancelAll
    /\ UNCHANGED <<ctx, reported, seqVars, serverVars>>

\* run()'s finally: stop().
Stop ==
    /\ pc = "stopping"
    /\ pc' = "exiting" /\ ctx' = "closed"
    /\ UNCHANGED <<reported, taskVars, seqVars, serverVars>>

\* asyncio.run cancels the tasks that are left, and they run their finally blocks.
Exit ==
    /\ pc = "exiting"
    /\ pc' = "exited" /\ CancelAll
    /\ UNCHANGED <<ctx, reported, seqVars, serverVars>>

-----------------------------------------------------------------------------
Next ==
    \/ Start \/ GatherReturns \/ GatherRaises \/ FetchManifest \/ Interrupt \/ Stop \/ Exit
    \/ \E u \in Uris :
         \/ Register(u) \/ Notify(u) \/ TimedOut(u) \/ StreamEnds(u) \/ StreamFails(u)
         \/ \E p \in net[u], payload \in Payloads : HandleNotification(u, p, payload)

Spec == Init /\ [][Next]_vars

\* The event loop runs what is ready and its timers expire; a request is answered
\* or times out.  The server need not notify and the network need not deliver.
Fairness ==
    /\ WF_vars(Start) /\ WF_vars(GatherReturns \/ GatherRaises) /\ WF_vars(FetchManifest)
    /\ WF_vars(Stop) /\ WF_vars(Exit)
    /\ \A u \in Uris : WF_vars(Register(u)) /\ WF_vars(TimedOut(u))

FairSpec == Spec /\ Fairness

-----------------------------------------------------------------------------
(* Properties. *)

\* Every variable keeps its type.
TypeOK ==
    /\ pc \in {"init", "observing", "manifest", "stopping", "exiting", "exited"}
    /\ ctx \in {"none", "open", "closed"} /\ reported \in BOOLEAN
    /\ task \in [Uris -> Tasks] /\ registered \in [Uris -> BOOLEAN]
    /\ lastSeq \in [Uris -> -1 .. (Wrap - 1)] /\ staleCount \in [Uris -> 0 .. MaxStale]
    /\ lastPos \in [Uris -> Positions] /\ latest \in [Uris -> Positions]
    /\ net \in [Uris -> SUBSET Positions] /\ sent \in [Uris -> 0 .. MaxSent]

\* A notification that follows the last accepted one, with fewer than Margin
\* numbers in between lost, is never taken for stale, also across the wrap-around.
\* Lines 72-79.
FreshIsKept ==
    \A u \in Uris : \A p \in net[u] :
        lastSeq[u] >= 0 /\ JustAfter(p, lastPos[u]) => ~Stale(lastSeq[u], p.num)

\* An accepted notification is newer than the one accepted before, unless it was
\* sent before the counter wrapped around or is almost a whole lap late.
NeverGoesBack ==
    [][\A u \in Uris :
         lastSeq[u] >= 0 /\ lastPos'[u] # lastPos[u] =>
             \/ Newer(lastPos'[u], lastPos[u])
             \/ lastPos'[u].lap # lastPos[u].lap
             \/ lastPos[u].num - lastPos'[u].num > Wrap - 2 * Margin]_vars

\* When the program has ended, every observation has been cancelled, that of a
\* task gather() left behind too.  Lines 55-65, 127-147.
AllDeregistered ==
    pc = "exited" => \A u \in Uris : ~registered[u] /\ task[u] \notin {"new", "observing"}

\* The manifest is fetched and the summary logged only after every observation
\* ran to its end without an exception.  Lines 136-144.
SummaryAfterAll == pc = "manifest" \/ reported => \A u \in Uris : task[u] = "done"

\* The program ends by itself: no observation outlives its timeout.
EventuallyExits == <>(pc = "exited")

\* The README's "stale-notification rejection per RFC 7641 (mod-2^24 sequence
\* comparison)": a notification is not rejected if the RFC's comparison calls it
\* fresher than the last one accepted.
FreshPerRfcIsKept ==
    \A u \in Uris : \A p \in net[u] :
        lastSeq[u] >= 0 /\ FresherByRfc(lastSeq[u], p.num) => ~Stale(lastSeq[u], p.num)
=============================================================================

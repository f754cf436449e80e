----------------------------- MODULE CoapServer -----------------------------
(***************************************************************************)
(* The resource server of src/coap/server.py: build_server() and the four   *)
(* ways the program leaves it, the update task of each SensorResource, the  *)
(* observations aiocoap keeps for it, and the fan actuator.  Everything     *)
(* runs in one event loop: a step of the model is what happens between two  *)
(* awaits.  aiocoap's observations are external code, modelled from how     *)
(* updated_state() and render_get are used.                                 *)
(*                                                                         *)
(* A reading is told apart by its version, the number of updates before it. *)
(***************************************************************************)
EXTENDS Integers

CONSTANTS
    Sensors,     \* the (line, sensor) pairs given to SensorResource and add_resource
    Clients,     \* the CoAP clients
    MaxUpdates   \* bound: updates of each sensor

ASSUME BoundsAssumption == MaxUpdates \in Nat

VARIABLES
    pc,          \* build_server() and its caller: init, binding, failed, serving,
                 \* closing (in shutdown), closed, exited
    task,        \* the _task of each sensor: none, new, running, cancelling, ended
    reading,     \* the version of self._reading
    obs,         \* each client's observation of each sensor: none, idle or triggered
    number,      \* the Observe number of the last notification of this observation
    carried,     \* the version that notification carried
    fan,         \* the actuator's self._state
    answer       \* the last answer to a request that is not an observation

runVars == <<pc, task>>
obsVars == <<obs, number, carried>>
fanVars == <<fan, answer>>
vars == <<runVars, reading, obsVars, fanVars>>

Observations == Sensors \X Clients

\* What main() announces: /factory/line{1,2}/{temperature,vibration,power}.
Announced == {"line1", "line2"} \X {"temperature", "vibration", "power"}

\* Bodies of a PUT: a JSON object with the state ON, OFF or anything else, text
\* that is not JSON, JSON that is not an object.
Bodies == {"ON", "OFF", "INVALID", "no json", "no object"}
Codes  == {"2.04", "2.05", "4.00", "4.04", "5.00"}

\* Requests are answered until the context is shut down.
Open == pc \in {"serving", "closing"}

Init ==
    /\ pc = "init"
    /\ task = [s \in Sensors |-> "none"] /\ reading = [s \in Sensors |-> 0]
    /\ obs = [o \in Observations |-> "none"]
    /\ number = [o \in Observations |-> 0] /\ carried = [o \in Observations |-> 0]
    /\ fan = "OFF" /\ answer = [request |-> "none", code |-> "2.05"]

-----------------------------------------------------------------------------
(* Starting. *)

\* The sensor resources are constructed, and with them their tasks, before the
\* server has a socket.  If localhost cannot be resolved neither exists.
Build ==
    /\ pc = "init"
    /\ \/ pc' = "binding" /\ task' = [s \in Sensors |-> "new"]
       \/ pc' = "failed" /\ UNCHANGED task
    /\ UNCHANGED <<reading, obsVars, fanVars>>

\* create_server_context: the port may be taken, and then the exception leaves
\* build_server() with the tasks running.
Bind ==
    /\ pc = "binding"
    /\ pc' \in {"serving", "failed"}
    /\ UNCHANGED <<task, reading, obsVars, fanVars>>

-----------------------------------------------------------------------------
(* The update tasks. *)

BeginLoop(s) ==
    /\ task[s] = "new"
    /\ task' = [task EXCEPT ![s] = "running"]
    /\ UNCHANGED <<pc, reading, obsVars, fanVars>>

\* Mutated form: the observers are not told.
UpdateSilent(s) ==
    /\ task[s] = "running" /\ reading[s] < MaxUpdates
    /\ reading' = [reading EXCEPT ![s] = @ + 1]
    /\ UNCHANGED <<runVars, obsVars, fanVars>>

\* Five seconds have passed: a new reading, and updated_state() triggers every
\* observation of the resource; one triggered already stays so.
Update(s) ==
    /\ task[s] = "running" /\ reading[s] < MaxUpdates
    /\ reading' = [reading EXCEPT ![s] = @ + 1]
    /\ obs' = [o \in Observations |-> IF o[1] = s /\ obs[o] # "none" THEN "triggered" ELSE obs[o]]
    /\ UNCHANGED <<runVars, number, carried, fanVars>>

\* The CancelledError reaches the task: the loop ends, without another update.
EndLoop(s) ==
    /\ task[s] = "cancelling"
    /\ task' = [task EXCEPT ![s] = "ended"]
    /\ UNCHANGED <<pc, reading, obsVars, fanVars>>

-----------------------------------------------------------------------------
(* Observations: GET with Observe=0, notifications, the end of interest. *)

Observe(o) ==
    /\ Open /\ obs[o] = "none"
    /\ obs' = [obs EXCEPT ![o] = "idle"]
    /\ number' = [number EXCEPT ![o] = 0]
    /\ carried' = [carried EXCEPT ![o] = reading[o[1]]]
    /\ UNCHANGED <<runVars, reading, fanVars>>

\* Mutated form: a notification carries the reading before the latest.
RenderLate(o) ==
    /\ obs[o] = "triggered"
    /\ obs' = [obs EXCEPT ![o] = "idle"]
    /\ number' = [number EXCEPT ![o] = @ + 1]
    /\ carried' = [carried EXCEPT ![o] = reading[o[1]] - 1]
    /\ UNCHANGED <<runVars, reading, fanVars>>

\* Mutated form: the trigger is not consumed.
RenderKept(o) ==
    /\ obs[o] = "triggered"
    /\ number' = [number EXCEPT ![o] = @ + 1]
    /\ carried' = [carried EXCEPT ![o] = reading[o[1]]]
    /\ UNCHANGED <<runVars, reading, obs, fanVars>>

\* The observation's turn in the event loop: render_get runs now, with the reading
\* of now, whatever the reading was when it was triggered.
Render(o) ==
    /\ obs[o] = "triggered"
    /\ obs' = [obs EXCEPT ![o] = "idle"]
    /\ number' = [number EXCEPT ![o] = @ + 1]
    /\ carried' = [carried EXCEPT ![o] = reading[o[1]]]
    /\ UNCHANGED <<runVars, reading, fanVars>>

\* GET with Observe=1, a reset, or a client that cannot be reached any more.
Deregister(o) ==
    /\ obs[o] # "none"
    /\ obs' = [obs EXCEPT ![o] = "none"]
    /\ UNCHANGED <<runVars, reading, number, carried, fanVars>>

-----------------------------------------------------------------------------
(* Other requests. *)

\* GET of a sensor: the site answers for a path without a resource.
Get(r) ==
    /\ Open
    /\ answer' = [request |-> "GET", code |-> IF r \in Sensors THEN "2.05" ELSE "4.04"]
    /\ UNCHANGED <<runVars, reading, obsVars, fan>>

\* GET of the actuator.
GetFan ==
    /\ Open
    /\ answer' = [request |-> "GET", code |-> "2.05"]
    /\ UNCHANGED <<runVars, reading, obsVars, fan>>

\* Mutated form: the state is assigned before it is looked at.
PutUnchecked(body) ==
    /\ Open
    /\ fan' = body
    /\ answer' = [request |-> "PUT", code |-> IF body \in {"ON", "OFF"} THEN "2.04" ELSE "4.00"]
    /\ UNCHANGED <<runVars, reading, obsVars>>

\* render_put: data.get() on JSON that is not an object is an AttributeError, which
\* the except clause does not name; aiocoap then answers 5.00.
Put(body) ==
    /\ Open
    /\ fan' = IF body \in {"ON", "OFF"} THEN body ELSE fan
    /\ answer' = [request |-> "PUT", code |-> CASE body \in {"ON", "OFF"}          -> "2.04"
                                                [] body \in {"INVALID", "no json"} -> "4.00"
                                                [] body = "no object"              -> "5.00"]
    /\ UNCHANGED <<runVars, reading, obsVars>>

-----------------------------------------------------------------------------
(* Ending. *)

\* Mutated form: shutdown() waits for the tasks without cancelling them.
ShutdownUncancelled ==
    /\ pc = "serving" /\ pc' = "closing"
    /\ UNCHANGED <<task, reading, obsVars, fanVars>>

\* _ServerContext.shutdown(): every task is cancelled; one that has not begun
\* ends without running.
Shutdown ==
    /\ pc = "serving" /\ pc' = "closing"
    /\ task' = [s \in Sensors |-> "cancelling"]
    /\ UNCHANGED <<reading, obsVars, fanVars>>

\* Mutated form: shutdown() does not wait for the tasks it cancels.
CloseContextAtOnce ==
    /\ pc = "closing" /\ pc' = "closed"
    /\ obs' = [o \in Observations |-> "none"]
    /\ UNCHANGED <<task, reading, number, carried, fanVars>>

\* gather() has seen every task end, then the context is shut down.
CloseContext ==
    /\ pc = "closing" /\ \A s \in Sensors : task[s] = "ended"
    /\ pc' = "closed"
    /\ obs' = [o \in Observations |-> "none"]
    /\ UNCHANGED <<task, reading, number, carried, fanVars>>

\* asyncio.run ends: after an exception of build_server(), on Ctrl-C at any time
\* (main() never calls shutdown()), or after shutdown().  It cancels what is left.
Exit ==
    /\ pc \notin {"init", "exited"} /\ pc' = "exited"
    /\ task' = [s \in Sensors |-> IF task[s] = "none" THEN "none" ELSE "ended"]
    /\ obs' = [o \in Observations |-> "none"]
    /\ UNCHANGED <<reading, number, carried, fanVars>>

-----------------------------------------------------------------------------
Next ==
    \/ Build \/ Bind \/ Shutdown \/ CloseContext \/ Exit
    \/ \E s \in Sensors : BeginLoop(s) \/ Update(s) \/ EndLoop(s)
    \/ \E o \in Observations : Observe(o) \/ Render(o) \/ Deregister(o)
    \/ GetFan \/ \E r \in Announced : Get(r)
    \/ \E b \in Bodies : Put(b)

Spec == Init /\ [][Next]_vars

\* The event loop runs what is ready and its timers expire.  Nobody is obliged to
\* send a request, to give up an observation or to end the server.
Fairness ==
    /\ WF_vars(Bind) /\ WF_vars(CloseContext)
    /\ \A s \in Sensors : WF_vars(BeginLoop(s)) /\ WF_vars(Update(s)) /\ WF_vars(EndLoop(s))
    /\ \A o \in Observations : WF_vars(Render(o))

FairSpec == Spec /\ Fairness

-----------------------------------------------------------------------------
(* Properties. *)

\* Every variable keeps its type; the fan is ON or OFF whatever it is asked for.
TypeOK ==
    /\ pc \in {"init", "binding", "failed", "serving", "closing", "closed", "exited"}
    /\ task \in [Sensors -> {"none", "new", "running", "cancelling", "ended"}]
    /\ reading \in [Sensors -> 0..MaxUpdates]
    /\ obs \in [Observations -> {"none", "idle", "triggered"}]
    /\ number \in [Observations -> 0..MaxUpdates] /\ carried \in [Observations -> 0..MaxUpdates]
    /\ fan \in {"ON", "OFF"}
    /\ answer \in [request : {"none", "GET", "PUT"}, code : Codes]

\* An observer for whom nothing is under way has been sent the current reading: no
\* update falls between two notifications, however they are coalesced.  Lines
\* 63-74.
QuietMeansCurrent ==
    \A o \in Observations : obs[o] = "idle" => carried[o] = reading[o[1]]

\* A later notification of an observation carries a later reading: when updates
\* come faster than notifications, a number is not spent on an old reading again.
NumbersFollowReadings ==
    [][\A o \in Observations :
         obs[o] # "none" /\ number'[o] > number[o] => carried'[o] > carried[o]]_vars

\* What each observer has been told, as long as it observes.
Views == [o \in Observations |-> IF obs[o] = "none" THEN -1 ELSE carried[o]]

Promise == INSTANCE ObservedState WITH
    Resources <- Sensors, Observers <- Observations, current <- reading, view <- Views

\* The server implements ObservedState: whatever is triggered, coalesced, ended or
\* registered again, each notification tells the reading of its moment (lines 63-74).
ImplementsObservedState == Promise!Spec

\* The context is only shut down when no update task can run into it any more
\* (lines 176-180), and a program that has ended leaves no task behind, also when
\* the port was taken (line 221).
NoTaskOutlivesContext ==
    pc \in {"closed", "exited"} => \A s \in Sensors : task[s] \in {"none", "ended"}

\* shutdown() returns, unless Ctrl-C ends it.
ShutdownReturns == pc = "closing" ~> pc \in {"closed", "exited"}

\* An observer is sent each reading or a later one, as long as its observation is
\* not ended: "Updates every 5 seconds and notifies all registered observers".
ObserversAreTold ==
    \A o \in Observations, n \in 0..MaxUpdates :
        (obs[o] # "none" /\ reading[o[1]] = n) ~>
            (carried[o] >= n \/ obs[o] = "none")

\* The test suite's "PUT /actuator/line1/fan with invalid state must return 4.00
\* Bad Request".
InvalidPutIsBadRequest == answer.request = "PUT" => answer.code \in {"2.04", "4.00"}

\* The README's "Serves 6 observable sensor endpoints at
\* /factory/line{1,2}/{temperature,vibration,power}", which main() logs too.
AnnouncedIsServed == answer.request = "GET" => answer.code = "2.05"
=============================================================================

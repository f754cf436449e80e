-------------------------- MODULE CoapServerProofs --------------------------
(* Theorems about CoapServer, for every set of sensors and clients and every *)
(* number of updates.                                                        *)
EXTENDS CoapServer, TLAPS

\* A triggered observation has an update ahead of it, a quiet one has none, and a
\* notification's number is at most the version it carries.
Notified ==
    \A o \in Observations :
        /\ obs[o] = "idle" => carried[o] = reading[o[1]]
        /\ obs[o] = "triggered" => carried[o] < reading[o[1]]
        /\ number[o] <= carried[o]

IInv == TypeOK /\ Notified

LEMMA IInvInit == Init => IInv
BY BoundsAssumption DEF Init, IInv, TypeOK, Notified, Codes, Observations

LEMMA IInvStep == IInv /\ [Next]_vars => IInv'
<1> SUFFICES ASSUME IInv, [Next]_vars PROVE IInv'
    OBVIOUS
<1>0. TypeOK /\ \A o \in Observations : o[1] \in Sensors
    BY DEF IInv, Observations
<1> USE BoundsAssumption DEF runVars, obsVars, fanVars
<1>1. CASE Build
    BY <1>0, <1>1 DEF Build, IInv, TypeOK, Notified
<1>2. CASE Bind
    BY <1>0, <1>2 DEF Bind, IInv, TypeOK, Notified
<1>3. CASE Shutdown
    BY <1>0, <1>3 DEF Shutdown, IInv, TypeOK, Notified
<1>4. CASE CloseContext
    BY <1>0, <1>4 DEF CloseContext, IInv, TypeOK, Notified
<1>5. CASE Exit
    BY <1>0, <1>5 DEF Exit, IInv, TypeOK, Notified
<1>6. ASSUME NEW s \in Sensors, BeginLoop(s) \/ EndLoop(s) PROVE IInv'
    BY <1>0, <1>6 DEF BeginLoop, EndLoop, IInv, TypeOK, Notified
<1>7. ASSUME NEW s \in Sensors, Update(s) PROVE IInv'
    <2>1. reading' \in [Sensors -> 0..MaxUpdates] /\ reading'[s] = reading[s] + 1
          /\ \A t \in Sensors : t # s => reading'[t] = reading[t]
        BY <1>0, <1>7 DEF Update, TypeOK
    <2>2. \A o \in Observations :
             obs'[o] = IF o[1] = s /\ obs[o] # "none" THEN "triggered" ELSE obs[o]
        BY <1>7 DEF Update
    <2>3. TypeOK'
        BY <1>0, <1>7, <2>1 DEF Update, TypeOK
    <2>4. ASSUME NEW o \in Observations
          PROVE  /\ obs'[o] = "idle" => carried[o] = reading'[o[1]]
                 /\ obs'[o] = "triggered" => carried[o] < reading'[o[1]]
        <3>1. carried[o] \in Nat /\ reading[s] \in Nat /\ obs[o] \in {"none", "idle", "triggered"}
            BY <1>0 DEF TypeOK
        <3> QED
            BY <1>0, <2>1, <2>2, <3>1 DEF IInv, Notified
    <2>5. number' = number /\ carried' = carried
        BY <1>7 DEF Update
    <2> QED
        BY <2>3, <2>4, <2>5 DEF IInv, Notified
<1>8. ASSUME NEW o \in Observations, Observe(o) PROVE IInv'
    <2>1. reading[o[1]] \in 0..MaxUpdates
        BY <1>0 DEF TypeOK
    <2>2. TypeOK'
        BY <1>0, <1>8, <2>1 DEF Observe, TypeOK
    <2>3. Notified'
        BY <1>0, <1>8, <2>1 DEF Observe, IInv, TypeOK, Notified
    <2> QED
        BY <2>2, <2>3 DEF IInv
<1>9. ASSUME NEW o \in Observations, Render(o) PROVE IInv'
    <2>1. /\ reading[o[1]] \in 0..MaxUpdates /\ number[o] \in Nat /\ carried[o] \in Nat
          /\ number[o] + 1 <= reading[o[1]]
        BY <1>0, <1>9 DEF Render, IInv, TypeOK, Notified
    <2>2. TypeOK'
        BY <1>0, <1>9, <2>1 DEF Render, TypeOK
    <2>3. Notified'
        BY <1>0, <1>9, <2>1 DEF Render, IInv, TypeOK, Notified
    <2> QED
        BY <2>2, <2>3 DEF IInv
<1>10. ASSUME NEW o \in Observations, Deregister(o) PROVE IInv'
    BY <1>0, <1>10 DEF Deregister, IInv, TypeOK, Notified
<1>11. ASSUME GetFan \/ \E r \in Announced : Get(r) PROVE IInv'
    BY <1>0, <1>11 DEF GetFan, Get, Codes, IInv, TypeOK, Notified
<1>12. ASSUME NEW b \in Bodies, Put(b) PROVE IInv'
    <2>1. fan' \in {"ON", "OFF"} /\ answer' \in [request : {"none", "GET", "PUT"}, code : Codes]
        BY <1>0, <1>12 DEF Put, Codes, Bodies, TypeOK
    <2> QED
        BY <1>0, <1>12, <2>1 DEF Put, IInv, TypeOK, Notified
<1>13. CASE UNCHANGED vars
    BY <1>0, <1>13 DEF vars, IInv, TypeOK, Notified
<1> QED
    BY <1>1, <1>2, <1>3, <1>4, <1>5, <1>6, <1>7, <1>8, <1>9, <1>10, <1>11, <1>12, <1>13 DEF Next

\* Type correctness; the fan is never in a state but ON and OFF.
THEOREM TypeCorrect == Spec => []TypeOK
<1>1. IInv => TypeOK
    BY DEF IInv
<1> QED
    BY <1>1, IInvInit, IInvStep, PTL DEF Spec

\* An observer for whom nothing is under way has been sent the current reading.
THEOREM NoUpdateIsMissed == Spec => []QuietMeansCurrent
<1>1. IInv => QuietMeansCurrent
    BY DEF IInv, Notified, QuietMeansCurrent
<1> QED
    BY <1>1, IInvInit, IInvStep, PTL DEF Spec

\* No Observe number is spent on a reading the observer has been sent before.
THEOREM NumbersInOrder == Spec => NumbersFollowReadings
<1> DEFINE A == \A o \in Observations :
                   obs[o] # "none" /\ number'[o] > number[o] => carried'[o] > carried[o]
<1>1. ASSUME IInv, [Next]_vars PROVE [A]_vars
    <2> SUFFICES ASSUME Next, NEW o \in Observations, obs[o] # "none", number'[o] > number[o]
                 PROVE  carried'[o] > carried[o]
        BY <1>1
    <2>0. /\ \A p \in Observations : number[p] \in Nat /\ carried[p] \in Nat
          /\ reading[o[1]] \in Nat
        BY <1>1, BoundsAssumption DEF IInv, TypeOK, Observations
    <2>1. ASSUME NEW p \in Observations, Render(p) PROVE carried'[o] > carried[o]
        <3>1. o = p
            BY <2>0, <2>1, <1>1 DEF Render, IInv, TypeOK
        <3> QED
            BY <1>1, <2>0, <2>1, <3>1 DEF Render, IInv, TypeOK, Notified
    <2>2. ASSUME NEW p \in Observations, Observe(p) PROVE FALSE
        BY <1>1, <2>0, <2>2 DEF Observe, IInv, TypeOK
    <2>3. ASSUME number' = number PROVE FALSE
        BY <2>0, <2>3
    <2> QED
        BY <2>1, <2>2, <2>3 DEF Next, Build, Bind, Shutdown, CloseContext, Exit, BeginLoop, Update,
           EndLoop, Deregister, Get, GetFan, Put, obsVars
<1>2. Spec => [][A]_vars
    BY <1>1, IInvInit, IInvStep, PTL DEF Spec
<1> QED
    BY <1>2 DEF NumbersFollowReadings

\* No update task outlives the context, or the program.
THEOREM TasksEndFirst == Spec => []NoTaskOutlivesContext
<1>1. Init => NoTaskOutlivesContext
    BY DEF Init, NoTaskOutlivesContext
<1>2. NoTaskOutlivesContext /\ [Next]_vars => NoTaskOutlivesContext'
    <2> SUFFICES ASSUME NoTaskOutlivesContext, [Next]_vars PROVE NoTaskOutlivesContext'
        OBVIOUS
    <2> USE DEF NoTaskOutlivesContext, runVars
    <2>1. CASE CloseContext
        BY <2>1 DEF CloseContext
    <2>2. CASE Exit
        BY <2>2 DEF Exit
    <2>3. CASE Build \/ Bind \/ Shutdown
        BY <2>3 DEF Build, Bind, Shutdown
    <2>4. ASSUME NEW s \in Sensors, BeginLoop(s) \/ EndLoop(s) PROVE NoTaskOutlivesContext'
        BY <2>4 DEF BeginLoop, EndLoop
    <2>5. CASE UNCHANGED <<pc, task>>
        BY <2>5
    <2> QED
        BY <2>1, <2>2, <2>3, <2>4, <2>5
           DEF Next, Update, Observe, Render, Deregister, Get, GetFan, Put, vars
<1> QED
    BY <1>1, <1>2, PTL DEF Spec

\* An observer's view changes only to the reading of the moment, or ends.
LEMMA StepTells == IInv /\ [Next]_vars => [Promise!Next]_<<reading, Views>>
<1> SUFFICES ASSUME IInv, [Next]_vars PROVE [Promise!Next]_<<reading, Views>>
    OBVIOUS
<1> USE DEF runVars, obsVars, fanVars
<1>0. /\ TypeOK /\ \A o \in Observations : o[1] \in Sensors /\ carried[o] \in Int
      /\ \A s \in Sensors : reading[s] \in Int
    BY BoundsAssumption DEF IInv, TypeOK, Observations
<1>1. ASSUME NEW s \in Sensors, Update(s) PROVE Promise!Next
    <2>1. Views' = Views
        <3>1. \A o \in Observations : obs'[o] = "none" <=> obs[o] = "none"
            BY <1>1, <1>0 DEF Update, TypeOK
        <3> QED
            BY <1>1, <3>1 DEF Update, Views
    <2>2. reading' = [reading EXCEPT ![s] = @ + 1]
        BY <1>1 DEF Update
    <2> QED
        BY <2>1, <2>2 DEF Promise!Next, Promise!Change
<1>2. ASSUME UNCHANGED reading,
             \A o \in Observations :
                 Views'[o] \in {Views[o], reading[o[1]], -1}
      PROVE  Promise!Next
    <2>1. \A o \in Observations : Views'[o] \in Int
        BY <1>0, <1>2 DEF Views, Observations
    <2>2. Views' \in [Observations -> Int]
        BY <2>1 DEF Views
    <2> QED
        BY <1>2, <2>2 DEF Promise!Next, Promise!Tell, Promise!Unobserved
<1>3. ASSUME NEW p \in Observations, Observe(p) \/ Render(p) PROVE Promise!Next
    <2>1. \A o \in Observations : Views'[o] \in {Views[o], reading[o[1]]}
        <3> SUFFICES ASSUME NEW o \in Observations PROVE Views'[o] \in {Views[o], reading[o[1]]}
            OBVIOUS
        <3>1. CASE o = p
            BY <1>0, <1>3, <3>1 DEF Observe, Render, Views, TypeOK
        <3>2. CASE o # p
            BY <1>0, <1>3, <3>2 DEF Observe, Render, Views, TypeOK
        <3> QED
            BY <3>1, <3>2
    <2>2. reading' = reading
        BY <1>3 DEF Observe, Render
    <2> QED
        BY <1>2, <2>1, <2>2
<1>4. ASSUME NEW p \in Observations, Deregister(p) PROVE Promise!Next
    <2>1. \A o \in Observations : Views'[o] \in {Views[o], -1}
        BY <1>0, <1>4 DEF Deregister, Views, TypeOK
    <2> QED
        BY <1>2, <1>4, <2>1 DEF Deregister
<1>5. CASE CloseContext \/ Exit
    <2>1. \A o \in Observations : Views'[o] = -1
        BY <1>5 DEF CloseContext, Exit, Views
    <2> QED
        BY <1>2, <1>5, <2>1 DEF CloseContext, Exit
<1>6. ASSUME UNCHANGED <<reading, obs, carried>> PROVE UNCHANGED <<reading, Views>>
    BY <1>6 DEF Views
<1> QED
    BY <1>1, <1>3, <1>4, <1>5, <1>6
       DEF Next, Build, Bind, Shutdown, BeginLoop, EndLoop, Get, GetFan, Put, vars

\* The server implements ObservedState: no observer is ever told a reading that is
\* not, at that moment, the sensor's own.
THEOREM Refinement == Spec => ImplementsObservedState
<1>1. Init => Promise!Init
    BY DEF Init, Promise!Init, Views, Promise!Unobserved
<1> QED
    BY <1>1, IInvInit, IInvStep, StepTells, PTL DEF Spec, ImplementsObservedState, Promise!Spec
=============================================================================

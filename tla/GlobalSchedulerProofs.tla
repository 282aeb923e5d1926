------------------------ MODULE GlobalSchedulerProofs ------------------------
(***************************************************************************)
(* The safety properties of GlobalScheduler, proved for any number of      *)
(* threads, releasers and fixtures.  Inv is inductive: it says what the    *)
(* holder of sharedMutex has done so far, and what a thread may conclude   *)
(* from the fact that no other call overlaps its own.                      *)
(***************************************************************************)
EXTENDS GlobalScheduler, TLAPS

USE GlobalAssumption

-----------------------------------------------------------------------------
\* created is set exactly when theScheduler points to a scheduler that is alive.
PointerHolds == (created <=> theScheduler # 0) /\ (created => theScheduler \in alive)

\* sharedMutex is held exactly in the middle of a creation or a release; created
\* and theScheduler agree but for what its holder has still to change.
MutexInv ==
  /\ \A t \in Clients : pc[t] \in {"store", "publish", "clear", "uncreate"} <=> sharedMutex = t
  /\ sharedMutex = None => PointerHolds
  /\ \A t \in Clients :
       /\ pc[t] = "store" => made \in alive /\ PointerHolds
       /\ pc[t] = "publish" => made \in alive /\ theScheduler = made
       /\ pc[t] = "clear" => (created <=> theScheduler # 0)
       /\ pc[t] = "uncreate" => theScheduler = 0

\* A get that no release overlaps: nobody is in a release, and once the get is
\* past its check, or its creation, created is set.
GetInv ==
  \A t \in Clients : pc[t] \in InGet /\ "release" \notin overlapped[t] =>
    /\ \A u \in Clients : pc[u] \notin InRelease
    /\ pc[t] = "deref" => created

\* A get that no other get overlaps and that has yet to store what it creates:
\* it alone creates, and it overwrites nullptr.
LoneGetInv ==
  \A t \in Clients : pc[t] \in {"create", "store"} /\ "get" \notin overlapped[t] =>
    /\ \A u \in Clients \ {t} : pc[u] \notin InGet
    /\ theScheduler = 0

\* A fixture goes through SetUp in order, and has asked for mocks before it gets
\* the scheduler.
ScriptInv ==
  \A t \in Clients :
    /\ script[t] # "none" => t \in Fixtures
    /\ script[t] = "mock" => pc[t] \in {"idle"} \cup InRelease
    /\ script[t] = "get" => pc[t] \in {"idle"} \cup InGet /\ defaultForTesting

\* A fixture in SetUp that no other call overlaps is alone, finds created reset
\* by its own release, and creates a mock.
FixtureInv ==
  \A t \in Clients : SettingUp(t) /\ overlapped[t] = {} =>
    /\ \A u \in Clients \ {t} : pc[u] = "idle"
    /\ pc[t] \in {"idle", "create"} => ~created
    /\ pc[t] = "store" => made \in mocks
    /\ pc[t] \in {"publish", "deref"} => theScheduler \in mocks

Inv == TypeOK /\ MutexInv /\ GetInv /\ LoneGetInv /\ ScriptInv /\ FixtureInv

-----------------------------------------------------------------------------
\* Initially no thread is in a call and nothing has been created.
LEMMA InitInv == Init => Inv
<1> SUFFICES ASSUME Init PROVE Inv
  OBVIOUS
<1>1. TypeOK
  <2>1. created \in BOOLEAN /\ defaultForTesting \in BOOLEAN
    BY DEF Init
  <2>2. theScheduler \in 0..made /\ calls \in 0..MaxCalls /\ made \in Nat
    BY DEF Init
  <2>. QED
    BY <2>1, <2>2 DEF Init, TypeOK
<1>2. MutexInv
  BY DEF Init, MutexInv, PointerHolds
<1>3. GetInv /\ ScriptInv /\ FixtureInv
  BY DEF Init, GetInv, ScriptInv, FixtureInv, SettingUp, InGet
<1>4. LoneGetInv
  BY DEF Init, LoneGetInv
<1>. QED
  BY <1>1, <1>2, <1>3, <1>4 DEF Inv

\* The beginning of a call changes the caller's label and script, and the
\* history of whoever is inside of a call.
LEMMA BeginEffect ==
  ASSUME Inv, NEW t \in Clients, NEW op \in {"get", "release"},
         NEW yes \in {"deref", "release"}, NEW no \in {"create", "idle"},
         Begin(t, op, yes, no)
  PROVE  /\ pc[t] = "idle" /\ calls' \in 0..MaxCalls
         /\ pc' = [pc EXCEPT ![t] = IF created THEN yes ELSE no]
         /\ overlapped' \in [Clients -> SUBSET {"get", "release"}]
         /\ "release" \notin overlapped'[t] => \A u \in Clients \ {t} : pc[u] \notin InRelease
         /\ "get" \notin overlapped'[t] => \A u \in Clients \ {t} : pc[u] \notin InGet
         /\ SettingUp(t) => overlapped[t] \subseteq overlapped'[t]
         /\ \A u \in Clients \ {t} :
              overlapped'[u] = IF Busy(u) THEN overlapped[u] \cup {op} ELSE overlapped[u]
         /\ UNCHANGED <<stateVars, got>>
<1>1. calls \in Nat /\ calls < MaxCalls /\ calls' = calls + 1
  BY DEF Begin, Inv, TypeOK
<1>2. Overlapping(t) \in SUBSET {"get", "release"}
  BY DEF Overlapping
<1>3. "release" \notin Overlapping(t) => \A u \in Clients \ {t} : pc[u] \notin InRelease
  BY DEF Overlapping
<1>4. "get" \notin Overlapping(t) => \A u \in Clients \ {t} : pc[u] \notin InGet
  BY DEF Overlapping
<1>5. /\ overlapped'[t] = Overlapping(t) \cup (IF SettingUp(t) THEN overlapped[t] ELSE {})
      /\ \A u \in Clients \ {t} :
           overlapped'[u] = IF Busy(u) THEN overlapped[u] \cup {op} ELSE overlapped[u]
  BY DEF Begin
<1>6. overlapped' \in [Clients -> SUBSET {"get", "release"}]
  BY <1>2 DEF Begin, Inv, TypeOK
<1>. QED
  BY <1>1, <1>3, <1>4, <1>5, <1>6 DEF Begin, Goto

\* Beginning a get preserves the invariant.
LEMMA GetStep ==
  ASSUME Inv, NEW t \in Clients, GetGlobalScheduler(t)
  PROVE  Inv'
<1>1. Begin(t, "get", "deref", "create") /\ script[t] # "mock" /\ script' = script
  BY DEF GetGlobalScheduler
<1>2. /\ pc[t] = "idle" /\ calls' \in 0..MaxCalls
      /\ pc' = [pc EXCEPT ![t] = IF created THEN "deref" ELSE "create"]
      /\ overlapped' \in [Clients -> SUBSET {"get", "release"}]
      /\ "release" \notin overlapped'[t] => \A u \in Clients \ {t} : pc[u] \notin InRelease
      /\ "get" \notin overlapped'[t] => \A u \in Clients \ {t} : pc[u] \notin InGet
      /\ SettingUp(t) => overlapped[t] \subseteq overlapped'[t]
      /\ \A u \in Clients \ {t} :
           overlapped'[u] = IF Busy(u) THEN overlapped[u] \cup {"get"} ELSE overlapped[u]
      /\ UNCHANGED <<stateVars, got>>
  BY <1>1, BeginEffect
<1>3. TypeOK'
  BY <1>1, <1>2 DEF Inv, TypeOK, stateVars, InGet
<1>4. MutexInv'
  BY <1>2 DEF Inv, TypeOK, MutexInv, PointerHolds, stateVars
<1>5. GetInv'
  BY <1>2 DEF Inv, TypeOK, GetInv, stateVars, InGet, InRelease, Busy
<1>6. ScriptInv'
  BY <1>1, <1>2 DEF Inv, TypeOK, ScriptInv, stateVars, InGet, InRelease
<1>7. FixtureInv'
  BY <1>1, <1>2 DEF Inv, TypeOK, FixtureInv, stateVars, InGet, InRelease, Busy, SettingUp
<1>8. LoneGetInv'
  BY <1>2 DEF Inv, TypeOK, LoneGetInv, MutexInv, PointerHolds, stateVars, InGet, Busy
<1>. QED
  BY <1>3, <1>4, <1>5, <1>6, <1>7, <1>8 DEF Inv

\* Beginning a release, alone or in SetUp or TearDown, preserves the invariant.
LEMMA ReleaseStep ==
  ASSUME Inv, NEW t \in Clients, Begin(t, "release", "release", "idle"),
         script[t] # "get", NEW s \in {"none", "mock", "use"},
         s = "mock" => t \in Fixtures, s = "use" => script[t] = "use",
         script' = [script EXCEPT ![t] = s]
  PROVE  Inv'
<1>2. /\ pc[t] = "idle" /\ calls' \in 0..MaxCalls
      /\ pc' = [pc EXCEPT ![t] = IF created THEN "release" ELSE "idle"]
      /\ overlapped' \in [Clients -> SUBSET {"get", "release"}]
      /\ "release" \notin overlapped'[t] => \A u \in Clients \ {t} : pc[u] \notin InRelease
      /\ "get" \notin overlapped'[t] => \A u \in Clients \ {t} : pc[u] \notin InGet
      /\ \A u \in Clients \ {t} :
           overlapped'[u] = IF Busy(u) THEN overlapped[u] \cup {"release"} ELSE overlapped[u]
      /\ UNCHANGED <<stateVars, got>>
  BY BeginEffect
<1>3. TypeOK'
  BY <1>2 DEF Inv, TypeOK, stateVars, InRelease
<1>4. MutexInv'
  BY <1>2 DEF Inv, TypeOK, MutexInv, PointerHolds, stateVars
<1>5. GetInv'
  BY <1>2 DEF Inv, TypeOK, GetInv, stateVars, InGet, InRelease, Busy
<1>6. ScriptInv'
  BY <1>2 DEF Inv, TypeOK, ScriptInv, stateVars, InGet, InRelease
<1>7. FixtureInv'
  BY <1>2 DEF Inv, TypeOK, FixtureInv, stateVars, InGet, InRelease, Busy, SettingUp
<1>8. LoneGetInv'
  BY <1>2 DEF Inv, TypeOK, LoneGetInv, MutexInv, PointerHolds, stateVars, InGet, Busy
<1>. QED
  BY <1>3, <1>4, <1>5, <1>6, <1>7, <1>8 DEF Inv

\* Constructing a scheduler preserves the invariant.
LEMMA CreateStep ==
  ASSUME Inv, NEW t \in Clients, Create(t)
  PROVE  Inv'
<1>1. /\ pc[t] = "create" /\ pc' = [pc EXCEPT ![t] = "store"]
      /\ sharedMutex = None /\ sharedMutex' = t
      /\ made' = made + 1 /\ alive' = alive \cup {made + 1}
      /\ mocks' = mocks \cup (IF defaultForTesting THEN {made + 1} ELSE {})
      /\ UNCHANGED <<created, theScheduler, defaultForTesting, script, got, overlapped, calls>>
  BY DEF Create, Goto
<1>2. TypeOK'
  BY <1>1 DEF Inv, TypeOK, InGet
<1>3. MutexInv'
  BY <1>1 DEF Inv, TypeOK, MutexInv, PointerHolds
<1>4. GetInv'
  BY <1>1 DEF Inv, TypeOK, GetInv, InGet, InRelease
<1>5. LoneGetInv'
  BY <1>1 DEF Inv, TypeOK, LoneGetInv, InGet
<1>6. ScriptInv'
  BY <1>1 DEF Inv, TypeOK, ScriptInv, InGet, InRelease
<1>7. ASSUME NEW u \in Clients, SettingUp(u), overlapped[u] = {}
      PROVE  u = t /\ made' \in mocks'
  <2>1. u = t
    BY <1>1, <1>7 DEF Inv, FixtureInv
  <2>2. defaultForTesting
    BY <1>1, <1>7, <2>1 DEF Inv, ScriptInv, SettingUp, InRelease
  <2>. QED
    BY <1>1, <2>1, <2>2
<1>8. FixtureInv'
  <2> SUFFICES ASSUME NEW u \in Clients, SettingUp(u)', overlapped'[u] = {}
               PROVE  /\ \A v \in Clients \ {u} : pc'[v] = "idle"
                      /\ pc'[u] = "store" /\ made' \in mocks'
    BY DEF FixtureInv
  <2>1. SettingUp(u) /\ overlapped[u] = {}
    BY <1>1 DEF SettingUp
  <2>. QED
    BY <1>1, <1>7, <2>1 DEF Inv, TypeOK, FixtureInv
<1>. QED
  BY <1>2, <1>3, <1>4, <1>5, <1>6, <1>8 DEF Inv

\* Storing the scheduler preserves the invariant.
LEMMA StoreSchedulerStep ==
  ASSUME Inv, NEW t \in Clients, StoreScheduler(t)
  PROVE  Inv'
<1>1. /\ pc[t] = "store" /\ pc' = [pc EXCEPT ![t] = "publish"] /\ theScheduler' = made
      /\ UNCHANGED <<created, sharedMutex, defaultForTesting, made, mocks, alive, script, got,
                     overlapped, calls>>
  BY DEF StoreScheduler, Goto
<1>2. TypeOK'
  BY <1>1 DEF Inv, TypeOK, InGet
<1>3. MutexInv'
  BY <1>1 DEF Inv, TypeOK, MutexInv, PointerHolds
<1>4. GetInv'
  BY <1>1 DEF Inv, TypeOK, GetInv, InGet, InRelease
<1>5. LoneGetInv'
  BY <1>1 DEF Inv, TypeOK, LoneGetInv, InGet
<1>6. ScriptInv'
  BY <1>1 DEF Inv, TypeOK, ScriptInv, InGet, InRelease
<1>7. FixtureInv'
  BY <1>1 DEF Inv, TypeOK, FixtureInv, SettingUp
<1>. QED
  BY <1>2, <1>3, <1>4, <1>5, <1>6, <1>7 DEF Inv

\* Setting created preserves the invariant.
LEMMA SetCreatedStep ==
  ASSUME Inv, NEW t \in Clients, SetCreated(t)
  PROVE  Inv'
<1>1. /\ pc[t] = "publish" /\ pc' = [pc EXCEPT ![t] = "deref"]
      /\ created' = TRUE /\ sharedMutex' = None
      /\ UNCHANGED <<theScheduler, defaultForTesting, made, mocks, alive, script, got,
                     overlapped, calls>>
  BY DEF SetCreated, Goto
<1>2. TypeOK'
  BY <1>1 DEF Inv, TypeOK, InGet
<1>3. MutexInv'
  BY <1>1 DEF Inv, TypeOK, MutexInv, PointerHolds
<1>4. GetInv'
  BY <1>1 DEF Inv, TypeOK, GetInv, InGet, InRelease
<1>5. LoneGetInv'
  BY <1>1 DEF Inv, TypeOK, LoneGetInv, InGet
<1>6. ScriptInv'
  BY <1>1 DEF Inv, TypeOK, ScriptInv, InGet, InRelease
<1>7. FixtureInv'
  BY <1>1 DEF Inv, TypeOK, FixtureInv, SettingUp
<1>. QED
  BY <1>2, <1>3, <1>4, <1>5, <1>6, <1>7 DEF Inv

\* The return of a get preserves the invariant.
LEMMA DerefStep ==
  ASSUME Inv, NEW t \in Clients, Deref(t)
  PROVE  Inv'
<1>1. /\ pc[t] = "deref" /\ pc' = [pc EXCEPT ![t] = "idle"]
      /\ got' = [got EXCEPT ![t] = theScheduler]
      /\ script' = [script EXCEPT ![t] = IF script[t] = "get" THEN "use" ELSE script[t]]
      /\ UNCHANGED <<stateVars, overlapped, calls>>
  BY DEF Deref, Goto
<1>2. TypeOK'
  BY <1>1 DEF Inv, TypeOK, stateVars
<1>3. MutexInv'
  BY <1>1 DEF Inv, TypeOK, MutexInv, PointerHolds, stateVars
<1>4. GetInv'
  BY <1>1 DEF Inv, TypeOK, GetInv, stateVars, InGet, InRelease
<1>5. ScriptInv'
  BY <1>1 DEF Inv, TypeOK, ScriptInv, stateVars, InGet, InRelease
<1>6. FixtureInv'
  BY <1>1 DEF Inv, TypeOK, ScriptInv, FixtureInv, stateVars, SettingUp, InRelease
<1>7. LoneGetInv'
  BY <1>1 DEF Inv, TypeOK, LoneGetInv, stateVars, InGet
<1>. QED
  BY <1>2, <1>3, <1>4, <1>5, <1>6, <1>7 DEF Inv

\* Deleting the scheduler preserves the invariant.
LEMMA DeleteStep ==
  ASSUME Inv, NEW t \in Clients, Delete(t)
  PROVE  Inv'
<1>1. /\ pc[t] = "release" /\ pc' = [pc EXCEPT ![t] = "clear"]
      /\ sharedMutex = None /\ sharedMutex' = t
      /\ alive' = alive \ {theScheduler}
      /\ UNCHANGED <<created, theScheduler, defaultForTesting, made, mocks, script, got,
                     overlapped, calls>>
  BY DEF Delete, Goto
<1>2. TypeOK'
  BY <1>1 DEF Inv, TypeOK, InRelease
<1>3. MutexInv'
  BY <1>1 DEF Inv, TypeOK, MutexInv, PointerHolds
<1>4. GetInv'
  BY <1>1 DEF Inv, TypeOK, GetInv, InGet, InRelease
<1>5. ScriptInv'
  BY <1>1 DEF Inv, TypeOK, ScriptInv, InGet, InRelease
<1>6. FixtureInv'
  BY <1>1 DEF Inv, TypeOK, FixtureInv, SettingUp
<1>7. LoneGetInv'
  BY <1>1 DEF Inv, TypeOK, LoneGetInv, InGet
<1>. QED
  BY <1>2, <1>3, <1>4, <1>5, <1>6, <1>7 DEF Inv

\* Clearing the pointer preserves the invariant.
LEMMA ClearPointerStep ==
  ASSUME Inv, NEW t \in Clients, ClearPointer(t)
  PROVE  Inv'
<1>1. /\ pc[t] = "clear" /\ pc' = [pc EXCEPT ![t] = "uncreate"] /\ theScheduler' = 0
      /\ UNCHANGED <<created, sharedMutex, defaultForTesting, made, mocks, alive, script, got,
                     overlapped, calls>>
  BY DEF ClearPointer, Goto
<1>2. TypeOK'
  BY <1>1 DEF Inv, TypeOK, InRelease
<1>3. MutexInv'
  BY <1>1 DEF Inv, TypeOK, MutexInv, PointerHolds
<1>4. GetInv'
  BY <1>1 DEF Inv, TypeOK, GetInv, InGet, InRelease
<1>5. ScriptInv'
  BY <1>1 DEF Inv, TypeOK, ScriptInv, InGet, InRelease
<1>6. FixtureInv'
  BY <1>1 DEF Inv, TypeOK, FixtureInv, SettingUp
<1>7. LoneGetInv'
  BY <1>1 DEF Inv, TypeOK, LoneGetInv, InGet
<1>. QED
  BY <1>2, <1>3, <1>4, <1>5, <1>6, <1>7 DEF Inv

\* The end of a release preserves the invariant.
LEMMA ClearCreatedStep ==
  ASSUME Inv, NEW t \in Clients, ClearCreated(t)
  PROVE  Inv'
<1>1. /\ pc[t] = "uncreate" /\ pc' = [pc EXCEPT ![t] = "idle"]
      /\ created' = FALSE /\ sharedMutex' = None
      /\ UNCHANGED <<theScheduler, defaultForTesting, made, mocks, alive, script, got,
                     overlapped, calls>>
  BY DEF ClearCreated, Goto
<1>2. TypeOK'
  BY <1>1 DEF Inv, TypeOK
<1>3. MutexInv'
  BY <1>1 DEF Inv, TypeOK, MutexInv, PointerHolds
<1>4. GetInv'
  BY <1>1 DEF Inv, TypeOK, GetInv, InGet, InRelease
<1>5. ScriptInv'
  BY <1>1 DEF Inv, TypeOK, ScriptInv, InGet, InRelease
<1>6. FixtureInv'
  BY <1>1 DEF Inv, TypeOK, FixtureInv, SettingUp
<1>7. LoneGetInv'
  BY <1>1 DEF Inv, TypeOK, LoneGetInv, InGet
<1>. QED
  BY <1>2, <1>3, <1>4, <1>5, <1>6, <1>7 DEF Inv

\* Asking for mocks preserves the invariant.
LEMMA SetMockedStep ==
  ASSUME Inv, NEW t \in Clients, SetGlobalSchedulerAsMocked(t)
  PROVE  Inv'
<1>1. /\ pc[t] = "idle" /\ script[t] = "mock"
      /\ defaultForTesting' = TRUE /\ script' = [script EXCEPT ![t] = "get"]
      /\ UNCHANGED <<created, theScheduler, sharedMutex, made, mocks, alive, pc, got,
                     overlapped, calls>>
  BY DEF SetGlobalSchedulerAsMocked
<1>2. TypeOK'
  BY <1>1 DEF Inv, TypeOK
<1>3. MutexInv'
  BY <1>1 DEF Inv, MutexInv, PointerHolds
<1>4. GetInv'
  BY <1>1 DEF Inv, GetInv
<1>5. ScriptInv'
  BY <1>1 DEF Inv, TypeOK, ScriptInv
<1>6. FixtureInv'
  BY <1>1 DEF Inv, TypeOK, FixtureInv, SettingUp
<1>7. LoneGetInv'
  BY <1>1 DEF Inv, TypeOK, LoneGetInv, InGet
<1>. QED
  BY <1>2, <1>3, <1>4, <1>5, <1>6, <1>7 DEF Inv

\* Every step preserves the invariant.
LEMMA NextInv == Inv /\ [Next]_vars => Inv'
<1> SUFFICES ASSUME Inv, [Next]_vars PROVE Inv'
  OBVIOUS
<1>1. ASSUME NEW t \in Clients, ReleaseGlobalScheduler(t) PROVE Inv'
  <2>1. script[t] = "none" /\ script' = [script EXCEPT ![t] = "none"]
    BY <1>1 DEF ReleaseGlobalScheduler, Inv, TypeOK, ScriptInv
  <2>. QED
    BY <1>1, <2>1, ReleaseStep DEF ReleaseGlobalScheduler
<1>2. ASSUME NEW t \in Clients, SetUp(t) PROVE Inv'
  BY <1>2, ReleaseStep DEF SetUp
<1>3. ASSUME NEW t \in Clients, TearDown(t) PROVE Inv'
  BY <1>3, ReleaseStep DEF TearDown
<1>4. CASE UNCHANGED vars
  <2>1. TypeOK' /\ MutexInv' /\ GetInv'
    BY <1>4 DEF vars, stateVars, Inv, TypeOK, MutexInv, PointerHolds, GetInv
  <2>2. ScriptInv' /\ FixtureInv'
    BY <1>4 DEF vars, stateVars, Inv, ScriptInv, FixtureInv, SettingUp
  <2>3. LoneGetInv'
    BY <1>4 DEF vars, stateVars, Inv, LoneGetInv
  <2>. QED
    BY <2>1, <2>2, <2>3 DEF Inv
<1>5. CASE AtRest
  BY <1>4, <1>5 DEF AtRest
<1>. QED
  BY <1>1, <1>2, <1>3, <1>4, <1>5, GetStep, CreateStep, StoreSchedulerStep, SetCreatedStep,
     DerefStep, DeleteStep, ClearPointerStep, ClearCreatedStep, SetMockedStep DEF Next

-----------------------------------------------------------------------------
\* The invariant holds in every reachable state.
THEOREM InvariantHolds == Spec => []Inv
<1>. QED
  BY InitInv, NextInv, PTL DEF Spec

\* Every variable of the global scheduler has its type, and theScheduler, the
\* mocks and the schedulers alive are among those created.
THEOREM GlobalTypeCorrect == Spec => []TypeOK
<1>1. Inv => TypeOK
  BY DEF Inv
<1>. QED
  BY <1>1, InvariantHolds, PTL

\* created tells the truth whenever sharedMutex is free, however many threads get,
\* release and mock the scheduler.
THEOREM CreatedTellsTheTruth == Spec => []CreatedIsTrue
<1>1. Inv => CreatedIsTrue
  BY DEF Inv, MutexInv, PointerHolds, CreatedIsTrue
<1>. QED
  BY <1>1, InvariantHolds, PTL

\* No scheduler is deleted twice: the unlocked check of releaseGlobalScheduler
\* lets two releases through, and the second finds nullptr or a newer scheduler.
THEOREM NoSchedulerDeletedTwice == Spec => NoDoubleDelete
<1>1. ASSUME Inv, [Next]_vars, NEW t \in Clients, pc[t] = "release", pc'[t] = "clear"
      PROVE  theScheduler \in alive \cup {0}
  <2>1. sharedMutex = None
    BY <1>1 DEF Next, vars, stateVars, Inv, TypeOK, Begin, Goto, GetGlobalScheduler, Create,
       StoreScheduler, SetCreated, Deref,
       ReleaseGlobalScheduler, Delete, ClearPointer, ClearCreated, SetUp,
       SetGlobalSchedulerAsMocked, TearDown, AtRest
  <2>. QED
    BY <1>1, <2>1 DEF Inv, TypeOK, MutexInv, PointerHolds
<1>2. Inv /\ [Next]_vars => [\A t \in Clients :
        pc[t] = "release" /\ pc'[t] = "clear" => theScheduler \in alive \cup {0}]_vars
  BY <1>1
<1>. QED
  BY <1>2, InvariantHolds, PTL DEF Spec, NoDoubleDelete

\* A thread leaves deref only by returning what it dereferences.
LEMMA OnlyDerefReturns ==
  ASSUME Inv, [Next]_vars, NEW t \in Clients, pc[t] = "deref", pc'[t] = "idle"
  PROVE  got'[t] = theScheduler /\ UNCHANGED stateVars
<1>1. Deref(t)
  BY DEF Next, vars, stateVars, Inv, TypeOK, Begin, Goto, GetGlobalScheduler, Create,
     StoreScheduler, SetCreated, Deref,
     ReleaseGlobalScheduler, Delete, ClearPointer, ClearCreated, SetUp,
     SetGlobalSchedulerAsMocked, TearDown, AtRest
<1>. QED
  BY <1>1 DEF Deref, Inv, TypeOK

\* A get that no release overlaps returns a scheduler that has not been deleted,
\* though it checks created and dereferences theScheduler without the lock.
THEOREM UndisturbedGetIsAlive == Spec => GetIsAlive
<1>1. ASSUME Inv, [Next]_vars, NEW t \in Clients,
             pc[t] = "deref", pc'[t] = "idle", "release" \notin overlapped[t]
      PROVE  got'[t] \in alive
  <2>1. created /\ \A u \in Clients : pc[u] \notin InRelease
    BY <1>1 DEF Inv, GetInv, InGet
  <2>2. \/ sharedMutex = None
        \/ \E u \in Clients : pc[u] \in {"store", "publish"}
    BY <1>1, <2>1 DEF Inv, TypeOK, MutexInv, InRelease
  <2>3. theScheduler \in alive
    BY <1>1, <2>1, <2>2 DEF Inv, MutexInv, PointerHolds
  <2>. QED
    BY <1>1, <2>3, OnlyDerefReturns
<1>2. Inv /\ [Next]_vars => [\A t \in Clients :
        pc[t] = "deref" /\ pc'[t] = "idle" /\ "release" \notin overlapped[t]
          => got'[t] \in alive]_vars
  BY <1>1
<1>. QED
  BY <1>2, InvariantHolds, PTL DEF Spec, GetIsAlive

\* A fixture whose SetUp no other call overlaps gets a mock.
THEOREM UndisturbedFixtureGetsMock == Spec => FixtureGetsMock
<1>1. ASSUME Inv, [Next]_vars, NEW t \in Clients, script[t] = "get",
             pc[t] = "deref", pc'[t] = "idle", overlapped[t] = {}
      PROVE  got'[t] \in mocks
  <2>1. theScheduler \in mocks
    BY <1>1 DEF Inv, FixtureInv, SettingUp
  <2>. QED
    BY <1>1, <2>1, OnlyDerefReturns
<1>2. Inv /\ [Next]_vars => [\A t \in Clients :
        script[t] = "get" /\ pc[t] = "deref" /\ pc'[t] = "idle" /\ overlapped[t] = {}
          => got'[t] \in mocks]_vars
  BY <1>1
<1>. QED
  BY <1>2, InvariantHolds, PTL DEF Spec, FixtureGetsMock

\* Only a race of creations loses a scheduler: a get that no other get overlaps
\* stores the scheduler it creates over nullptr.
THEOREM LoneCreationLeaksNothing == Spec => OnlyRacesLeak
<1>1. ASSUME Inv, NEW t \in Clients, pc[t] = "store", "get" \notin overlapped[t]
      PROVE  theScheduler \notin alive
  <2>1. theScheduler = 0
    BY <1>1 DEF Inv, LoneGetInv
  <2>. QED
    BY <2>1, <1>1 DEF Inv, TypeOK
<1>2. Inv => \A t \in Clients :
        pc[t] = "store" /\ pc'[t] = "publish" /\ "get" \notin overlapped[t]
          => theScheduler \notin alive
  BY <1>1
<1>. QED
  BY <1>2, InvariantHolds, PTL DEF OnlyRacesLeak

=============================================================================

--------------------------- MODULE GlobalScheduler ---------------------------
(***************************************************************************)
(* The process-wide scheduler (src/Helper.cpp): getGlobalScheduler creates *)
(* it on first use, after a check of created that sharedMutex does not     *)
(* cover, and releaseGlobalScheduler deletes it.  Test fixtures replace it *)
(* by a mock (InterfaceSchedulerMock.hpp).  Schedulers are numbered in the *)
(* order in which they are created; 0 is nullptr.  created and             *)
(* theScheduler are read without the lock: each access is a step.          *)
(***************************************************************************)
EXTENDS Naturals, FiniteSets

CONSTANTS
  Clients,    \* threads that get the scheduler
  Releasers,  \* those that may also release it
  Fixtures,   \* those that are test fixtures (SchedulerFixture)
  None,       \* no thread
  MaxCalls    \* bound: calls of the two functions in a behaviour

ASSUME GlobalAssumption ==
  /\ Releasers \subseteq Clients /\ Fixtures \subseteq Clients
  /\ None \notin Clients /\ MaxCalls \in Nat

VARIABLES
  created,       \* created
  theScheduler,  \* theScheduler
  sharedMutex,   \* its holder, kept while a scheduler is created or deleted
  defaultForTesting,  \* defaultForTesting
  made,          \* schedulers created so far
  mocks,         \* those createTestScheduler has created
  alive,         \* those not deleted
  pc,            \* where each thread is
  script,        \* script[t]: where fixture t is in SetUp and TearDown
  got,           \* the scheduler a thread's last get returned
  overlapped,    \* history: the calls of others that overlapped t's last call or SetUp
  calls          \* calls so far

stateVars == <<created, theScheduler, sharedMutex, defaultForTesting, made, mocks, alive>>
vars == <<stateVars, pc, script, got, overlapped, calls>>

Init ==
  /\ created = FALSE /\ theScheduler = 0 /\ sharedMutex = None
  /\ defaultForTesting = FALSE
  /\ made = 0 /\ mocks = {} /\ alive = {}
  /\ pc = [t \in Clients |-> "idle"]
  /\ script = [t \in Clients |-> "none"]
  /\ got = [t \in Clients |-> 0]
  /\ overlapped = [t \in Clients |-> {}]
  /\ calls = 0

Goto(t, label) == pc' = [pc EXCEPT ![t] = label]

\* Inside of getGlobalScheduler, of releaseGlobalScheduler, of SetUp.
InGet == {"create", "store", "publish", "deref"}
InRelease == {"release", "clear", "uncreate"}
SettingUp(t) == script[t] \in {"mock", "get"}
Busy(t) == pc[t] # "idle" \/ SettingUp(t)

\* The calls of other threads in progress.
Overlapping(t) == {op \in {"get", "release"} :
  \E u \in Clients \ {t} : pc[u] \in (IF op = "get" THEN InGet ELSE InRelease)}

\* The call of op by t and its unlocked check of created.
Begin(t, op, yes, no) ==
  /\ calls < MaxCalls
  /\ pc[t] = "idle"
  /\ calls' = calls + 1
  /\ Goto(t, IF created THEN yes ELSE no)
  /\ overlapped' = [u \in Clients |->
       IF u = t THEN Overlapping(t) \cup (IF SettingUp(t) THEN overlapped[t] ELSE {})
       ELSE IF Busy(u) THEN overlapped[u] \cup {op} ELSE overlapped[u]]
  /\ UNCHANGED <<stateVars, got>>

GetGlobalScheduler(t) ==
  /\ script[t] # "mock"
  /\ Begin(t, "get", "deref", "create")
  /\ UNCHANGED script

\* Mutant of Create: created is set before theScheduler is stored.
CreateAnnounced(t) ==
  /\ pc[t] = "create"
  /\ sharedMutex = None
  /\ sharedMutex' = t
  /\ made' = made + 1
  /\ mocks' = mocks \cup (IF defaultForTesting THEN {made'} ELSE {})
  /\ alive' = alive \cup {made'}
  /\ created' = TRUE
  /\ Goto(t, "store")
  /\ UNCHANGED <<theScheduler, defaultForTesting, script, got, overlapped, calls>>

\* createScheduler, which takes as long as it takes to construct a scheduler.
Create(t) ==
  /\ pc[t] = "create"
  /\ sharedMutex = None
  /\ sharedMutex' = t
  /\ made' = made + 1
  /\ mocks' = mocks \cup (IF defaultForTesting THEN {made'} ELSE {})
  /\ alive' = alive \cup {made'}
  /\ Goto(t, "store")
  /\ UNCHANGED <<created, theScheduler, defaultForTesting, script, got, overlapped, calls>>

StoreScheduler(t) ==
  /\ pc[t] = "store"
  /\ theScheduler' = made
  /\ Goto(t, "publish")
  /\ UNCHANGED <<created, sharedMutex, defaultForTesting, made, mocks, alive, script, got, overlapped, calls>>

\* Mutant of SetCreated: created is not set.
LeaveCreated(t) ==
  /\ pc[t] = "publish"
  /\ sharedMutex' = None
  /\ Goto(t, "deref")
  /\ UNCHANGED <<created, theScheduler, defaultForTesting, made, mocks, alive, script, got, overlapped, calls>>

SetCreated(t) ==
  /\ pc[t] = "publish"
  /\ created' = TRUE
  /\ sharedMutex' = None
  /\ Goto(t, "deref")
  /\ UNCHANGED <<theScheduler, defaultForTesting, made, mocks, alive, script, got, overlapped, calls>>

\* return *theScheduler, again without the lock.
Deref(t) ==
  /\ pc[t] = "deref"
  /\ got' = [got EXCEPT ![t] = theScheduler]
  /\ script' = [script EXCEPT ![t] = IF @ = "get" THEN "use" ELSE @]
  /\ Goto(t, "idle")
  /\ UNCHANGED <<stateVars, overlapped, calls>>

ReleaseGlobalScheduler(t) ==
  /\ t \in Releasers \ Fixtures
  /\ Begin(t, "release", "release", "idle")
  /\ UNCHANGED script

\* The deletion takes as long as the destructors of the pool.
Delete(t) ==
  /\ pc[t] = "release"
  /\ sharedMutex = None
  /\ sharedMutex' = t
  /\ alive' = alive \ {theScheduler}
  /\ Goto(t, "clear")
  /\ UNCHANGED <<created, theScheduler, defaultForTesting, made, mocks, script, got, overlapped, calls>>

\* Mutant of ClearPointer: theScheduler keeps pointing to the deleted scheduler.
KeepPointer(t) ==
  /\ pc[t] = "clear"
  /\ Goto(t, "uncreate")
  /\ UNCHANGED <<stateVars, script, got, overlapped, calls>>

ClearPointer(t) ==
  /\ pc[t] = "clear"
  /\ theScheduler' = 0
  /\ Goto(t, "uncreate")
  /\ UNCHANGED <<created, sharedMutex, defaultForTesting, made, mocks, alive, script, got, overlapped, calls>>

\* Mutant of ClearCreated: created is not reset.
KeepCreated(t) ==
  /\ pc[t] = "uncreate"
  /\ sharedMutex' = None
  /\ Goto(t, "idle")
  /\ UNCHANGED <<created, theScheduler, defaultForTesting, made, mocks, alive, script, got, overlapped, calls>>

ClearCreated(t) ==
  /\ pc[t] = "uncreate"
  /\ created' = FALSE
  /\ sharedMutex' = None
  /\ Goto(t, "idle")
  /\ UNCHANGED <<theScheduler, defaultForTesting, made, mocks, alive, script, got, overlapped, calls>>

(***************************************************************************)
(* SchedulerFixture: SetUp releases the scheduler, asks for mocks and gets *)
(* a new one, which it casts to a mock; TearDown releases it.              *)
(***************************************************************************)
SetUp(t) ==
  /\ t \in Fixtures /\ script[t] = "none"
  /\ Begin(t, "release", "release", "idle")
  /\ script' = [script EXCEPT ![t] = "mock"]

SetGlobalSchedulerAsMocked(t) ==
  /\ pc[t] = "idle" /\ script[t] = "mock"
  /\ defaultForTesting' = TRUE
  /\ script' = [script EXCEPT ![t] = "get"]
  /\ UNCHANGED <<created, theScheduler, sharedMutex, made, mocks, alive, pc, got, overlapped, calls>>

TearDown(t) ==
  /\ script[t] = "use"
  /\ Begin(t, "release", "release", "idle")
  /\ script' = [script EXCEPT ![t] = "none"]

\* Every call has returned.
AtRest ==
  /\ calls = MaxCalls
  /\ \A t \in Clients : pc[t] = "idle"
  /\ UNCHANGED vars

Next ==
  \/ \E t \in Clients :
       \/ GetGlobalScheduler(t) \/ Create(t) \/ StoreScheduler(t) \/ SetCreated(t) \/ Deref(t)
       \/ ReleaseGlobalScheduler(t) \/ Delete(t) \/ ClearPointer(t) \/ ClearCreated(t)
       \/ SetUp(t) \/ SetGlobalSchedulerAsMocked(t) \/ TearDown(t)
  \/ AtRest

Spec == Init /\ [][Next]_vars

-----------------------------------------------------------------------------
\* Every variable has its type.
TypeOK ==
  /\ created \in BOOLEAN
  /\ defaultForTesting \in BOOLEAN
  /\ made \in Nat /\ calls \in 0..MaxCalls
  /\ theScheduler \in 0..made /\ alive \subseteq 1..made /\ mocks \subseteq 1..made
  /\ sharedMutex \in Clients \cup {None}
  /\ pc \in [Clients -> {"idle"} \cup InGet \cup InRelease]
  /\ script \in [Clients -> {"none", "mock", "get", "use"}]
  /\ overlapped \in [Clients -> SUBSET {"get", "release"}]
  /\ got \in [Clients -> 0..made]

\* No scheduler is deleted twice: when two releases have both seen created,
\* the second finds nullptr or a scheduler created since.
NoDoubleDelete ==
  [][\A t \in Clients :
       pc[t] = "release" /\ pc'[t] = "clear" => theScheduler \in alive \cup {0}]_vars

\* created tells the truth to whoever holds sharedMutex: it is set exactly
\* when theScheduler points to a scheduler that has not been deleted.
CreatedIsTrue ==
  sharedMutex = None => (created <=> theScheduler # 0) /\ (created => theScheduler \in alive)

\* getGlobalScheduler dereferences theScheduler without the lock, after a check of
\* created, while others create: as long as no release overlaps the call it
\* returns a scheduler that has not been deleted.
GetIsAlive ==
  [][\A t \in Clients :
       pc[t] = "deref" /\ pc'[t] = "idle" /\ "release" \notin overlapped[t] => got'[t] \in alive]_vars

\* A fixture that no other call overlaps gets a mock, as its dynamic_cast
\* requires, whatever was created, released or left behind before.
FixtureGetsMock ==
  [][\A t \in Clients :
       script[t] = "get" /\ pc[t] = "deref" /\ pc'[t] = "idle" /\ overlapped[t] = {}
         => got'[t] \in mocks]_vars

\* Only a race of creations loses a scheduler: one that is still alive is never
\* overwritten in theScheduler by a get that no other get overlaps, whatever
\* releases go on and whenever created was read.
OnlyRacesLeak ==
  [][\A t \in Clients :
       pc[t] = "store" /\ pc'[t] = "publish" /\ "get" \notin overlapped[t]
         => theScheduler \notin alive]_vars

-----------------------------------------------------------------------------
(* What the documentation says and the code does not do. *)

\* Helper.hpp: "singleton object is only created on first call".
OnlyOneScheduler == Cardinality(alive) <= 1

=============================================================================

--------------------------- MODULE LauncherProofs ---------------------------
(***************************************************************************)
(* Theorems about the Launcher module, for every number of visitors,       *)
(* launches and restarts and every cap: the slots are as many as the       *)
(* launches that hold one, and the reaper takes nobody's machine.          *)
(***************************************************************************)
EXTENDS Launcher, FiniteSetTheorems, TLAPS

-----------------------------------------------------------------------------
(* Types.                                                                  *)

RequestsOK ==
    /\ req \in [Launches -> {"none", "read", "post", "boot", "drop", "over"}]
    /\ from \in [Launches -> Visitors]

FundedOK == funded \in [Launches -> BOOLEAN]

SetsOK ==
    /\ sessions \subseteq Launches /\ ending \subseteq Launches /\ proxying \subseteq Launches
    /\ old \subseteq Launches /\ listed \subseteq Launches /\ doomed \subseteq Launches
    /\ leaked \subseteq Launches /\ unlisted \subseteq Launches

ActiveOK == active \in [Visitors -> 0..FundedPerVisitor]
RecentOK == recent \in [Visitors -> 0..PerHour]

MachinesOK ==
    /\ machine \in [Launches -> {"none", "up", "dud", "gone"}]
    /\ reaper \in {"asleep", "listing", "killing"}
    /\ restarts \in 0..MaxRestarts

TypeInv == RequestsOK /\ FundedOK /\ SetsOK /\ ActiveOK /\ RecentOK /\ MachinesOK

LEMMA TypeParts == TypeOK <=> TypeInv
BY DEF TypeOK, TypeInv, RequestsOK, FundedOK, SetsOK, ActiveOK, RecentOK, MachinesOK

\* Sets of launches can be counted.
LEMMA LaunchesFinite ==
    \A S \in SUBSET Launches : IsFiniteSet(S) /\ Cardinality(S) \in Nat
<1>1. IsFiniteSet(Launches)
      BY LauncherAssumption, FS_Interval DEF LauncherAssumption, Launches
<1> QED BY <1>1, FS_Subset, FS_CardinalityType

LEMMA FundedFinite ==
    ASSUME NEW S \in SUBSET Launches, NEW v
    PROVE  IsFiniteSet(FundedBy(S, v)) /\ Cardinality(FundedBy(S, v)) \in Nat
<1>1. FundedBy(S, v) \in SUBSET Launches
      BY DEF FundedBy
<1> QED BY <1>1, LaunchesFinite

\* Giving slots back keeps the counts within the cap.
LEMMA ReleasedType ==
    ASSUME ActiveOK, NEW S \in SUBSET Launches
    PROVE  Released(S) \in [Visitors -> 0..FundedPerVisitor]
<1> SUFFICES ASSUME NEW v \in Visitors
             PROVE  Less(active[v], Cardinality(FundedBy(S, v))) \in 0..FundedPerVisitor
    BY DEF Released
<1>1. Cardinality(FundedBy(S, v)) \in Nat
      BY FundedFinite
<1>2. active[v] \in 0..FundedPerVisitor /\ FundedPerVisitor \in Nat
      BY LauncherAssumption DEF ActiveOK, LauncherAssumption
<1> QED BY <1>1, <1>2 DEF Less

LEMMA TypeInit == Init => TypeInv
<1> SUFFICES ASSUME Init
             PROVE  TypeInv
    OBVIOUS
<1>1. {MaxLaunches, MaxSessions, PerHour, FundedPerVisitor, MaxRestarts} \subseteq Nat
      BY LauncherAssumption DEF LauncherAssumption
<1>2. RequestsOK
      BY DEF Init, RequestsOK
<1>3. FundedOK
      BY DEF Init, FundedOK
<1>4. SetsOK
      BY DEF Init, SetsOK
<1>5. ActiveOK /\ RecentOK
      BY <1>1 DEF Init, ActiveOK, RecentOK
<1>6. MachinesOK
      BY <1>1 DEF Init, MachinesOK
<1> QED BY <1>2, <1>3, <1>4, <1>5, <1>6 DEF TypeInv

\* The steps of a launch keep the types.
LEMMA TypeCreate ==
    ASSUME TypeInv, NEW i \in Launches, Create(i)
    PROVE  TypeInv'
<1>1. RequestsOK /\ FundedOK /\ SetsOK /\ ActiveOK /\ RecentOK /\ MachinesOK
      BY DEF TypeInv
<1> USE DEF Create
<1>2. RequestsOK'
      BY <1>1 DEF Ask, TooMany, Refused, OwnKey, Reserve, Starts, Answered, NotStarted,
                  Raises, Healthy, BootFails, Dropped, To, requests, RequestsOK
<1>3. FundedOK'
  <2>1. CASE Reserve(i)
        BY <2>1, <1>1 DEF Reserve, FundedOK
  <2>2. CASE ~Reserve(i)
    <3>1. UNCHANGED funded
          BY <2>2 DEF Ask, TooMany, Refused, OwnKey, Starts, Answered, NotStarted,
                      Raises, Healthy, BootFails, Dropped, requests
    <3> QED BY <3>1, <1>1 DEF FundedOK
  <2> QED BY <2>1, <2>2
<1>4. SetsOK'
  <2>1. CASE Ask(i) \/ TooMany(i) \/ Refused(i) \/ OwnKey(i) \/ Reserve(i) \/ Answered(i)
             \/ NotStarted(i) \/ BootFails(i)
        BY <2>1, <1>1 DEF Ask, TooMany, Refused, OwnKey, Reserve, Answered, NotStarted,
                          BootFails, memory, machines, reaping, history, SetsOK
  <2>2. CASE Starts(i)
        BY <2>2, <1>1 DEF Starts, memory, reaping, SetsOK
  <2>3. CASE Raises(i)
        BY <2>3, <1>1 DEF Raises, memory, machines, reaping, SetsOK
  <2>4. CASE Healthy(i)
        BY <2>4, <1>1 DEF Healthy, machines, reaping, history, SetsOK
  <2>5. CASE Dropped(i)
        BY <2>5, <1>1 DEF Dropped, Destroyed, machines, reaping, history, SetsOK
  <2> QED BY <2>1, <2>2, <2>3, <2>4, <2>5
<1>5. ActiveOK'
  <2>1. CASE Reserve(i)
    <3>1. from[i] \in Visitors /\ FundedPerVisitor \in Nat
          BY <1>1, LauncherAssumption DEF RequestsOK, LauncherAssumption
    <3>2. active[from[i]] + 1 \in 0..FundedPerVisitor
          BY <3>1, <2>1, <1>1 DEF Reserve, ActiveOK
    <3> QED BY <3>1, <3>2, <2>1, <1>1 DEF Reserve, ActiveOK
  <2>2. CASE NotStarted(i) \/ Dropped(i)
    <3>1. active' = Released({i})
          BY <2>2 DEF NotStarted, Dropped
    <3> QED BY <3>1, <1>1, ReleasedType DEF ActiveOK
  <2>3. CASE ~Reserve(i) /\ ~NotStarted(i) /\ ~Dropped(i)
    <3>1. UNCHANGED active
          BY <2>3 DEF Ask, TooMany, Refused, OwnKey, Starts, Answered,
                      Raises, Healthy, BootFails, memory
    <3> QED BY <3>1, <1>1 DEF ActiveOK
  <2> QED BY <2>1, <2>2, <2>3
<1>6. RecentOK'
  <2>1. CASE Ask(i)
    <3>1. from[i] \in Visitors /\ PerHour \in Nat
          BY <1>1, LauncherAssumption DEF RequestsOK, LauncherAssumption
    <3>2. recent[from[i]] + 1 \in 0..PerHour
          BY <3>1, <2>1, <1>1 DEF Ask, RecentOK
    <3> QED BY <3>1, <3>2, <2>1, <1>1 DEF Ask, RecentOK
  <2>2. CASE ~Ask(i)
    <3>1. UNCHANGED recent
          BY <2>2 DEF TooMany, Refused, OwnKey, Reserve, Starts, Answered, NotStarted,
                      Raises, Healthy, BootFails, Dropped, memory
    <3> QED BY <3>1, <1>1 DEF RecentOK
  <2> QED BY <2>1, <2>2
<1>7. MachinesOK'
  <2>1. UNCHANGED <<reaper, restarts>>
        BY DEF Ask, TooMany, Refused, OwnKey, Reserve, Starts, Answered, NotStarted,
               Raises, Healthy, BootFails, Dropped, reaping
  <2>2. machine' \in [Launches -> {"none", "up", "dud", "gone"}]
    <3>1. CASE Starts(i)
          BY <3>1, <1>1 DEF Starts, MachinesOK
    <3>2. CASE Dropped(i)
          BY <3>2, <1>1 DEF Dropped, Destroyed, machines, MachinesOK
    <3>3. CASE ~Starts(i) /\ ~Dropped(i)
      <4>1. UNCHANGED machine
            BY <3>3 DEF Ask, TooMany, Refused, OwnKey, Reserve, Answered, NotStarted,
                        Raises, Healthy, BootFails, machines
      <4> QED BY <4>1, <1>1 DEF MachinesOK
    <3> QED BY <3>1, <3>2, <3>3
  <2> QED BY <2>1, <2>2, <1>1 DEF MachinesOK
<1> QED BY <1>2, <1>3, <1>4, <1>5, <1>6, <1>7 DEF TypeInv

\* So does the hour.
LEMMA TypeHour ==
    ASSUME TypeInv, NEW v \in Visitors, HourPasses(v)
    PROVE  TypeInv'
<1>1. UNCHANGED <<req, from, funded, sessions, active, ending, proxying, machine,
                  old, reaper, listed, doomed, restarts, leaked, unlisted>>
      BY DEF HourPasses, requests, machines, reaping, history
<1>2. PerHour \in Nat /\ recent[v] - 1 \in 0..PerHour
      BY LauncherAssumption DEF LauncherAssumption, TypeInv, RecentOK, HourPasses
<1>3. RecentOK'
      BY <1>2 DEF TypeInv, RecentOK, HourPasses
<1>4. RequestsOK' /\ SetsOK' /\ ActiveOK' /\ MachinesOK'
      BY <1>1 DEF TypeInv, RequestsOK, SetsOK, ActiveOK, MachinesOK
<1>5. FundedOK'
      BY <1>1 DEF TypeInv, FundedOK
<1> QED BY <1>3, <1>4, <1>5 DEF TypeInv

\* So do the steps of a session and of a machine.
LEMMA TypeUse ==
    ASSUME TypeInv, NEW i \in Launches, Use(i) \/ Exits(i) \/ Ages(i)
    PROVE  TypeInv'
<1>1. RequestsOK /\ FundedOK /\ SetsOK /\ ActiveOK /\ RecentOK /\ MachinesOK
      BY DEF TypeInv
<1> USE DEF Use
<1>2. UNCHANGED <<req, from, funded, reaper, restarts>>
      BY DEF Delete, Deleted, Forward, Relayed, Expired, Exits, Ages, requests, reaping
<1>3. RequestsOK' /\ FundedOK'
      BY <1>1, <1>2 DEF RequestsOK, FundedOK
<1>4. SetsOK'
  <2>1. CASE Delete(i) \/ Forward(i) \/ Relayed(i) \/ Expired(i)
        BY <2>1, <1>1 DEF Delete, Forward, Relayed, Expired, machines, reaping,
                          history, SetsOK
  <2>2. CASE Deleted(i)
        BY <2>2, <1>1 DEF Deleted, Destroyed, machines, reaping, history, SetsOK
  <2>3. CASE Exits(i) \/ Ages(i)
        BY <2>3, <1>1 DEF Exits, Ages, memory, reaping, history, SetsOK
  <2> QED BY <2>1, <2>2, <2>3
<1>5. ActiveOK'
  <2>1. CASE Delete(i) \/ Expired(i)
    <3>1. PICK S \in SUBSET Launches : active' = Released(S)
          BY <2>1 DEF Delete, Expired
    <3> QED BY <3>1, <1>1, ReleasedType DEF ActiveOK
  <2>2. CASE ~Delete(i) /\ ~Expired(i)
    <3>1. UNCHANGED active
          BY <2>2 DEF Deleted, Forward, Relayed, Exits, Ages, memory
    <3> QED BY <3>1, <1>1 DEF ActiveOK
  <2> QED BY <2>1, <2>2
<1>6. RecentOK'
      BY <1>1 DEF Delete, Deleted, Forward, Relayed, Expired, Exits, Ages, memory, RecentOK
<1>7. MachinesOK'
  <2>1. CASE Deleted(i) \/ Exits(i)
        BY <2>1, <1>1, <1>2 DEF Deleted, Exits, Destroyed, machines, MachinesOK
  <2>2. CASE ~Deleted(i) /\ ~Exits(i)
    <3>1. UNCHANGED machine
          BY <2>2 DEF Delete, Forward, Relayed, Expired, Ages, machines
    <3> QED BY <3>1, <1>1, <1>2 DEF MachinesOK
  <2> QED BY <2>1, <2>2
<1> QED BY <1>3, <1>4, <1>5, <1>6, <1>7 DEF TypeInv

\* And those of the reaper, and a restart.
LEMMA TypeReap ==
    ASSUME TypeInv, Reap \/ Restart
    PROVE  TypeInv'
<1>1. RequestsOK /\ FundedOK /\ SetsOK /\ ActiveOK /\ RecentOK /\ MachinesOK
      BY DEF TypeInv
<1>2. {PerHour, FundedPerVisitor, MaxRestarts} \subseteq Nat
      BY LauncherAssumption DEF LauncherAssumption
<1>3. CASE Restart
  <2>1. RequestsOK'
        BY <1>1, <1>3 DEF Restart, RequestsOK
  <2>2. FundedOK'
        BY <1>1, <1>3 DEF Restart, FundedOK
  <2>3. SetsOK'
        BY <1>1, <1>3 DEF Restart, machines, SetsOK
  <2>4. ActiveOK' /\ RecentOK'
        BY <1>2, <1>3 DEF Restart, ActiveOK, RecentOK
  <2>5. MachinesOK'
        BY <1>1, <1>2, <1>3 DEF Restart, machines, MachinesOK
  <2> QED BY <2>1, <2>2, <2>3, <2>4, <2>5 DEF TypeInv
<1>4. CASE Reap
  <2>1. UNCHANGED <<req, from, funded, recent, restarts>>
        BY <1>4 DEF Reap, List, ListFails, Sweep, Rests, Kill, requests, memory
  <2>2. RequestsOK' /\ FundedOK' /\ RecentOK'
        BY <1>1, <2>1 DEF RequestsOK, FundedOK, RecentOK
  <2>3. CASE Sweep
    <3>1. active' = Released(sessions \ listed) /\ sessions \ listed \in SUBSET Launches
          BY <1>1, <2>3 DEF Sweep, SetsOK
    <3>2. ActiveOK'
          BY <3>1, <1>1, ReleasedType DEF ActiveOK
    <3>3. SetsOK'
          BY <1>1, <2>3 DEF Sweep, Orphans, machines, SetsOK
    <3>4. MachinesOK'
          BY <1>1, <2>1, <2>3 DEF Sweep, machines, MachinesOK
    <3> QED BY <2>2, <3>2, <3>3, <3>4 DEF TypeInv
  <2>4. CASE \E i \in Launches : Kill(i)
    <3>1. PICK i \in Launches : Kill(i)
          BY <2>4
    <3>2. ActiveOK'
          BY <1>1, <3>1 DEF Kill, memory, ActiveOK
    <3>3. SetsOK'
          BY <1>1, <3>1 DEF Kill, Destroyed, memory, machines, history, SetsOK
    <3>4. MachinesOK'
          BY <1>1, <2>1, <3>1 DEF Kill, Destroyed, machines, MachinesOK
    <3> QED BY <2>2, <3>2, <3>3, <3>4 DEF TypeInv
  <2>5. CASE List \/ ListFails \/ Rests
    <3>1. ActiveOK'
          BY <1>1, <2>5 DEF List, ListFails, Rests, memory, ActiveOK
    <3>2. SetsOK'
          BY <1>1, <2>5 DEF List, ListFails, Rests, memory, machines, history, SetsOK
    <3>3. MachinesOK'
          BY <1>1, <2>1, <2>5 DEF List, ListFails, Rests, machines, MachinesOK
    <3> QED BY <2>2, <3>1, <3>2, <3>3 DEF TypeInv
  <2> QED BY <1>4, <2>3, <2>4, <2>5 DEF Reap
<1> QED BY <1>3, <1>4

LEMMA Unchanged ==
    ASSUME UNCHANGED vars
    PROVE  UNCHANGED <<req, from, funded, sessions, active, recent, ending, proxying, machine,
                       old, reaper, listed, doomed, restarts, leaked, unlisted>>
BY DEF vars, requests, memory, machines, reaping, history

LEMMA TypeNext ==
    ASSUME TypeInv, [Next]_vars
    PROVE  TypeInv'
<1>1. CASE UNCHANGED vars
  <2>1. RequestsOK' /\ SetsOK' /\ ActiveOK' /\ RecentOK' /\ MachinesOK'
        BY <1>1, Unchanged DEF TypeInv, RequestsOK, SetsOK, ActiveOK, RecentOK, MachinesOK
  <2>2. FundedOK'
        BY <1>1, Unchanged DEF TypeInv, FundedOK
  <2> QED BY <2>1, <2>2 DEF TypeInv
<1> QED BY <1>1, TypeCreate, TypeUse, TypeHour, TypeReap DEF Next

LEMMA TypeInvHolds == Spec => []TypeInv
<1>1. TypeInv /\ [Next]_vars => TypeInv'
      BY TypeNext
<1> QED BY TypeInit, <1>1, PTL DEF Spec

\* Every variable keeps its type: a visitor never holds more slots than he may
\* (launcher.py, create_session), nor more launches within the hour.
THEOREM TypeCorrect == Spec => []TypeOK
<1>1. TypeInv => TypeOK
      BY TypeParts
<1> QED BY TypeInvHolds, <1>1, PTL

-----------------------------------------------------------------------------
(* The slots.  SlotsAreHeld is not inductive: that giving one back takes one *)
(* holder away depends on where a launch can be.                             *)

\* A launch in a session, dead with its slot, grown old or marked by the reaper
\* is one whose request is over, in a session or dead; one that has not got as
\* far as the key is not funded.
Placed ==
    /\ \A i \in sessions \cup leaked \cup old \cup doomed : req[i] = "over"
    /\ sessions \cap leaked = {} /\ sessions \cap doomed = {}
    /\ \A i \in Launches : req[i] \in {"none", "read"} => ~funded[i]

LEMMA PlacedInit == Init => Placed
BY DEF Init, Placed

\* A request moves on and nothing else does.
LEMMA PlacedMoves ==
    ASSUME TypeInv, Placed, NEW i \in Launches, NEW r,
           req[i] # "over", req' = [req EXCEPT ![i] = r],
           r \in {"none", "read"} => req[i] \in {"none", "read"},
           UNCHANGED <<sessions, leaked, old, doomed, funded>>
    PROVE  Placed'
<1>1. req \in [Launches -> {"none", "read", "post", "boot", "drop", "over"}]
      BY DEF TypeInv, RequestsOK
<1>2. \A j \in Launches : j # i => req'[j] = req[j]
      BY <1>1
<1>3. req'[i] = r
      BY <1>1
<1>4. sessions \cup leaked \cup old \cup doomed \subseteq Launches \ {i}
      BY DEF TypeInv, SetsOK, Placed
<1>5. \A j \in Launches : req'[j] \in {"none", "read"} => ~funded[j]
  <2>1. \A j \in Launches : req'[j] \in {"none", "read"} => req[j] \in {"none", "read"}
        BY <1>2, <1>3
  <2> QED BY <2>1, Zenon DEF Placed
<1>6. \A j \in sessions \cup leaked \cup old \cup doomed : req'[j] = "over"
      BY <1>2, <1>4 DEF Placed
<1> QED BY <1>5, <1>6, Zenon DEF Placed

LEMMA PlacedCreate ==
    ASSUME TypeInv, Placed, NEW i \in Launches, Create(i)
    PROVE  Placed'
<1>1. /\ req \in [Launches -> {"none", "read", "post", "boot", "drop", "over"}]
      /\ funded \in [Launches -> BOOLEAN]
      BY DEF TypeInv, RequestsOK, FundedOK
<1>2. doomed' = doomed
      BY DEF Create, Ask, TooMany, Refused, OwnKey, Reserve, Starts, Answered, NotStarted,
             Raises, Healthy, BootFails, Dropped, reaping
<1>3. CASE Ask(i) \/ TooMany(i) \/ Refused(i) \/ OwnKey(i) \/ Answered(i)
           \/ NotStarted(i) \/ BootFails(i)
  <2>1. UNCHANGED <<sessions, leaked, old, funded>>
        BY <1>3 DEF Ask, TooMany, Refused, OwnKey, Answered, NotStarted, BootFails,
                    memory, machines, history
  <2>2. PICK r \in {"read", "post", "boot", "drop", "over"} :
            /\ req' = [req EXCEPT ![i] = r] /\ req[i] # "over"
            /\ r = "read" => req[i] = "none"
        BY <1>3 DEF Ask, TooMany, Refused, OwnKey, Answered, NotStarted, BootFails, To
  <2> QED BY <2>1, <2>2, <1>2, PlacedMoves
<1>4. CASE Reserve(i)
      BY <1>1, <1>2, <1>4 DEF Reserve, To, machines, history, Placed
<1>5. CASE Starts(i)
      BY <1>1, <1>2, <1>5 DEF Starts, requests, memory, Placed
<1>6. CASE Raises(i)
      BY <1>1, <1>2, <1>6 DEF Raises, To, memory, machines, Placed
<1>7. CASE Healthy(i)
      BY <1>1, <1>2, <1>7 DEF Healthy, To, machines, history, Placed
<1>8. CASE Dropped(i)
  <2>1. old' \subseteq old /\ UNCHANGED <<sessions, leaked, funded>>
        BY <1>8 DEF Dropped, Destroyed, machines, history
  <2>2. req[i] = "drop" /\ req' = [req EXCEPT ![i] = "over"]
        BY <1>8 DEF Dropped, To
  <2> QED BY <1>1, <1>2, <2>1, <2>2 DEF Placed
<1> QED BY <1>3, <1>4, <1>5, <1>6, <1>7, <1>8 DEF Create

LEMMA PlacedUse ==
    ASSUME TypeInv, Placed, NEW i \in Launches, Use(i) \/ Exits(i) \/ Ages(i)
    PROVE  Placed'
<1>1. CASE Use(i)
  <2>1. sessions' \subseteq sessions /\ old' \subseteq old
        /\ UNCHANGED <<req, funded, leaked, doomed>>
        BY <1>1 DEF Use, Delete, Deleted, Forward, Relayed, Expired, Destroyed,
                    requests, machines, reaping, history
  <2> QED BY <2>1 DEF Placed
<1>2. CASE Exits(i) \/ Ages(i)
  <2>1. /\ old' \subseteq old \cup {i} /\ (i \in old' => req[i] = "over" \/ i \in old)
        /\ UNCHANGED <<req, funded, leaked, doomed, sessions>>
        BY <1>2 DEF Exits, Ages, requests, memory, reaping, history
  <2> QED BY <2>1 DEF Placed
<1> QED BY <1>1, <1>2

LEMMA PlacedReap ==
    ASSUME TypeInv, Placed, Reap \/ Restart
    PROVE  Placed'
<1>1. CASE Restart
  <2>1. sessions' = {} /\ leaked' = {} /\ doomed' = {} /\ UNCHANGED <<old, funded>>
        BY <1>1 DEF Restart, machines
  <2>2. \A i \in Launches :
            /\ req'[i] = "none" \/ req'[i] = "over"
            /\ req'[i] = "none" => req[i] = "none"
            /\ req[i] = "over" => req'[i] = "over"
        BY <1>1 DEF Restart
  <2>3. \A i \in old : req'[i] = "over"
        BY <2>2 DEF Placed, TypeInv, SetsOK
  <2>4. \A i \in Launches : req'[i] \in {"none", "read"} => req[i] \in {"none", "read"}
        BY <2>2
  <2>5. \A i \in Launches : req'[i] \in {"none", "read"} => ~funded[i]
        BY <2>4, Zenon DEF Placed
  <2>6. funded' = funded
        BY <2>1
  <2>7. \A i \in Launches : req'[i] \in {"none", "read"} => ~funded'[i]
        BY <2>5, <2>6, Zenon
  <2>8. /\ \A i \in sessions' \cup leaked' \cup old' \cup doomed' : req'[i] = "over"
        /\ sessions' \cap leaked' = {} /\ sessions' \cap doomed' = {}
        BY <2>1, <2>3
  <2> QED BY <2>7, <2>8, Zenon DEF Placed
<1>2. CASE List \/ ListFails \/ Rests \/ \E j \in Launches : Kill(j)
  <2>1. /\ old' \subseteq old /\ doomed' \subseteq doomed
        /\ UNCHANGED <<req, funded, leaked, sessions>>
        BY <1>2 DEF List, ListFails, Rests, Kill, Destroyed, requests, memory, machines, history
  <2> QED BY <2>1 DEF Placed
<1>3. CASE Sweep
      BY <1>3 DEF Sweep, Orphans, requests, machines, Placed
<1> QED BY <1>1, <1>2, <1>3 DEF Reap

LEMMA PlacedNext ==
    ASSUME TypeInv, Placed, [Next]_vars
    PROVE  Placed'
<1>1. CASE UNCHANGED vars
      BY <1>1, Unchanged DEF Placed
<1>2. ASSUME NEW v \in Visitors, HourPasses(v)
      PROVE  Placed'
      BY <1>2 DEF HourPasses, requests, machines, reaping, history, Placed
<1> QED BY <1>1, <1>2, PlacedCreate, PlacedUse, PlacedReap DEF Next

\* Who holds a slot stays the same.
LEMMA SameHolders ==
    ASSUME SlotsAreHeld, UNCHANGED active,
           \A v \in Visitors : FundedBy(Holders, v)' = FundedBy(Holders, v)
    PROVE  SlotsAreHeld'
BY DEF SlotsAreHeld

\* The launches S, which hold slots, are over.
LEMMA ReleaseKeeps ==
    ASSUME TypeInv, SlotsAreHeld, NEW S \in SUBSET Holders,
           active' = Released(S), UNCHANGED <<from, funded>>, Holders' = Holders \ S
    PROVE  SlotsAreHeld'
<1> SUFFICES ASSUME NEW v \in Visitors
             PROVE  active'[v] = Cardinality(FundedBy(Holders, v)')
    BY DEF SlotsAreHeld
<1> DEFINE H == FundedBy(Holders, v)
           R == FundedBy(S, v)
<1>1. Holders \in SUBSET Launches /\ S \in SUBSET Launches
      BY DEF TypeInv, SetsOK, Holders
<1>2. IsFiniteSet(H) /\ Cardinality(H) \in Nat /\ Cardinality(R) \in Nat
      BY <1>1, FundedFinite
<1>3. R \subseteq H
      BY DEF FundedBy
<1>4. FundedBy(Holders, v)' = H \ R
      BY DEF FundedBy
<1>5. active[v] = Cardinality(H)
      BY DEF SlotsAreHeld
<1>6. active'[v] = Less(active[v], Cardinality(R))
      BY DEF Released
<1> HIDE DEF H, R
<1>7. Cardinality(H \ R) = Cardinality(H) - Cardinality(R)
  <2>1. H \cap R = R
        BY <1>3
  <2> QED BY <2>1, <1>2, FS_Difference
<1>8. Cardinality(R) <= Cardinality(H)
      BY <1>2, <1>3, FS_Subset
<1>9. Less(Cardinality(H), Cardinality(R)) = Cardinality(H) - Cardinality(R)
      BY <1>2, <1>8 DEF Less
<1> QED BY <1>4, <1>5, <1>6, <1>7, <1>9

\* A slot is taken.
LEMMA ReserveKeeps ==
    ASSUME TypeInv, Placed, SlotsAreHeld, NEW i \in Launches, Reserve(i)
    PROVE  SlotsAreHeld'
<1>1. /\ req[i] = "read" /\ req' = [req EXCEPT ![i] = "post"]
      /\ from' = from /\ funded' = [funded EXCEPT ![i] = TRUE]
      /\ active' = [active EXCEPT ![from[i]] = @ + 1]
      /\ sessions' = sessions /\ leaked' = leaked
      BY DEF Reserve, To, history
<1>2. /\ req \in [Launches -> {"none", "read", "post", "boot", "drop", "over"}]
      /\ from[i] \in Visitors /\ funded \in [Launches -> BOOLEAN]
      /\ active \in [Visitors -> 0..FundedPerVisitor]
      /\ sessions \subseteq Launches /\ leaked \subseteq Launches
      BY DEF TypeInv, RequestsOK, FundedOK, ActiveOK, SetsOK
<1>3. i \notin Holders
      BY <1>1 DEF Holders, Placed
<1>4. Holders' = Holders \cup {i}
      BY <1>1, <1>2 DEF Holders
<1> SUFFICES ASSUME NEW v \in Visitors
             PROVE  active'[v] = Cardinality(FundedBy(Holders, v)')
    BY DEF SlotsAreHeld
<1>5. active[v] = Cardinality(FundedBy(Holders, v))
      BY DEF SlotsAreHeld
<1>6. IsFiniteSet(FundedBy(Holders, v))
  <2>1. Holders \in SUBSET Launches
        BY <1>2 DEF Holders
  <2> QED BY <2>1, FundedFinite
<1>7. \A j \in Holders : funded'[j] = funded[j] /\ from'[j] = from[j]
      BY <1>1, <1>2, <1>3 DEF Holders
<1>8. CASE from[i] = v
  <2>1. FundedBy(Holders, v)' = FundedBy(Holders, v) \cup {i}
    <3>1. funded'[i] = TRUE /\ from'[i] = v
          BY <1>1, <1>2, <1>8
    <3> QED BY <3>1, <1>4, <1>7 DEF FundedBy
  <2>2. i \notin FundedBy(Holders, v)
        BY <1>3 DEF FundedBy
  <2>3. Cardinality(FundedBy(Holders, v)') = Cardinality(FundedBy(Holders, v)) + 1
        BY <2>1, <2>2, <1>6, FS_AddElement
  <2>4. active'[v] = active[v] + 1
        BY <1>1, <1>2, <1>8
  <2> QED BY <2>3, <2>4, <1>5
<1>9. CASE from[i] # v
  <2>1. FundedBy(Holders, v)' = FundedBy(Holders, v)
        BY <1>1, <1>4, <1>7, <1>9 DEF FundedBy
  <2>2. active'[v] = active[v]
        BY <1>1, <1>2, <1>9
  <2> QED BY <2>1, <2>2, <1>5
<1> QED BY <1>8, <1>9

LEMMA SlotsCreate ==
    ASSUME TypeInv, Placed, SlotsAreHeld, NEW i \in Launches, Create(i)
    PROVE  SlotsAreHeld'
<1>1. /\ req \in [Launches -> {"none", "read", "post", "boot", "drop", "over"}]
      /\ funded \in [Launches -> BOOLEAN]
      /\ sessions \subseteq Launches /\ leaked \subseteq Launches
      BY DEF TypeInv, RequestsOK, FundedOK, SetsOK
<1>2. CASE Ask(i) \/ TooMany(i) \/ Refused(i) \/ Starts(i) \/ Answered(i) \/ Healthy(i)
           \/ BootFails(i)
  <2>1. UNCHANGED <<active, from, funded, leaked>>
        BY <1>2 DEF Ask, TooMany, Refused, Starts, Answered, Healthy, BootFails, To,
                    requests, memory, history
  <2>2. Holders' = Holders
        BY <1>1, <1>2 DEF Ask, TooMany, Refused, Starts, Answered, Healthy, BootFails, To,
                          requests, memory, history, Holders
  <2>3. \A v \in Visitors : FundedBy(Holders, v)' = FundedBy(Holders, v)
        BY <2>1, <2>2 DEF FundedBy
  <2> QED BY <2>1, <2>3, SameHolders
<1>3. CASE OwnKey(i)
  <2>1. /\ req[i] = "read" /\ req' = [req EXCEPT ![i] = "post"]
        /\ UNCHANGED <<active, from, funded, leaked, sessions>>
        BY <1>3 DEF OwnKey, To, memory, history
  <2>2. ~funded[i]
        BY <2>1 DEF Placed
  <2>3. Holders' = Holders \cup {i}
        BY <1>1, <2>1 DEF Holders
  <2>4. \A v \in Visitors : FundedBy(Holders, v)' = FundedBy(Holders, v)
        BY <2>1, <2>2, <2>3 DEF FundedBy
  <2> QED BY <2>1, <2>4, SameHolders
<1>4. CASE Reserve(i)
      BY <1>4, ReserveKeeps
<1>5. CASE NotStarted(i) \/ Dropped(i)
  <2>1. /\ req[i] \in {"post", "drop"} /\ req' = [req EXCEPT ![i] = "over"]
        /\ active' = Released({i}) /\ UNCHANGED <<from, funded, sessions, leaked>>
        BY <1>5 DEF NotStarted, Dropped, To, history
  <2>2. i \notin sessions /\ i \notin leaked
        BY <2>1 DEF Placed
  <2>3. Holders' = Holders \ {i} /\ {i} \in SUBSET Holders
        BY <1>1, <2>1, <2>2 DEF Holders
  <2> QED BY <2>1, <2>3, ReleaseKeeps
<1>6. CASE Raises(i)
  <2>1. /\ req[i] = "post" /\ req' = [req EXCEPT ![i] = "over"]
        /\ leaked' = leaked \cup ({i} \cap {j \in Launches : funded[j]})
        /\ UNCHANGED <<active, from, funded, sessions>>
        BY <1>6 DEF Raises, To, memory
  <2>2. i \notin sessions /\ i \notin leaked
        BY <2>1 DEF Placed
  <2>3. \A j \in Launches : j # i => (j \in Holders' <=> j \in Holders)
        BY <1>1, <2>1 DEF Holders
  <2>4. i \in Holders /\ (i \in Holders' <=> funded[i])
        BY <1>1, <2>1, <2>2 DEF Holders
  <2>5. Holders \subseteq Launches /\ Holders' \subseteq Launches
        BY <1>1, <2>1 DEF Holders
  <2>6. \A v \in Visitors : FundedBy(Holders, v)' = FundedBy(Holders, v)
        BY <2>1, <2>3, <2>4, <2>5 DEF FundedBy
  <2> QED BY <2>1, <2>6, SameHolders
<1> QED BY <1>2, <1>3, <1>4, <1>5, <1>6 DEF Create

LEMMA SlotsRest ==
    ASSUME TypeInv, Placed, SlotsAreHeld,
           \/ \E i \in Launches : Use(i) \/ Exits(i) \/ Ages(i)
           \/ \E v \in Visitors : HourPasses(v)
           \/ Reap
    PROVE  SlotsAreHeld'
<1>1. \A i \in sessions : req[i] = "over" /\ i \notin leaked
      BY DEF Placed
<1>2. UNCHANGED <<req, from, funded, leaked>>
      BY DEF Use, Delete, Deleted, Forward, Relayed, Expired, Exits, Ages, HourPasses, Reap,
             List, ListFails, Sweep, Rests, Kill, requests, history
<1>3. ASSUME NEW S \in SUBSET sessions, sessions' = sessions \ S, active' = Released(S)
      PROVE  SlotsAreHeld'
  <2>1. Holders' = Holders \ S /\ S \in SUBSET Holders
        BY <1>1, <1>2, <1>3 DEF Holders
  <2> QED BY <2>1, <1>2, <1>3, ReleaseKeeps
<1>4. CASE \E i \in Launches : Delete(i) \/ Expired(i)
  <2>1. PICK i \in Launches : Delete(i) \/ Expired(i)
        BY <1>4
  <2>2. sessions' = sessions \ ({i} \cap sessions) /\ active' = Released({i} \cap sessions)
    <3>1. CASE Delete(i)
      <4>1. {i} \cap sessions = {i}
            BY <3>1 DEF Delete
      <4> QED BY <3>1, <4>1 DEF Delete
    <3>2. CASE Expired(i)
          BY <3>2 DEF Expired
    <3> QED BY <2>1, <3>1, <3>2
  <2> QED BY <2>2, <1>3
<1>5. CASE Sweep
  <2>1. sessions' = sessions \ (sessions \ listed) /\ active' = Released(sessions \ listed)
        BY <1>5 DEF Sweep
  <2> QED BY <2>1, <1>3
<1>6. CASE ~(\E i \in Launches : Delete(i) \/ Expired(i)) /\ ~Sweep
  <2>1. UNCHANGED <<sessions, active>>
        BY <1>6 DEF Use, Deleted, Forward, Relayed, Exits, Ages, HourPasses, Reap,
                    List, ListFails, Rests, Kill, memory
  <2>2. \A v \in Visitors : FundedBy(Holders, v)' = FundedBy(Holders, v)
        BY <2>1, <1>2 DEF FundedBy, Holders
  <2> QED BY <2>1, <2>2, SameHolders
<1> QED BY <1>4, <1>5, <1>6

\* A slot is taken once and given back once on every way a launch can end; a
\* visitor is neither shut out by slots nobody holds, but for a request that died
\* with one, nor served beyond his share (launcher.py, create_session, proxy,
\* delete_session and _reaper).
THEOREM SlotsAreHeldHolds == Spec => []SlotsAreHeld
<1>1. Init => SlotsAreHeld
  <2> SUFFICES ASSUME Init, NEW v \in Visitors
               PROVE  active[v] = Cardinality(FundedBy(Holders, v))
      BY DEF SlotsAreHeld
  <2>1. FundedBy(Holders, v) = {} /\ active[v] = 0
        BY DEF Init, FundedBy, Holders
  <2> QED BY <2>1, FS_EmptySet
<1>2. TypeInv /\ Placed /\ SlotsAreHeld /\ [Next]_vars => SlotsAreHeld'
  <2> SUFFICES ASSUME TypeInv, Placed, SlotsAreHeld, [Next]_vars
               PROVE  SlotsAreHeld'
      OBVIOUS
  <2>1. CASE UNCHANGED vars
        BY <2>1, Unchanged DEF SlotsAreHeld, FundedBy, Holders
  <2>2. CASE Restart
    <3> SUFFICES ASSUME NEW v \in Visitors
                 PROVE  active'[v] = Cardinality(FundedBy(Holders, v)')
        BY DEF SlotsAreHeld
    <3>1. Holders' = {}
          BY <2>2 DEF Restart, Holders
    <3>2. FundedBy(Holders, v)' = {} /\ active'[v] = 0
          BY <2>2, <3>1 DEF Restart, FundedBy
    <3> QED BY <3>2, FS_EmptySet
  <2> QED BY <2>1, <2>2, SlotsCreate, SlotsRest DEF Next
<1>3. Placed /\ TypeInv /\ [Next]_vars => Placed'
      BY PlacedNext
<1> QED BY TypeInvHolds, PlacedInit, <1>1, <1>2, <1>3, PTL DEF Spec

-----------------------------------------------------------------------------
(* The reaper.                                                             *)

\* While its list is under way, what is alive is in it or was started since.
ListCovers == reaper = "listing" => \A i \in Launches : Alive(i) => i \in listed \cup unlisted

\* What the reaper takes down belongs to nobody, though its list is older than
\* what it does (launcher.py, _reaper).
THEOREM ReaperSparesSessionsHolds == Spec => []ReaperSparesSessions
<1>1. Init => ListCovers
      BY DEF Init, ListCovers
<1>2. TypeInv /\ ListCovers /\ [Next]_vars => ListCovers'
  <2> SUFFICES ASSUME TypeInv, ListCovers, [Next]_vars
               PROVE  ListCovers'
      OBVIOUS
  <2>1. CASE UNCHANGED vars
        BY <2>1, Unchanged DEF ListCovers, Alive
  <2>2. machine \in [Launches -> {"none", "up", "dud", "gone"}]
        BY DEF TypeInv, MachinesOK
  <2>3. ASSUME UNCHANGED <<reaper, listed, unlisted>>,
               \A i \in Launches : Alive(i)' => Alive(i)
        PROVE  ListCovers'
        BY <2>3 DEF ListCovers
  <2>4. ASSUME NEW i \in Launches, Create(i)
        PROVE  ListCovers'
    <3>1. CASE Starts(i)
          BY <2>2, <3>1 DEF Starts, reaping, ListCovers, Alive
    <3>2. CASE ~Starts(i)
      <4>1. UNCHANGED <<reaper, listed, unlisted>>
            BY <2>4, <3>2 DEF Create, Ask, TooMany, Refused, OwnKey, Reserve, Answered,
                              NotStarted, Raises, Healthy, BootFails, Dropped, reaping, history
      <4>2. \A j \in Launches : Alive(j)' => Alive(j)
            BY <2>2, <2>4, <3>2
            DEF Create, Ask, TooMany, Refused, OwnKey, Reserve, Answered, NotStarted, Raises,
                Healthy, BootFails, Dropped, Destroyed, machines, Alive
      <4> QED BY <4>1, <4>2, <2>3
    <3> QED BY <3>1, <3>2
  <2>5. ASSUME NEW i \in Launches, Use(i) \/ Exits(i) \/ Ages(i)
        PROVE  ListCovers'
    <3>1. UNCHANGED <<reaper, listed, unlisted>>
          BY <2>5 DEF Use, Delete, Deleted, Forward, Relayed, Expired, Exits, Ages,
                      reaping, history
    <3>2. \A j \in Launches : Alive(j)' => Alive(j)
          BY <2>2, <2>5 DEF Use, Delete, Deleted, Forward, Relayed, Expired, Exits, Ages,
                            Destroyed, machines, Alive
    <3> QED BY <3>1, <3>2, <2>3
  <2>6. CASE \E v \in Visitors : HourPasses(v)
        BY <2>6, <2>3 DEF HourPasses, machines, reaping, history, Alive
  <2>7. CASE Reap \/ Restart
    <3>1. CASE List
          BY <3>1 DEF List, machines, ListCovers, Alive
    <3>2. CASE ~List
      <4>1. reaper' # "listing"
            BY <2>7, <3>2 DEF Reap, ListFails, Sweep, Rests, Kill, Restart
      <4> QED BY <4>1 DEF ListCovers
    <3> QED BY <3>1, <3>2
  <2> QED BY <2>1, <2>4, <2>5, <2>6, <2>7 DEF Next
<1>3. TypeInv /\ Placed /\ ListCovers => ReaperSparesSessions
      BY DEF TypeInv, SetsOK, Placed, ListCovers, ReaperSparesSessions
<1>4. Placed /\ TypeInv /\ [Next]_vars => Placed'
      BY PlacedNext
<1> QED BY TypeInvHolds, PlacedInit, <1>1, <1>2, <1>3, <1>4, PTL DEF Spec
=============================================================================

------------------------------ MODULE Launcher ------------------------------
(***************************************************************************)
(* The demo launcher, src/deploy/launcher/launcher.py: each visitor gets a *)
(* machine of his own, some of them at the operator's cost.  The handlers  *)
(* are coroutines of one process and interleave at their awaits only, so   *)
(* what stands between two awaits is one action; the sessions, the slots   *)
(* and the launch counts live in memory and die with the process.  A       *)
(* machine ends on its own (src/deploy/demo/wrapper.py, _watchdog), when   *)
(* the launcher destroys it, or when the reaper finds that nobody knows    *)
(* it.                                                                     *)
(*                                                                         *)
(* Launches are numbered, and a machine has the number of its launch.      *)
(* Tokens, HTTP framing and the forwarding of a request are left out.      *)
(***************************************************************************)
EXTENDS Naturals, FiniteSets

CONSTANTS
    Visitors,           \* client addresses
    MaxLaunches,        \* bound on the launches
    MaxSessions,        \* MAX_SESSIONS
    PerHour,            \* LAUNCHES_PER_HOUR_PER_IP
    FundedPerVisitor,   \* OPERATOR_SESSIONS_PER_IP
    MaxRestarts         \* bound on restarts of the launcher

ASSUME LauncherAssumption ==
    {MaxLaunches, MaxSessions, PerHour, FundedPerVisitor, MaxRestarts} \subseteq Nat

Launches == 1..MaxLaunches

VARIABLES
    req,        \* how far the request that launches has come
    from, funded,   \* whose it is, and whether the operator pays
    sessions,   \* SESSIONS
    active,     \* _operator_active: the slots a visitor holds
    recent,     \* _launches: his launches within the hour
    ending,     \* deleted sessions whose machine is being destroyed
    proxying,   \* sessions with a request under way to their worker
    machine,    \* "up" with its watchdog, or a "dud" without
    old,        \* machines past ORPHAN_MAX_AGE_S
    reaper, listed, doomed, \* the reaper, the machines it was told of, those it kills
    restarts,
    \* history
    leaked,     \* funded launches whose request died with its slot
    unlisted    \* machines started since the reaper's open list was made

requests == <<req, from, funded>>
memory == <<sessions, active, recent, ending, proxying>>
machines == <<machine, old>>
reaping == <<reaper, listed, doomed>>
history == <<leaked, unlisted>>
vars == <<requests, memory, machines, reaping, restarts, history>>

Init ==
    /\ req = [i \in Launches |-> "none"]
    /\ from \in [Launches -> Visitors] /\ funded = [i \in Launches |-> FALSE]
    /\ sessions = {} /\ active = [v \in Visitors |-> 0] /\ recent = [v \in Visitors |-> 0]
    /\ ending = {} /\ proxying = {}
    /\ machine = [i \in Launches |-> "none"] /\ old = {}
    /\ reaper = "asleep" /\ listed = {} /\ doomed = {}
    /\ restarts = 0 /\ leaked = {} /\ unlisted = {}

Alive(i) == machine[i] \in {"up", "dud"}
To(i, r) == req' = [req EXCEPT ![i] = r] /\ UNCHANGED from

-----------------------------------------------------------------------------
(* Slots.                                                                  *)

FundedBy(S, v) == {i \in S : funded[i] /\ from[i] = v}

\* A slot too few is never given back twice: the count stops at zero.
Less(n, k) == IF n > k THEN n - k ELSE 0

\* The slots once the sessions S are over.
Released(S) == [v \in Visitors |-> Less(active[v], Cardinality(FundedBy(S, v)))]

-----------------------------------------------------------------------------
(* create_session.                                                         *)

\* The hourly count is taken, and then the cap on sessions is looked at.
Ask(i) ==
    /\ req[i] = "none" /\ \A j \in 1..(i - 1) : req[j] # "none"
    /\ recent[from[i]] < PerHour
    /\ recent' = [recent EXCEPT ![from[i]] = @ + 1]
    /\ To(i, IF Cardinality(sessions) < MaxSessions THEN "read" ELSE "over")
    /\ UNCHANGED <<funded, sessions, active, ending, proxying, machines, reaping, restarts, history>>

TooMany(i) ==
    /\ req[i] = "none" /\ \A j \in 1..(i - 1) : req[j] # "none"
    /\ recent[from[i]] >= PerHour /\ To(i, "over")
    /\ UNCHANGED <<funded, memory, machines, reaping, restarts, history>>

HourPasses(v) ==
    /\ recent[v] > 0 /\ recent' = [recent EXCEPT ![v] = @ - 1]
    /\ UNCHANGED <<requests, sessions, active, ending, proxying, machines, reaping, restarts, history>>

\* The body is there: no usable key, a key of the visitor's, or a slot of the
\* operator's if one is free (in ReserveOneMore, if one too many).
Refused(i) ==
    /\ req[i] = "read" /\ To(i, "over")
    /\ UNCHANGED <<funded, memory, machines, reaping, restarts, history>>

OwnKey(i) ==
    /\ req[i] = "read" /\ To(i, "post")
    /\ UNCHANGED <<funded, memory, machines, reaping, restarts, history>>

ReserveOneMore(i) ==
    /\ req[i] = "read" /\ active[from[i]] <= FundedPerVisitor
    /\ active' = [active EXCEPT ![from[i]] = @ + 1]
    /\ funded' = [funded EXCEPT ![i] = TRUE] /\ To(i, "post")
    /\ UNCHANGED <<sessions, recent, ending, proxying, machines, reaping, restarts, history>>

Reserve(i) ==
    /\ req[i] = "read" /\ active[from[i]] < FundedPerVisitor
    /\ active' = [active EXCEPT ![from[i]] = @ + 1]
    /\ funded' = [funded EXCEPT ![i] = TRUE] /\ To(i, "post")
    /\ UNCHANGED <<sessions, recent, ending, proxying, machines, reaping, restarts, history>>

\* The provider starts the machine; its answer is still to come.
Starts(i) ==
    /\ req[i] = "post" /\ machine[i] = "none"
    /\ \E m \in {"up", "dud"} : machine' = [machine EXCEPT ![i] = m]
    /\ unlisted' = IF reaper = "listing" THEN unlisted \cup {i} ELSE {}
    /\ UNCHANGED <<requests, memory, old, reaping, restarts, leaked>>

Answered(i) ==
    /\ req[i] = "post" /\ machine[i] # "none" /\ To(i, "boot")
    /\ UNCHANGED <<funded, memory, machines, reaping, restarts, history>>

NotStarted(i) ==
    /\ req[i] = "post" /\ machine[i] = "none" /\ To(i, "over")
    /\ active' = Released({i})
    /\ UNCHANGED <<funded, sessions, recent, ending, proxying, machines, reaping, restarts, history>>

\* No answer, or none that can be read: the request dies and keeps its slot.
Raises(i) ==
    /\ req[i] = "post" /\ To(i, "over")
    /\ leaked' = leaked \cup ({i} \cap {j \in Launches : funded[j]})
    /\ UNCHANGED <<funded, memory, machines, reaping, restarts, unlisted>>

Healthy(i) ==
    /\ req[i] = "boot" /\ machine[i] = "up" /\ To(i, "over")
    /\ sessions' = sessions \cup {i}
    /\ UNCHANGED <<funded, active, recent, ending, proxying, machines, reaping, restarts, history>>

BootFails(i) ==
    /\ req[i] = "boot" /\ To(i, "drop")
    /\ UNCHANGED <<funded, memory, machines, reaping, restarts, history>>

-----------------------------------------------------------------------------
(* Machines.                                                               *)

\* A call to destroy a machine; a failed one is swallowed.
Destroyed(i) ==
    \/ machine' = [machine EXCEPT ![i] = "gone"] /\ old' = old \ {i}
    \/ UNCHANGED machines

\* The slot is given back when the call is over, whatever came of it.
Dropped(i) ==
    /\ req[i] = "drop" /\ To(i, "over") /\ Destroyed(i)
    /\ active' = Released({i})
    /\ UNCHANGED <<funded, sessions, recent, ending, proxying, reaping, restarts, history>>

\* The watchdog, idle or past its age, or the program itself.
Exits(i) ==
    /\ machine[i] = "up"
    /\ machine' = [machine EXCEPT ![i] = "gone"] /\ old' = old \ {i}
    /\ UNCHANGED <<requests, memory, reaping, restarts, history>>

\* No launch takes as long as the cutoff.
Ages(i) ==
    /\ Alive(i) /\ i \notin old /\ req[i] = "over" /\ old' = old \cup {i}
    /\ UNCHANGED <<requests, memory, machine, reaping, restarts, history>>

-----------------------------------------------------------------------------
(* delete_session, proxy.                                                  *)

Delete(i) ==
    /\ i \in sessions
    /\ sessions' = sessions \ {i} /\ active' = Released({i}) /\ ending' = ending \cup {i}
    /\ UNCHANGED <<requests, recent, proxying, machines, reaping, restarts, history>>

Deleted(i) ==
    /\ i \in ending /\ ending' = ending \ {i} /\ Destroyed(i)
    /\ UNCHANGED <<requests, sessions, active, recent, proxying, reaping, restarts, history>>

Forward(i) ==
    /\ i \in sessions /\ proxying' = proxying \cup {i}
    /\ UNCHANGED <<requests, sessions, active, recent, ending, machines, reaping, restarts, history>>

Relayed(i) ==
    /\ i \in proxying /\ proxying' = proxying \ {i}
    /\ UNCHANGED <<requests, sessions, active, recent, ending, machines, reaping, restarts, history>>

\* The session the request began with gives its slot back.
ExpiredAnyway(i) ==
    /\ i \in proxying /\ proxying' = proxying \ {i}
    /\ sessions' = sessions \ {i} /\ active' = Released({i})
    /\ UNCHANGED <<requests, recent, ending, machines, reaping, restarts, history>>

\* The worker does not answer: its session is over, unless it was already.
Expired(i) ==
    /\ i \in proxying /\ proxying' = proxying \ {i}
    /\ sessions' = sessions \ {i} /\ active' = Released({i} \cap sessions)
    /\ UNCHANGED <<requests, recent, ending, machines, reaping, restarts, history>>

-----------------------------------------------------------------------------
(* _reaper.                                                                *)

\* The provider lists its machines; the answer is under way.
List ==
    /\ reaper = "asleep" /\ reaper' = "listing"
    /\ listed' = {i \in Launches : Alive(i)}
    /\ UNCHANGED <<requests, memory, machines, doomed, restarts, history>>

\* A failed list ends the loop.
ListDies ==
    /\ reaper = "listing" /\ reaper' = "dead" /\ listed' = {} /\ unlisted' = {}
    /\ UNCHANGED <<requests, memory, machines, doomed, restarts, leaked>>

ListFails ==
    /\ reaper = "listing" /\ reaper' = "asleep" /\ listed' = {} /\ unlisted' = {}
    /\ UNCHANGED <<requests, memory, machines, doomed, restarts, leaked>>

\* Every machine nobody knows is killed, however young.
OrphansOfAnyAge(S) == listed \ S

\* Old machines that are in no session.
Orphans(S) == (listed \cap old) \ S

\* Without an await: sessions whose machine is not in the list, then orphans.
Sweep ==
    /\ reaper = "listing" /\ reaper' = "killing" /\ listed' = {}
    /\ sessions' = sessions \cap listed
    /\ active' = Released(sessions \ listed)
    /\ doomed' = Orphans(sessions \cap listed) /\ unlisted' = {}
    /\ UNCHANGED <<requests, recent, ending, proxying, machines, restarts, leaked>>

Kill(i) ==
    /\ reaper = "killing" /\ i \in doomed
    /\ doomed' = doomed \ {i} /\ Destroyed(i)
    /\ UNCHANGED <<requests, memory, reaper, listed, restarts, history>>

Rests ==
    /\ reaper = "killing" /\ doomed = {} /\ reaper' = "asleep"
    /\ UNCHANGED <<requests, memory, machines, listed, doomed, restarts, history>>

\* The launcher starts anew: every request, session, slot and count is lost.
Restart ==
    /\ restarts < MaxRestarts /\ restarts' = restarts + 1
    /\ req' = [i \in Launches |-> IF req[i] = "none" THEN "none" ELSE "over"]
    /\ sessions' = {} /\ ending' = {} /\ proxying' = {}
    /\ active' = [v \in Visitors |-> 0] /\ recent' = [v \in Visitors |-> 0]
    /\ reaper' = "asleep" /\ listed' = {} /\ doomed' = {}
    /\ leaked' = {} /\ unlisted' = {}
    /\ UNCHANGED <<from, funded, machines>>

Create(i) ==
    \/ Ask(i) \/ TooMany(i) \/ Refused(i) \/ OwnKey(i) \/ Reserve(i) \/ Starts(i)
    \/ Answered(i) \/ NotStarted(i) \/ Raises(i) \/ Healthy(i) \/ BootFails(i) \/ Dropped(i)
Use(i) == Delete(i) \/ Deleted(i) \/ Forward(i) \/ Relayed(i) \/ Expired(i)
Reap == List \/ ListFails \/ Sweep \/ Rests \/ \E i \in Launches : Kill(i)

Next ==
    \/ \E i \in Launches : Create(i) \/ Use(i) \/ Exits(i) \/ Ages(i)
    \/ \E v \in Visitors : HourPasses(v)
    \/ Reap \/ Restart

Killed(i) == Kill(i) /\ machine'[i] = "gone"

\* Requests come to an end, machines age and their watchdogs run, the reaper
\* goes round; a list or a kill that is tried again and again succeeds.
Fairness ==
    /\ \A i \in Launches :
          /\ WF_vars(req[i] # "none" /\ Create(i)) /\ WF_vars(Exits(i)) /\ WF_vars(Ages(i))
          /\ SF_vars(Killed(i))
    /\ WF_vars(Reap) /\ SF_vars(Sweep)

Spec == Init /\ [][Next]_vars /\ Fairness

-----------------------------------------------------------------------------
(* Properties.                                                             *)

TypeOK ==
    /\ req \in [Launches -> {"none", "read", "post", "boot", "drop", "over"}]
    /\ from \in [Launches -> Visitors] /\ funded \in [Launches -> BOOLEAN]
    /\ sessions \subseteq Launches /\ ending \subseteq Launches /\ proxying \subseteq Launches
    /\ active \in [Visitors -> 0..FundedPerVisitor] /\ recent \in [Visitors -> 0..PerHour]
    /\ machine \in [Launches -> {"none", "up", "dud", "gone"}] /\ old \subseteq Launches
    /\ reaper \in {"asleep", "listing", "killing"}
    /\ listed \subseteq Launches /\ doomed \subseteq Launches
    /\ restarts \in 0..MaxRestarts /\ leaked \subseteq Launches /\ unlisted \subseteq Launches

\* Launches that hold a slot: under way, in a session, or dead with it.
Holders == {i \in Launches : req[i] \in {"post", "boot", "drop"}} \cup sessions \cup leaked

\* A visitor's slots are as many as the funded launches that hold one: however a
\* session ends, by his delete, a worker that does not answer, the reaper or a
\* failed start, it gives its slot back once (launcher.py:101-104).
SlotsAreHeld == \A v \in Visitors : active[v] = Cardinality(FundedBy(Holders, v))

\* The reaper takes nobody's machine: none it has marked is in a session or being
\* started, though its list and what it knows are of earlier awaits; and it drops
\* a session only if its machine is gone, or was not started yet when the
\* provider made the list it has (launcher.py:376-378).
ReaperSparesSessions ==
    /\ \A i \in doomed : i \notin sessions /\ req[i] = "over"
    /\ reaper = "listing" => \A i \in sessions \ listed : ~Alive(i) \/ i \in unlisted

\* Machines cost money and end, those of a launcher that was restarted or whose
\* request died too; a session does not outlive its machine for long.
AllEnds ==
    \A i \in Launches :
        /\ Alive(i) ~> ~Alive(i)
        /\ i \in sessions ~> i \notin sessions
=============================================================================

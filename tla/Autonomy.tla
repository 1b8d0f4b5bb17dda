------------------------------ MODULE Autonomy ------------------------------
(***************************************************************************)
(* How a run comes by the scope within which it acts without asking, and   *)
(* whom it then reaches: src/flowers/mandate.py (goal_named_recipients,    *)
(* parse_mandate, owner_grant, fast_path_goal, host_admits, covers) and    *)
(* the way engine/operator.py uses them from intake to a send.             *)
(*                                                                         *)
(* A goal is text: what counts here is which addresses the owner wrote in  *)
(* his own words, which only inside something he quoted or forwarded, and  *)
(* whether the words ask for a send.  Caps, repeats and undo windows are   *)
(* the subject of Broker.                                                  *)
(***************************************************************************)
EXTENDS FiniteSets, Naturals

CONSTANTS
    Address, Host,      \* what a scope may list
    HostOf,             \* the domain of an address
    OrgOf,              \* the registrable domain of a host, or "none"
    Within,             \* pairs of a host and a host it equals or is under
    Junk,               \* a scope entry that is neither
    Class,              \* toolkit:action labels
    Sends,              \* is_recipient_bearing(): a delivering verb
    Mail,               \* the class of the fast path
    Forbidden,          \* refused, or of tier NEVER
    Page, Shows,        \* pages, with the addresses printed on them
    PageHost,
    Goals, Replies,     \* the goals, and the answers to a clarifying question
    Proposals,          \* the mandates the planner's model may propose
    MaxCrashes          \* bound on crashes

Goal == [own : SUBSET Address, quoted : SUBSET Address, asks : BOOLEAN, single : BOOLEAN,
         constrained : BOOLEAN, illegal : BOOLEAN]
Mandate == [types : SUBSET Class, scope : SUBSET (Address \cup Host)]

ASSUME AutonomyAssumption ==
    /\ HostOf \in [Address -> Host] /\ OrgOf \in [Host -> Host \cup {"none"}]
    /\ Within \subseteq Host \X Host /\ Address \cap Host = {} /\ Junk \notin Address \cup Host
    /\ Sends \subseteq Class /\ Mail \in Sends \ Forbidden /\ Forbidden \subseteq Class
    /\ Shows \in [Page -> SUBSET Address] /\ PageHost \in [Page -> Host]
    /\ Goals \cup Replies \subseteq Goal
    /\ MaxCrashes \in Nat
    /\ \A p \in Proposals : p.types \subseteq Class

VARIABLES
    \* stored
    status, goal,
    proposal,   \* the mandate that rides on the plan
    planned,    \* a plan is stored
    mandate, auto,  \* run.mandate and run.mandate_auto
    kept,       \* the continuation's copy of discovered
    \* in memory
    at,         \* where the driver is; "out" when nobody drives
    discovered, \* addresses admitted from pages; read back when a run is resumed
    reach,      \* the scope of the live broker
    found,      \* pages this step has fetched
    \* configuration
    previews,   \* send_preview # "never"
    \* history: nothing in the code reads it
    read, granted,  \* pages fetched, mandates the owner said yes to
    unasked,    \* recipients of sends the owner was not asked about
    crashes

run == <<status, goal, proposal, planned, mandate, auto>>
scope == <<kept, discovered>>
loop == <<reach, found>>
history == <<read, granted, unasked>>
vars == <<run, at, scope, loop, previews, history, crashes>>

NoMandate == [types |-> {}, scope |-> {}]

-----------------------------------------------------------------------------
(* mandate.py.                                                             *)

\* An address in a forwarded header counts as well.
NamedAnywhere(g) == g.own \cup g.quoted

\* goal_named_recipients: quoted and forwarded lines are stripped.
Named(g) == g.own

\* Entries that name nobody stay in.
SanitizedLoosely(entries) == entries

Sanitized(entries) == entries \cap (Address \cup Host)

\* parse_mandate.
Parsed(p, g) ==
    IF p.types \subseteq Forbidden THEN NoMandate
    ELSE [types |-> p.types \ Forbidden, scope |-> Sanitized(p.scope) \cup Named(g)]

\* A mandate for other work than sending is granted with it.
GrantsAnything(m, g) == m.types # {} /\ g.asks /\ m.scope # {} /\ m.scope \subseteq Named(g)

\* owner_grant.  The words that ask are looked for in all of the text.
Grants(m, g) ==
    /\ m.types # {} /\ m.types \subseteq Sends
    /\ g.asks
    /\ m.scope # {} /\ m.scope \subseteq Named(g)

\* fast_path_goal, and the proposal of its template.
Fast(g) == ~g.constrained /\ Cardinality(Named(g)) = 1 /\ g.asks /\ g.single
Template(g) == [types |-> {Mail}, scope |-> Named(g)]

\* host_admits.
Admits(e, host) == OrgOf[HostOf[e]] # "none" /\ OrgOf[HostOf[e]] = OrgOf[host]

\* admitted_from_fetch.
Admitted(pages) == UNION {{e \in Shows[p] : Admits(e, PageHost[p])} : p \in pages}

\* _on_allowlist.
Listed(e, entries) == e \in entries \/ \E d \in entries \cap Host : <<HostOf[e], d>> \in Within

\* covers.
Covered(c, to) == c \in mandate.types \ Forbidden /\ \A e \in to : Listed(e, reach)

-----------------------------------------------------------------------------
Init ==
    /\ status = "pending" /\ goal \in Goals
    /\ proposal = NoMandate /\ planned = FALSE /\ mandate = NoMandate /\ auto = FALSE
    /\ kept = {}
    /\ at = "intake" /\ discovered = {} /\ reach = {} /\ found = {}
    /\ previews \in BOOLEAN
    /\ read = {} /\ granted = {} /\ unasked = {} /\ crashes = 0

\* _escalate releases the run's resources.
Escalate == status' = "escalated" /\ at' = "out" /\ discovered' = {}

Quiet == UNCHANGED <<loop, previews, history, crashes>>

-----------------------------------------------------------------------------
(* Intake and planning, _run_pending and _plan_and_drive.                  *)

Screened ==
    /\ at = "intake" /\ goal.illegal
    /\ Escalate
    /\ UNCHANGED <<goal, proposal, planned, mandate, auto, kept>> /\ Quiet

\* The fast path may be switched off.
FastPath ==
    /\ at = "intake" /\ ~goal.illegal /\ Fast(goal) /\ Grants(Template(goal), goal)
    /\ status' = "planning" /\ at' = "fast"
    /\ UNCHANGED <<goal, proposal, planned, mandate, auto, scope>> /\ Quiet

AskQuestions ==
    /\ at = "intake" /\ ~goal.illegal
    /\ status' = "clarifying" /\ at' = "out"
    /\ UNCHANGED <<goal, proposal, planned, mandate, auto, scope>> /\ Quiet

StartPlanning ==
    /\ at = "intake" /\ ~goal.illegal
    /\ status' = "planning" /\ at' = "plan"
    /\ UNCHANGED <<goal, proposal, planned, mandate, auto, scope>> /\ Quiet

\* The answer joins the goal's constraints, to be read like the goal.
Clarify(r) ==
    /\ at = "out" /\ status = "clarifying"
    /\ IF r.illegal
       THEN Escalate /\ UNCHANGED goal
       ELSE /\ goal' = [own |-> goal.own \cup r.own, quoted |-> goal.quoted \cup r.quoted,
                        asks |-> goal.asks \/ r.asks, single |-> goal.single,
                        constrained |-> TRUE, illegal |-> FALSE]
            /\ status' = "planning" /\ at' = "plan"
            /\ UNCHANGED discovered
    /\ UNCHANGED <<proposal, planned, mandate, auto, kept>> /\ Quiet

\* The plan is saved with the proposal before anything is done with it; a
\* planner that fails proposes nothing.
Plan ==
    /\ \/ at = "plan" /\ proposal' \in {Parsed(p, goal) : p \in Proposals} \cup {NoMandate}
       \/ at = "fast" /\ proposal' = Template(goal)
    /\ planned' = TRUE /\ at' = "proposed"
    /\ UNCHANGED <<status, goal, mandate, auto, scope>> /\ Quiet

\* The goal itself is the permission.
GoalGrants ==
    /\ at = "proposed" /\ Grants(proposal, goal)
    /\ mandate' = proposal /\ auto' = TRUE
    /\ status' = "running" /\ at' = "drive"
    /\ UNCHANGED <<goal, proposal, planned, scope>> /\ Quiet

ShowCard ==
    /\ at = "proposed" /\ proposal # NoMandate /\ ~Grants(proposal, goal)
    /\ status' = "asked" /\ at' = "out"
    /\ UNCHANGED <<goal, proposal, planned, mandate, auto, scope>> /\ Quiet

NothingProposed ==
    /\ at = "proposed" /\ proposal = NoMandate
    /\ status' = "running" /\ at' = "drive"
    /\ UNCHANGED <<goal, proposal, planned, mandate, auto, scope>> /\ Quiet

AnswerCard(yes) ==
    /\ at = "out" /\ status = "asked"
    /\ mandate' = IF yes THEN proposal ELSE NoMandate
    /\ granted' = IF yes THEN granted \cup {proposal} ELSE granted
    /\ status' = "running" /\ at' = "drive"
    /\ UNCHANGED <<goal, proposal, planned, auto, scope, loop, previews, read, unasked, crashes>>

-----------------------------------------------------------------------------
(* A step.                                                                 *)

\* _broker.  It keeps the scope it was made with.
MakeBroker ==
    /\ reach' = IF mandate = NoMandate THEN {} ELSE mandate.scope \cup discovered
    /\ found' = {}

StartLoop ==
    /\ at = "drive" /\ MakeBroker
    /\ at' = "loop"
    /\ UNCHANGED <<run, scope, previews, history, crashes>>

Fetch(p) ==
    /\ at = "loop" /\ found' = found \cup {p} /\ read' = read \cup {p}
    /\ UNCHANGED <<run, at, scope, reach, previews, granted, unasked, crashes>>

\* Under a mandate nobody was shown, a draft is, unless drafts are off.
Unprompted(c, to) == Covered(c, to) /\ ~(auto /\ previews /\ c \in Sends)

Send(c, to) ==
    /\ at = "loop" /\ Unprompted(c, to)
    /\ unasked' = unasked \cup to
    /\ UNCHANGED <<run, at, scope, loop, previews, read, granted, crashes>>

\* What the step's pages admit, under a mandate.
Gain == IF mandate = NoMandate THEN {} ELSE Admitted(found)

\* The continuation is left as it was.
AdmitForNow == discovered' = discovered \cup Gain /\ kept' = kept

\* _handle_step_result: what the step found is admitted and saved.
Admit ==
    /\ discovered' = discovered \cup Gain
    /\ kept' = IF Gain = {} THEN kept ELSE discovered \cup Gain

\* Any other send waits for its own yes; parking saves the continuation.
Park(c, to) ==
    /\ at = "loop" /\ ~Unprompted(c, to) /\ c \notin Forbidden
    /\ discovered' = discovered \cup Gain /\ kept' = discovered'
    /\ status' = "approving" /\ at' = "out"
    /\ UNCHANGED <<goal, proposal, planned, mandate, auto>> /\ Quiet

StepOver ==
    /\ at = "loop" /\ Admit
    /\ at' = "drive"
    /\ UNCHANGED run /\ Quiet

\* A spent budget ends the step before anything is admitted.
StepFails ==
    /\ at = "loop" /\ Escalate
    /\ kept' \in {kept, IF Gain = {} THEN kept ELSE discovered \cup Gain}
    /\ UNCHANGED <<goal, proposal, planned, mandate, auto>> /\ Quiet

Finish ==
    /\ at = "drive"
    /\ status' = "done" /\ at' = "out" /\ discovered' = {}
    /\ UNCHANGED <<goal, proposal, planned, mandate, auto, kept>> /\ Quiet

-----------------------------------------------------------------------------
(* The owner, and crashes.                                                 *)

\* A yes to the send: it goes first, in a loop that goes on with the step.
Approve ==
    /\ at = "out" /\ status = "approving"
    /\ kept' = discovered /\ MakeBroker
    /\ at' = "loop" /\ status' = "running"
    /\ UNCHANGED <<goal, proposal, planned, mandate, auto, discovered, previews, history, crashes>>

Decline ==
    /\ at = "out" /\ status = "approving"
    /\ Escalate
    /\ UNCHANGED <<goal, proposal, planned, mandate, auto, kept>> /\ Quiet

\* Edits to a draft, which only a mandate nobody was shown calls for: the step
\* is driven anew.  A bare no stops the run.
Revise ==
    /\ at = "out" /\ status = "approving" /\ auto
    /\ kept' = discovered /\ status' = "running" /\ at' = "drive"
    /\ UNCHANGED <<goal, proposal, planned, mandate, auto, discovered>> /\ Quiet

StopPreview ==
    /\ at = "out" /\ status = "approving" /\ auto
    /\ kept' = discovered /\ discovered' = {} /\ status' = "stopped"
    /\ UNCHANGED <<goal, proposal, planned, mandate, auto, at>> /\ Quiet

\* Guidance, a confirmation or a denial drives the run on; a replan proposes
\* no mandate, and the run keeps the one it has.  The continuation is read,
\* unless the run's grants are still in memory.
Guide ==
    /\ at = "out" /\ status = "escalated"
    /\ discovered' \in {discovered, kept}
    /\ proposal' \in {proposal, NoMandate} /\ planned' = TRUE
    /\ status' = "running" /\ at' = "drive"
    /\ UNCHANGED <<goal, mandate, auto, kept>> /\ Quiet

\* A stop, a reply that settles the run, the reaper, or the plea to rephrase;
\* a stop alone releases nothing.
CloseEscalated ==
    /\ at = "out" /\ status = "escalated"
    /\ \/ status' \in {"stopped", "done", "escalated"} /\ discovered' = {}
       \/ status' = "stopped" /\ discovered' = discovered
    /\ UNCHANGED <<goal, proposal, planned, mandate, auto, kept, at>> /\ Quiet

\* A run that was driven is recovered, one that had no plan yet is put to the
\* owner; a card waits for its answer.
Crash ==
    /\ crashes < MaxCrashes /\ crashes' = crashes + 1
    /\ status # "pending"
    /\ \/ /\ status \in {"running", "planning"} /\ planned
          /\ discovered' = kept /\ at' = "drive"
          /\ UNCHANGED status
       \/ /\ status = "planning" /\ ~planned
          /\ Escalate
       \/ /\ status \notin {"running", "planning"}
          /\ discovered' = kept /\ at' = "out"
          /\ UNCHANGED status
    /\ reach' = {} /\ found' = {}
    /\ UNCHANGED <<goal, proposal, planned, mandate, auto, kept, previews, history>>

Next ==
    \/ Screened \/ FastPath \/ AskQuestions \/ StartPlanning \/ Plan
    \/ GoalGrants \/ ShowCard \/ NothingProposed
    \/ StartLoop \/ StepOver \/ StepFails \/ Finish
    \/ Approve \/ Decline \/ Revise \/ StopPreview \/ Guide \/ CloseEscalated \/ Crash
    \/ \E r \in Replies : Clarify(r)
    \/ \E yes \in BOOLEAN : AnswerCard(yes)
    \/ \E p \in Page : Fetch(p)
    \/ \E c \in Class, to \in SUBSET Address \ {{}} : Send(c, to) \/ Park(c, to)

Spec == Init /\ [][Next]_vars

-----------------------------------------------------------------------------
(* Properties.                                                             *)

\* Types; a mandate lists no refused or NEVER class (parse_mandate), whoever
\* proposed it, and its scope holds addresses and domains only.
TypeOK ==
    /\ status \in {"pending", "planning", "clarifying", "asked", "running", "approving",
                   "escalated", "stopped", "done"}
    /\ at \in {"intake", "fast", "plan", "proposed", "drive", "loop", "out"}
    /\ goal \in Goal /\ {proposal, mandate} \cup granted \subseteq Mandate
    /\ (proposal.types \cup mandate.types) \cap Forbidden = {}
    /\ planned \in BOOLEAN /\ auto \in BOOLEAN /\ previews \in BOOLEAN
    /\ kept \subseteq Address /\ discovered \subseteq Address /\ unasked \subseteq Address
    /\ reach \subseteq Address \cup Host
    /\ found \subseteq Page /\ read \subseteq Page
    /\ crashes \in 0..MaxCrashes

\* Why an address may be written to without a question: the owner wrote it, or
\* said yes to a card that lists it or its domain, or the run has read it on a
\* page of the organisation it belongs to.
Vouched(e) ==
    \/ e \in goal.own
    \/ \E m \in granted : e \in m.scope \/ \E d \in m.scope : <<HostOf[e], d>> \in Within
    \/ \E p \in read : /\ e \in Shows[p]
                      /\ OrgOf[HostOf[e]] = OrgOf[PageHost[p]] /\ OrgOf[HostOf[e]] # "none"

\* Over clarifications, cards, pages, parks, escalations and restarts, nobody
\* is written to unasked but those vouched for: never one who is only quoted,
\* only proposed by the model, or printed on somebody else's page.
OnlyVouched == \A e \in unasked : Vouched(e)

\* A mandate the owner was not shown is for sends alone, and the addresses it
\* lists are the owner's own words (owner_grant).
UnshownIsNarrow == auto => mandate.types \subseteq Sends /\ mandate.scope \subseteq goal.own

\* What was admitted survives a restart (_persist_continuation): otherwise the
\* next send to a discovered contact would be asked about again.
AdmittedSurvive == discovered \subseteq kept
=============================================================================

----------------------------- MODULE EventStream -----------------------------
(***************************************************************************)
(* The live stream of a run's events: the durable log of                   *)
(* src/flowers/seams/store.py, the server's side of a connection           *)
(* (channels/web.py, sse), and the page that reads it                      *)
(* (channels/static/index.html, connect).  The server reads the log and    *)
(* the run's status in separate calls, off its event loop; the page breaks *)
(* off and reconnects from the last event it rendered.  The threads that   *)
(* drive the run write to the log meanwhile, and save the run's last       *)
(* status before they write its last word (engine/operator.py, _finalize). *)
(*                                                                         *)
(* An event's id is its place in the log.  Keepalives are left out, and    *)
(* replay_only, which the page does not use.                               *)
(***************************************************************************)
EXTENDS Naturals, Sequences

CONSTANTS
    Words,          \* what an event may say
    LastWord,       \* what a run that is done says last
    MaxEvents,      \* bound on the log
    MaxDrops,       \* bound on broken connections and reloads
    MaxReopens      \* bound on runs taken up again after their end

ASSUME StreamAssumption ==
    /\ LastWord \in Words
    /\ {MaxEvents, MaxDrops, MaxReopens} \subseteq Nat

VARIABLES
    log, status,    \* the store: the events, whether the run is closed
    owed,           \* a thread has saved the end and not yet said it
    server, cursor, \* the stream: what it does next, the last event it read
    wire,           \* ids sent and not yet handled
    page,           \* the page's connection
    lastId,         \* the last event it rendered
    rendered,       \* what it shows
    drops, reopens,
    \* history
    closedAt,       \* the log's length when the end was saved
    said,           \* the id of the last word, or 0
    cut             \* the page's last stream broke

store == <<log, status, owed>>
stream == <<server, cursor, wire>>
client == <<page, lastId, rendered>>
history == <<closedAt, said, cut>>
vars == <<store, stream, client, drops, reopens, history>>

Init ==
    /\ log = <<>> /\ status = "open" /\ owed = FALSE
    /\ server = "off" /\ cursor = 0 /\ wire = <<>>
    /\ page = "idle" /\ lastId = 0 /\ rendered = <<>>
    /\ drops = 0 /\ reopens = 0
    /\ closedAt = 0 /\ said = 0 /\ cut = FALSE

-----------------------------------------------------------------------------
(* The run's threads.                                                      *)

\* append_event numbers under the store's lock.
Write(w) == Len(log) < MaxEvents /\ log' = Append(log, w)

\* Somebody tells the owner something; a message acknowledged late may come
\* when the run is closed.
Emit ==
    /\ \E w \in Words \ {LastWord} : Write(w)
    /\ UNCHANGED <<status, owed, stream, client, drops, reopens, history>>

\* The end is saved.
Close ==
    /\ status = "open" /\ ~owed
    /\ status' = "closed" /\ owed' = TRUE /\ closedAt' = Len(log)
    /\ UNCHANGED <<log, stream, client, drops, reopens, said, cut>>

\* Then it is said: of a run done the report, of one stopped a notice.
SayLast ==
    /\ owed /\ owed' = FALSE
    /\ \E w \in Words : Write(w)
    /\ said' = Len(log) + 1
    /\ UNCHANGED <<status, stream, client, drops, reopens, closedAt, cut>>

\* A re-verification that misses escalates a run that was done.
Reopen ==
    /\ status = "closed" /\ ~owed /\ reopens < MaxReopens
    /\ status' = "open" /\ reopens' = reopens + 1
    /\ UNCHANGED <<log, owed, stream, client, drops, history>>

-----------------------------------------------------------------------------
(* The server's side.                                                      *)

Ids(a, b) == [i \in 1..(b - a) |-> a + i]

\* All that the log holds after the cursor.
Read ==
    /\ wire' = wire \o Ids(cursor, Len(log))
    /\ cursor' = Len(log)

Drain ==
    /\ server = "drain" /\ server' = "status" /\ Read
    /\ UNCHANGED <<store, client, drops, reopens, history>>

ReadStatus ==
    /\ server = "status"
    /\ server' = IF status = "closed" THEN "final" ELSE "drain"
    /\ UNCHANGED <<store, cursor, wire, client, drops, reopens, history>>

\* The stream of a closed run ends where its first drain ended.
FinalDrainSkipped ==
    /\ server = "final" /\ server' = "ended" /\ UNCHANGED <<cursor, wire>>
    /\ UNCHANGED <<store, client, drops, reopens, history>>

FinalDrain ==
    /\ server = "final" /\ server' = "ended" /\ Read
    /\ UNCHANGED <<store, client, drops, reopens, history>>

-----------------------------------------------------------------------------
(* The page.                                                               *)

\* The cursor of a stream that goes on where the last one had read.
ServedCursor == cursor

\* The page asks for what comes after the last event it rendered.
AfterCursor == lastId

Connect ==
    /\ page = "idle" /\ page' = "reading"
    /\ server' = "drain" /\ cursor' = AfterCursor /\ wire' = <<>> /\ cut' = FALSE
    /\ UNCHANGED <<store, lastId, rendered, drops, reopens, closedAt, said>>

\* An event is rendered unless it was before; the report of a run that is done
\* ends the stream.
Render ==
    /\ page = "reading" /\ wire # <<>>
    /\ LET id == Head(wire) IN
          /\ IF id <= lastId THEN UNCHANGED <<lastId, rendered>>
             ELSE lastId' = id /\ rendered' = Append(rendered, log[id])
          /\ IF id > lastId /\ log[id] = LastWord
             THEN page' = "over" /\ server' = "off" /\ wire' = <<>>
             ELSE wire' = Tail(wire) /\ UNCHANGED <<page, server>>
    /\ UNCHANGED <<store, cursor, drops, reopens, history>>

\* A stream nobody reads goes on.
EndedStillServed ==
    /\ page = "reading" /\ server = "ended" /\ wire = <<>>
    /\ page' = "asking"
    /\ UNCHANGED <<store, stream, lastId, rendered, drops, reopens, history>>

Ended ==
    /\ page = "reading" /\ server = "ended" /\ wire = <<>>
    /\ page' = "asking" /\ server' = "off"
    /\ UNCHANGED <<store, cursor, wire, lastId, rendered, drops, reopens, history>>

\* A page that does not reconnect.
AskAgain ==
    /\ page = "asking" /\ status = "closed" /\ page' = "over"
    /\ UNCHANGED <<store, stream, lastId, rendered, drops, reopens, history>>

\* Before it reconnects the page asks whether the run is closed.  An answer
\* that does not come is taken for no.
Ask ==
    /\ page = "asking"
    /\ page' = IF status = "closed" THEN "over" ELSE "idle"
    /\ UNCHANGED <<store, stream, lastId, rendered, drops, reopens, history>>

AskFails ==
    /\ page = "asking" /\ drops < MaxDrops
    /\ page' = "idle" /\ drops' = drops + 1
    /\ UNCHANGED <<store, stream, lastId, rendered, reopens, history>>

Drop ==
    /\ page = "reading" /\ drops < MaxDrops
    /\ page' = "asking" /\ server' = "off" /\ wire' = <<>>
    /\ drops' = drops + 1 /\ cut' = TRUE
    /\ UNCHANGED <<store, cursor, lastId, rendered, reopens, closedAt, said>>

\* The server dies: what a thread was about to say is lost.
Restart ==
    /\ drops < MaxDrops /\ drops' = drops + 1
    /\ owed' = FALSE /\ server' = "off" /\ wire' = <<>>
    /\ page' = (IF page = "reading" THEN "asking" ELSE page)
    /\ cut' = (cut \/ page = "reading")
    /\ UNCHANGED <<log, status, cursor, lastId, rendered, reopens, closedAt, said>>

\* A page loaded anew takes up an open run and shows nothing of a closed one.
Reload ==
    /\ drops < MaxDrops /\ drops' = drops + 1
    /\ lastId' = 0 /\ rendered' = <<>>
    /\ page' = IF status = "open" THEN "idle" ELSE "gone"
    /\ server' = "off" /\ wire' = <<>>
    /\ UNCHANGED <<store, cursor, reopens, history>>

Serve == Drain \/ ReadStatus \/ FinalDrain
View == Connect \/ Render \/ Ended \/ Ask
Next ==
    \/ Emit \/ Close \/ SayLast \/ Reopen \/ Serve \/ View
    \/ AskFails \/ Drop \/ Restart \/ Reload

\* The server and the page go on; nothing is asked of the run or the network.
Spec == Init /\ [][Next]_vars /\ WF_vars(Serve) /\ WF_vars(View)

-----------------------------------------------------------------------------
(* Properties.                                                             *)

TypeOK ==
    /\ log \in Seq(Words) /\ rendered \in Seq(Words) /\ wire \in Seq(Nat)
    /\ status \in {"open", "closed"} /\ owed \in BOOLEAN /\ cut \in BOOLEAN
    /\ server \in {"off", "drain", "status", "final", "ended"}
    /\ page \in {"idle", "reading", "asking", "over", "gone"}
    /\ cursor \in Nat /\ lastId \in Nat /\ drops \in Nat /\ reopens \in Nat
    /\ closedAt \in Nat /\ said \in Nat
    /\ owed => status = "closed"
    /\ page # "reading" => wire = <<>> /\ server = "off"
    /\ page = "reading" => server # "off"

\* Whatever breaks, the page has rendered a prefix of the durable log, in order,
\* with no gap and nothing twice (channels/web.py:52, "resumes exactly where the
\* previous connection left off").
Promise == INSTANCE Feed WITH log <- log, rendered <- rendered
PrefixShown == Promise!Spec

\* A page whose stream came to its end has rendered all that was written before
\* the end was saved (channels/web.py:321).  What is written after it, the last
\* word included, may come too late for the final drain.
ShownToTheEnd == page = "over" /\ ~cut /\ reopens = 0 => lastId >= closedAt

\* An event that is written is rendered, unless the page was done with the run.
EventsArrive ==
    \A n \in 1..MaxEvents : Len(log) >= n ~> lastId >= n \/ page \in {"over", "gone"}

\* channels/web.py:322, "the run's last word is never lost to a close race".
LastWordShown == page = "over" /\ ~cut /\ said # 0 => lastId >= said
=============================================================================

-------------------------- MODULE EventStreamProofs --------------------------
(***************************************************************************)
(* Theorems about the EventStream module, for every set of words, length   *)
(* of the log and number of broken connections: the page implements Feed,  *)
(* and a page whose stream came to its end has seen all that was written   *)
(* before the end of the run.                                              *)
(***************************************************************************)
EXTENDS EventStream, SequenceTheorems, TLAPS

-----------------------------------------------------------------------------
(* Types.                                                                  *)

\* What has elements of data, what has none, and who is connected.
DataOK ==
    /\ log \in Seq(Words) /\ rendered \in Seq(Words) /\ wire \in Seq(Nat)
    /\ cursor \in Nat /\ lastId \in Nat /\ drops \in Nat /\ reopens \in Nat
    /\ closedAt \in Nat /\ said \in Nat

FlagsOK == owed \in BOOLEAN /\ cut \in BOOLEAN

ControlOK ==
    /\ status \in {"open", "closed"}
    /\ server \in {"off", "drain", "status", "final", "ended"}
    /\ page \in {"idle", "reading", "asking", "over", "gone"}
    /\ owed => status = "closed"
    /\ page # "reading" => wire = <<>> /\ server = "off"
    /\ page = "reading" => server # "off"

LEMMA TypeParts == TypeOK <=> DataOK /\ FlagsOK /\ ControlOK
BY DEF TypeOK, DataOK, FlagsOK, ControlOK

\* An event more.
LEMMA WriteGrows ==
    ASSUME log \in Seq(Words), NEW w \in Words, Write(w)
    PROVE  /\ log' \in Seq(Words) /\ Len(log') = Len(log) + 1
           /\ \A i \in 1..Len(log) : log'[i] = log[i]
           /\ log'[Len(log) + 1] = w
BY AppendProperties DEF Write

\* What a read puts on the wire goes on where the wire ended, without a gap.
LEMMA ReadGrows ==
    ASSUME DataOK, cursor <= Len(log), Read
    PROVE  /\ wire' \in Seq(Nat) /\ Len(wire') = Len(wire) + (Len(log) - cursor)
           /\ \A i \in 1..Len(wire) : wire'[i] = wire[i]
           /\ \A i \in (Len(wire) + 1)..Len(wire') : wire'[i] = cursor + (i - Len(wire))
           /\ cursor' = Len(log) /\ cursor' \in Nat
<1>1. Len(log) \in Nat /\ cursor \in Nat /\ Len(log) - cursor \in Nat /\ Len(wire) \in Nat
      BY LenProperties DEF DataOK
<1> DEFINE more == Ids(cursor, Len(log))
           n == Len(log) - cursor
<1>2. more \in [1..n -> Nat]
      BY <1>1 DEF Ids
<1>3. more \in Seq(Nat) /\ Len(more) = n
      BY <1>1, <1>2, IsASeq, LenProperties
<1>4. \A i \in 1..n : more[i] = cursor + i
      BY <1>1 DEF Ids
<1>5. wire' = wire \o more /\ cursor' = Len(log) /\ wire \in Seq(Nat)
      BY DEF Read, DataOK
<1> HIDE DEF more, n
<1>6. /\ wire' \in Seq(Nat) /\ Len(wire') = Len(wire) + n
      /\ \A i \in 1..(Len(wire) + n) :
            wire'[i] = IF i <= Len(wire) THEN wire[i] ELSE more[i - Len(wire)]
      BY <1>3, <1>5, ConcatProperties
<1>7. n \in Nat /\ n = Len(log) - cursor
      BY <1>1 DEF n
<1>8. \A i \in 1..Len(wire) : wire'[i] = wire[i]
      BY <1>1, <1>6, <1>7
<1>9. \A i \in (Len(wire) + 1)..Len(wire') : wire'[i] = cursor + (i - Len(wire))
  <2> SUFFICES ASSUME NEW i \in (Len(wire) + 1)..Len(wire')
               PROVE  wire'[i] = cursor + (i - Len(wire))
      OBVIOUS
  <2>1. i - Len(wire) \in 1..n /\ i \in 1..(Len(wire) + n) /\ ~(i <= Len(wire))
        BY <1>1, <1>6, <1>7
  <2> QED BY <2>1, <1>4, <1>6
<1> QED BY <1>1, <1>5, <1>6, <1>7, <1>8, <1>9

-----------------------------------------------------------------------------
(* The cursor.  The ids on the wire follow the last one rendered without a  *)
(* gap, and the server's cursor is the last of them.                        *)

Followed ==
    /\ lastId <= Len(log)
    /\ page = "reading" => cursor = lastId + Len(wire) /\ cursor <= Len(log)
    /\ \A i \in 1..Len(wire) : wire[i] = lastId + i

Shown ==
    /\ Len(rendered) = lastId
    /\ \A i \in 1..lastId : rendered[i] = log[i]

FeedInv == DataOK /\ FlagsOK /\ ControlOK /\ Followed /\ Shown

LEMMA FeedInit == Init => FeedInv
<1> SUFFICES ASSUME Init
             PROVE  FeedInv
    OBVIOUS
<1>1. Len(<<>>) = 0 /\ <<>> \in Seq(Words) /\ <<>> \in Seq(Nat)
      BY EmptySeq
<1>2. DataOK
      BY <1>1 DEF Init, DataOK
<1>3. FlagsOK
      BY DEF Init, FlagsOK
<1>4. ControlOK
      BY DEF Init, ControlOK
<1>5. Followed /\ Shown
      BY <1>1 DEF Init, Followed, Shown
<1> QED BY <1>2, <1>3, <1>4, <1>5 DEF FeedInv

\* A step that only writes to the log.
LEMMA WriteKeeps ==
    ASSUME FeedInv, NEW w \in Words, Write(w),
           UNCHANGED <<page, server, cursor, wire, lastId, rendered>>
    PROVE  Followed' /\ Shown' /\ log' \in Seq(Words)
<1>1. log \in Seq(Words) /\ lastId \in Nat /\ cursor \in Nat /\ lastId <= Len(log)
      BY DEF FeedInv, DataOK, Followed
<1>2. /\ log' \in Seq(Words) /\ Len(log') = Len(log) + 1
      /\ \A i \in 1..Len(log) : log'[i] = log[i]
      BY <1>1, WriteGrows
<1>3. Len(log) \in Nat
      BY <1>1, LenProperties
<1>4. Followed'
      BY <1>1, <1>2, <1>3 DEF FeedInv, Followed
<1>5. Shown'
      BY <1>1, <1>2, <1>3 DEF FeedInv, Shown
<1> QED BY <1>2, <1>4, <1>5

\* A step of the server that reads the log.
LEMMA ReadKeeps ==
    ASSUME FeedInv, page = "reading", Read, UNCHANGED <<log, page, lastId, rendered>>
    PROVE  Followed' /\ Shown' /\ wire' \in Seq(Nat) /\ cursor' \in Nat
<1>1. /\ cursor = lastId + Len(wire) /\ cursor <= Len(log) /\ lastId <= Len(log)
      /\ \A i \in 1..Len(wire) : wire[i] = lastId + i
      BY DEF FeedInv, Followed
<1>2. DataOK
      BY DEF FeedInv
<1>3. lastId \in Nat /\ Len(log) \in Nat /\ Len(wire) \in Nat
      BY <1>2, LenProperties DEF DataOK
<1>4. /\ wire' \in Seq(Nat) /\ Len(wire') = Len(wire) + (Len(log) - cursor)
      /\ \A i \in 1..Len(wire) : wire'[i] = wire[i]
      /\ \A i \in (Len(wire) + 1)..Len(wire') : wire'[i] = cursor + (i - Len(wire))
      /\ cursor' = Len(log) /\ cursor' \in Nat
      BY <1>1, <1>2, ReadGrows
<1>5. Len(wire') \in Nat
      BY <1>4, LenProperties
<1>6. \A i \in 1..Len(wire') : wire'[i] = lastId + i
  <2> SUFFICES ASSUME NEW i \in 1..Len(wire')
               PROVE  wire'[i] = lastId + i
      OBVIOUS
  <2>1. CASE i <= Len(wire)
        BY <2>1, <1>1, <1>3, <1>4
  <2>2. CASE ~(i <= Len(wire))
    <3>1. i \in (Len(wire) + 1)..Len(wire')
          BY <2>2, <1>3, <1>5
    <3>2. wire'[i] = cursor + (i - Len(wire))
          BY <3>1, <1>4
    <3> QED BY <3>2, <1>1, <1>3
  <2> QED BY <2>1, <2>2
<1>7. cursor' = lastId' + Len(wire') /\ cursor' <= Len(log')
      BY <1>1, <1>3, <1>4
<1>8. Followed'
      BY <1>1, <1>6, <1>7 DEF Followed
<1>9. Shown'
      BY DEF FeedInv, Shown
<1> QED BY <1>4, <1>8, <1>9

\* The steps of the run's threads.
LEMMA RunStep ==
    ASSUME FeedInv, Emit \/ Close \/ SayLast \/ Reopen
    PROVE  FeedInv' /\ [Promise!Next]_(Promise!vars)
<1>1. DataOK /\ FlagsOK /\ ControlOK /\ Followed /\ Shown
      BY DEF FeedInv
<1>2. LastWord \in Words
      BY StreamAssumption DEF StreamAssumption
<1>3. ASSUME NEW w \in Words, Write(w),
             UNCHANGED <<page, server, cursor, wire, lastId, rendered>>
      PROVE  /\ Followed' /\ Shown' /\ log' \in Seq(Words)
             /\ [Promise!Next]_(Promise!vars)
  <2>1. Followed' /\ Shown' /\ log' \in Seq(Words)
        BY <1>3, WriteKeeps
  <2>2. Promise!Write
        BY <1>3 DEF Write, Promise!Write
  <2> QED BY <2>1, <2>2 DEF Promise!Next
<1>4. CASE Emit
  <2>1. PICK w \in Words \ {LastWord} : Write(w)
        BY <1>4 DEF Emit
  <2>2. UNCHANGED <<page, server, cursor, wire, lastId, rendered>>
        BY <1>4 DEF Emit, stream, client
  <2>3. Followed' /\ Shown' /\ log' \in Seq(Words) /\ [Promise!Next]_(Promise!vars)
        BY <2>1, <2>2, <1>3
  <2>4. DataOK'
        BY <2>3, <1>1, <1>4 DEF Emit, stream, client, history, DataOK
  <2>5. FlagsOK' /\ ControlOK'
        BY <1>1, <1>4 DEF Emit, stream, client, history, FlagsOK, ControlOK
  <2> QED BY <2>3, <2>4, <2>5 DEF FeedInv
<1>5. CASE Close
  <2>1. DataOK'
        BY <1>1, <1>5, LenProperties DEF Close, stream, client, DataOK
  <2>2. FlagsOK'
        BY <1>1, <1>5 DEF Close, FlagsOK
  <2>3. ControlOK'
        BY <1>1, <1>5 DEF Close, stream, client, ControlOK
  <2>4. Followed' /\ Shown' /\ UNCHANGED Promise!vars
        BY <1>1, <1>5 DEF Close, stream, client, Followed, Shown, Promise!vars
  <2> QED BY <2>1, <2>2, <2>3, <2>4 DEF FeedInv
<1>6. CASE SayLast
  <2>1. PICK w \in Words : Write(w)
        BY <1>6 DEF SayLast
  <2>2. UNCHANGED <<page, server, cursor, wire, lastId, rendered>>
        BY <1>6 DEF SayLast, stream, client
  <2>3. Followed' /\ Shown' /\ log' \in Seq(Words) /\ [Promise!Next]_(Promise!vars)
        BY <2>1, <2>2, <1>3
  <2>4. Len(log) + 1 \in Nat
        BY <1>1, LenProperties DEF DataOK
  <2>5. DataOK'
        BY <2>3, <2>4, <1>1, <1>6 DEF SayLast, stream, client, DataOK
  <2>6. FlagsOK'
        BY <1>1, <1>6 DEF SayLast, FlagsOK
  <2>7. ControlOK'
        BY <1>1, <1>6 DEF SayLast, stream, client, ControlOK
  <2> QED BY <2>3, <2>5, <2>6, <2>7 DEF FeedInv
<1>7. CASE Reopen
  <2>1. DataOK'
        BY <1>1, <1>7 DEF Reopen, stream, client, history, DataOK
  <2>2. FlagsOK'
        BY <1>1, <1>7 DEF Reopen, history, FlagsOK
  <2>3. ControlOK'
        BY <1>1, <1>7 DEF Reopen, stream, client, ControlOK
  <2>4. Followed' /\ Shown' /\ UNCHANGED Promise!vars
        BY <1>1, <1>7 DEF Reopen, stream, client, Followed, Shown, Promise!vars
  <2> QED BY <2>1, <2>2, <2>3, <2>4 DEF FeedInv
<1> QED BY <1>4, <1>5, <1>6, <1>7

\* The steps of the server.
LEMMA ServeStep ==
    ASSUME FeedInv, Serve
    PROVE  FeedInv' /\ [Promise!Next]_(Promise!vars)
<1>1. DataOK /\ FlagsOK /\ ControlOK /\ Followed /\ Shown
      BY DEF FeedInv
<1>2. page = "reading" /\ UNCHANGED <<log, page, lastId, rendered>>
      BY <1>1 DEF Serve, Drain, ReadStatus, FinalDrain, ControlOK, store, client
<1>3. UNCHANGED Promise!vars
      BY <1>2 DEF Promise!vars
<1>4. FlagsOK'
      BY <1>1 DEF Serve, Drain, ReadStatus, FinalDrain, FlagsOK, store, history
<1>5. CASE Drain \/ FinalDrain
  <2>1. Read
        BY <1>5 DEF Drain, FinalDrain
  <2>2. Followed' /\ Shown' /\ wire' \in Seq(Nat) /\ cursor' \in Nat
        BY <2>1, <1>2, ReadKeeps
  <2>3. DataOK'
        BY <2>2, <1>1, <1>5 DEF Drain, FinalDrain, store, client, history, DataOK
  <2>4. ControlOK'
        BY <1>1, <1>2, <1>5 DEF Drain, FinalDrain, store, client, ControlOK
  <2> QED BY <2>2, <2>3, <2>4, <1>3, <1>4 DEF FeedInv
<1>6. CASE ReadStatus
  <2>1. DataOK' /\ Followed' /\ Shown'
        BY <1>1, <1>6 DEF ReadStatus, store, client, history, DataOK, Followed, Shown
  <2>2. ControlOK'
        BY <1>1, <1>2, <1>6 DEF ReadStatus, store, client, ControlOK
  <2> QED BY <2>1, <2>2, <1>3, <1>4 DEF FeedInv
<1> QED BY <1>5, <1>6 DEF Serve

\* What the page renders is the next event of the log.
LEMMA RenderStep ==
    ASSUME FeedInv, Render
    PROVE  FeedInv' /\ [Promise!Next]_(Promise!vars)
<1>1. DataOK /\ FlagsOK /\ ControlOK /\ Followed /\ Shown
      BY DEF FeedInv
<1>2. /\ page = "reading" /\ wire # <<>> /\ wire \in Seq(Nat)
      /\ UNCHANGED <<log, cursor>>
      BY <1>1 DEF Render, store, DataOK
<1>3. /\ Len(wire) \in Nat /\ Len(wire) >= 1 /\ Head(wire) = wire[1]
      /\ Tail(wire) \in Seq(Nat) /\ Len(Tail(wire)) = Len(wire) - 1
      /\ \A i \in 1..Len(Tail(wire)) : Tail(wire)[i] = wire[i + 1]
      BY <1>2, HeadTailProperties, LenProperties, EmptySeq
<1>4. /\ lastId \in Nat /\ Len(log) \in Nat /\ cursor = lastId + Len(wire)
      /\ cursor <= Len(log) /\ wire[1] = lastId + 1
      /\ \A i \in 1..Len(wire) : wire[i] = lastId + i
      BY <1>1, <1>2, <1>3, LenProperties DEF DataOK, Followed
<1>5. lastId' = lastId + 1 /\ rendered' = Append(rendered, log[lastId + 1])
      BY <1>3, <1>4 DEF Render
<1>6. log \in Seq(Words) /\ lastId + 1 \in 1..Len(log)
      BY <1>1, <1>3, <1>4 DEF DataOK
<1>7. log[lastId + 1] \in Words
      BY <1>6, ElementOfSeq
<1>8. rendered \in Seq(Words) /\ Len(rendered) = lastId
      BY <1>1 DEF DataOK, Shown
<1>9. /\ rendered' \in Seq(Words) /\ Len(rendered') = lastId + 1
      /\ \A i \in 1..lastId : rendered'[i] = rendered[i]
      /\ rendered'[lastId + 1] = log[lastId + 1]
      BY <1>5, <1>7, <1>8, AppendProperties
<1>10. Shown'
  <2>1. \A i \in 1..(lastId + 1) : rendered'[i] = log[i]
        BY <1>1, <1>4, <1>9 DEF Shown
  <2> QED BY <2>1, <1>2, <1>5, <1>9 DEF Shown
<1>11. \/ page' = "over" /\ server' = "off" /\ wire' = <<>>
       \/ wire' = Tail(wire) /\ UNCHANGED <<page, server>>
       BY DEF Render
<1>12. wire' \in Seq(Nat)
       BY <1>3, <1>11, EmptySeq
<1>13. Followed'
  <2>1. lastId' <= Len(log')
        BY <1>2, <1>5, <1>6
  <2>2. CASE page' = "over" /\ wire' = <<>>
    <3>1. Len(wire') = 0
          BY <2>2, EmptySeq
    <3> QED BY <2>1, <2>2, <3>1 DEF Followed
  <2>3. CASE wire' = Tail(wire)
    <3>1. \A i \in 1..Len(wire') : wire'[i] = lastId' + i
      <4> SUFFICES ASSUME NEW i \in 1..Len(wire')
                   PROVE  wire'[i] = lastId' + i
          OBVIOUS
      <4>1. wire'[i] = wire[i + 1] /\ i + 1 \in 1..Len(wire)
            BY <2>3, <1>3
      <4> QED BY <4>1, <1>4, <1>5
    <3>2. cursor' = lastId' + Len(wire') /\ cursor' <= Len(log')
          BY <2>3, <1>2, <1>3, <1>4, <1>5
    <3> QED BY <2>1, <3>1, <3>2 DEF Followed
  <2> QED BY <2>2, <2>3, <1>11
<1>14. DataOK'
       BY <1>1, <1>4, <1>5, <1>9, <1>12 DEF DataOK, Render, store, history
<1>15. FlagsOK'
       BY <1>1 DEF Render, store, history, FlagsOK
<1>16. ControlOK'
       BY <1>1, <1>2, <1>11 DEF Render, store, ControlOK
<1>17. Promise!Render
  <2>1. Len(rendered) < Len(log)
        BY <1>4, <1>6, <1>8
  <2> QED BY <2>1, <1>2, <1>5, <1>8 DEF Promise!Render
<1> QED BY <1>10, <1>13, <1>14, <1>15, <1>16, <1>17 DEF FeedInv, Promise!Next

\* A step of the page's connection that shows nothing, or of what breaks it.
LEMMA ConnectionStep ==
    ASSUME FeedInv, Connect \/ Ended \/ Ask \/ AskFails \/ Drop \/ Restart \/ Reload
    PROVE  FeedInv' /\ [Promise!Next]_(Promise!vars)
<1>1. DataOK /\ FlagsOK /\ ControlOK /\ Followed /\ Shown
      BY DEF FeedInv
<1>2. Len(<<>>) = 0 /\ <<>> \in Seq(Nat) /\ <<>> \in Seq(Words)
      BY EmptySeq
<1>3. lastId \in Nat /\ lastId <= Len(log) /\ Len(log) \in Nat
      BY <1>1, LenProperties DEF DataOK, Followed
<1>4. DataOK'
  <2>1. CASE Connect
        BY <2>1, <1>1, <1>2 DEF DataOK, Connect, AfterCursor, store
  <2>2. CASE Ended
        BY <2>2, <1>1 DEF DataOK, Ended, store, history
  <2>3. CASE Ask
        BY <2>3, <1>1 DEF DataOK, Ask, store, stream, history
  <2>4. CASE AskFails
        BY <2>4, <1>1 DEF DataOK, AskFails, store, stream, history
  <2>5. CASE Drop
        BY <2>5, <1>1, <1>2 DEF DataOK, Drop, store
  <2>6. CASE Restart
        BY <2>6, <1>1, <1>2 DEF DataOK, Restart
  <2>7. CASE Reload
        BY <2>7, <1>1, <1>2 DEF DataOK, Reload, store, history
  <2> QED BY <2>1, <2>2, <2>3, <2>4, <2>5, <2>6, <2>7
<1>5. FlagsOK'
  <2>1. CASE Connect \/ Ended \/ Ask \/ AskFails \/ Reload
        BY <2>1, <1>1 DEF FlagsOK, Connect, Ended, Ask, AskFails, Reload, store, history
  <2>2. CASE Drop \/ Restart
        BY <2>2, <1>1 DEF FlagsOK, Drop, Restart, store
  <2> QED BY <2>1, <2>2
<1>6. ControlOK'
      BY <1>1 DEF ControlOK, Connect, Ended, Ask, AskFails, Drop, Restart, Reload,
                  store, stream
<1>7. CASE Connect \/ Ended \/ Ask \/ AskFails \/ Drop \/ Restart
  <2>1. UNCHANGED <<log, lastId, rendered>>
        BY <1>7 DEF Connect, Ended, Ask, AskFails, Drop, Restart, store
  <2>2. Followed'
        BY <1>1, <1>2, <1>3, <1>7
        DEF Followed, ControlOK, Connect, Ended, Ask, AskFails, Drop, Restart,
            AfterCursor, store, stream
  <2>3. Shown' /\ UNCHANGED Promise!vars
        BY <2>1, <1>1 DEF Shown, Promise!vars
  <2> QED BY <2>2, <2>3, <1>4, <1>5, <1>6 DEF FeedInv
<1>8. CASE Reload
  <2>1. Promise!Reload
        BY <1>8 DEF Reload, store, Promise!Reload
  <2>2. Followed' /\ Shown'
        BY <1>2, <1>3, <1>8 DEF Reload, store, Followed, Shown
  <2> QED BY <2>1, <2>2, <1>4, <1>5, <1>6 DEF FeedInv, Promise!Next
<1> QED BY <1>7, <1>8

LEMMA FeedNext ==
    ASSUME FeedInv, [Next]_vars
    PROVE  FeedInv' /\ [Promise!Next]_(Promise!vars)
<1>1. CASE Next
      BY <1>1, RunStep, ServeStep, RenderStep, ConnectionStep DEF Next, View
<1>2. CASE UNCHANGED vars
  <2>1. UNCHANGED <<store, stream, client, history, drops, reopens>>
        BY <1>2 DEF vars
  <2>2. UNCHANGED <<log, status, owed, server, cursor, wire, page, lastId, rendered, drops,
                    reopens, closedAt, said, cut>>
        BY <2>1 DEF store, stream, client, history
  <2>3. DataOK' /\ ControlOK' /\ Followed' /\ Shown' /\ UNCHANGED Promise!vars
        BY <2>2 DEF FeedInv, DataOK, ControlOK, Followed, Shown, Promise!vars
  <2>4. FlagsOK'
        BY <2>2 DEF FeedInv, FlagsOK
  <2> QED BY <2>3, <2>4 DEF FeedInv
<1> QED BY <1>1, <1>2

LEMMA FeedInvHolds == Spec => []FeedInv
<1>1. FeedInv /\ [Next]_vars => FeedInv'
      BY FeedNext
<1> QED BY FeedInit, <1>1, PTL DEF Spec

\* The stream keeps its types: above all, a stream is served exactly while the
\* page reads it, and what one left on the wire is gone with it.
THEOREM TypeCorrect == Spec => []TypeOK
<1>1. FeedInv => TypeOK
      BY TypeParts DEF FeedInv
<1> QED BY FeedInvHolds, <1>1, PTL

\* Whatever connections break and whenever the page reconnects or the server is
\* started anew, the page renders the durable log in order, no event missing and
\* none twice: the stream implements Feed.
THEOREM StreamImplementsFeed == Spec => PrefixShown
<1>1. Init => Promise!Init
      BY DEF Init, Promise!Init
<1>2. FeedInv /\ [Next]_vars => [Promise!Next]_(Promise!vars)
      BY FeedNext
<1> QED BY FeedInvHolds, <1>1, <1>2, PTL DEF Spec, PrefixShown, Promise!Spec

-----------------------------------------------------------------------------
(* The end of the stream.  ShownToTheEnd looks at the page alone; what makes *)
(* it hold is that the server reads the log once more after it has seen the  *)
(* run closed, and that the last word comes after the end was saved.         *)

EndSeen ==
    /\ server = "final" => status = "closed"
    /\ server = "ended" => status = "closed" /\ closedAt <= cursor
    /\ page \in {"asking", "over"} /\ ~cut => status = "closed" /\ closedAt <= lastId

LastWordAfter ==
    \A i \in 1..Len(log) : log[i] = LastWord => status = "closed" /\ closedAt < i

EndInv ==
    /\ closedAt <= Len(log)
    /\ reopens = 0 => EndSeen /\ LastWordAfter

LEMMA EndInit == Init => EndInv
BY EmptySeq DEF Init, EndInv, EndSeen, LastWordAfter

LEMMA EndRun ==
    ASSUME FeedInv, EndInv, Emit \/ Close \/ SayLast \/ Reopen
    PROVE  EndInv'
<1>1. /\ log \in Seq(Words) /\ Len(log) \in Nat /\ closedAt \in Nat /\ reopens \in Nat
      /\ closedAt <= Len(log) /\ LastWord \in Words /\ (owed => status = "closed")
      BY LenProperties, StreamAssumption
      DEF FeedInv, DataOK, ControlOK, EndInv, StreamAssumption
<1>2. CASE Emit
  <2>1. PICK w \in Words \ {LastWord} : Write(w)
        BY <1>2 DEF Emit
  <2>2. /\ Len(log') = Len(log) + 1 /\ log'[Len(log) + 1] # LastWord
        /\ \A i \in 1..Len(log) : log'[i] = log[i]
        BY <1>1, <2>1, WriteGrows
  <2>3. UNCHANGED <<status, server, cursor, page, lastId, cut, closedAt, reopens>>
        BY <1>2 DEF Emit, stream, client, history
  <2>4. LastWordAfter => LastWordAfter'
    <3> SUFFICES ASSUME LastWordAfter, NEW i \in 1..(Len(log) + 1), log'[i] = LastWord
                 PROVE  status = "closed" /\ closedAt < i
        BY <2>2, <2>3 DEF LastWordAfter
    <3>1. i \in 1..Len(log)
          BY <1>1, <2>2
    <3> QED BY <3>1, <2>2 DEF LastWordAfter
  <2>5. EndSeen => EndSeen'
        BY <2>3 DEF EndSeen
  <2> QED BY <1>1, <2>2, <2>3, <2>4, <2>5 DEF EndInv
<1>3. CASE Close
  <2>1. /\ status = "open" /\ closedAt' = Len(log) /\ status' = "closed"
        /\ UNCHANGED <<log, server, cursor, page, lastId, cut, reopens>>
        BY <1>3 DEF Close, stream, client
  <2>2. ASSUME reopens = 0
        PROVE  EndSeen' /\ LastWordAfter'
    <3>1. EndSeen /\ LastWordAfter
          BY <2>2 DEF EndInv
    <3>2. EndSeen'
          BY <2>1, <3>1 DEF EndSeen
    <3>3. LastWordAfter'
          BY <2>1, <3>1 DEF LastWordAfter
    <3> QED BY <3>2, <3>3
  <2> QED BY <1>1, <2>1, <2>2 DEF EndInv
<1>4. CASE SayLast
  <2>1. PICK w \in Words : Write(w)
        BY <1>4 DEF SayLast
  <2>2. /\ Len(log') = Len(log) + 1
        /\ \A i \in 1..Len(log) : log'[i] = log[i]
        BY <1>1, <2>1, WriteGrows
  <2>3. UNCHANGED <<status, server, cursor, page, lastId, cut, closedAt, reopens>>
        BY <1>4 DEF SayLast, stream, client
  <2>4. status = "closed"
        BY <1>1, <1>4 DEF SayLast
  <2>5. LastWordAfter => LastWordAfter'
    <3> SUFFICES ASSUME LastWordAfter, NEW i \in 1..(Len(log) + 1), log'[i] = LastWord
                 PROVE  closedAt < i
        BY <2>2, <2>3, <2>4 DEF LastWordAfter
    <3>1. CASE i = Len(log) + 1
          BY <3>1, <1>1
    <3>2. CASE i # Len(log) + 1
      <4>1. i \in 1..Len(log)
            BY <3>2, <1>1
      <4> QED BY <4>1, <2>2 DEF LastWordAfter
    <3> QED BY <3>1, <3>2
  <2>6. EndSeen => EndSeen'
        BY <2>3 DEF EndSeen
  <2> QED BY <1>1, <2>2, <2>3, <2>5, <2>6 DEF EndInv
<1>5. CASE Reopen
      BY <1>1, <1>5 DEF Reopen, history, EndInv
<1> QED BY <1>2, <1>3, <1>4, <1>5

LEMMA EndServe ==
    ASSUME FeedInv, EndInv, Serve
    PROVE  EndInv'
<1>1. /\ UNCHANGED <<log, status, page, lastId, cut, closedAt, reopens>>
      /\ page = "reading" /\ server \in {"drain", "status", "final"}
      BY DEF Serve, Drain, ReadStatus, FinalDrain, FeedInv, ControlOK, store, client, history
<1>2. closedAt <= Len(log)
      BY DEF EndInv
<1>3. LastWordAfter => LastWordAfter'
      BY <1>1 DEF LastWordAfter
<1>4. EndSeen => EndSeen'
  <2>1. CASE Drain
        BY <2>1, <1>1 DEF Drain, EndSeen
  <2>2. CASE ReadStatus
        BY <2>2, <1>1 DEF ReadStatus, EndSeen
  <2>3. CASE FinalDrain
        BY <2>3, <1>1, <1>2 DEF FinalDrain, Read, EndSeen
  <2> QED BY <2>1, <2>2, <2>3 DEF Serve
<1> QED BY <1>1, <1>2, <1>3, <1>4 DEF EndInv

LEMMA EndView ==
    ASSUME FeedInv, EndInv, View \/ AskFails \/ Drop \/ Restart \/ Reload
    PROVE  EndInv'
<1>1. UNCHANGED <<log, status, closedAt, reopens>>
      BY DEF View, Connect, Render, Ended, Ask, AskFails, Drop, Restart, Reload,
             store, stream, history
<1>2. LastWordAfter => LastWordAfter'
      BY <1>1 DEF LastWordAfter
<1>3. LastWordAfter /\ EndSeen => EndSeen'
  <2> SUFFICES ASSUME LastWordAfter, EndSeen
               PROVE  EndSeen'
      OBVIOUS
  <2>1. CASE Connect \/ Ask \/ AskFails
        BY <2>1, <1>1 DEF FeedInv, ControlOK, EndSeen, Connect, Ask, AskFails, store, stream, history
  <2>2. CASE Ended
    <3>1. Len(wire) = 0 /\ cursor = lastId + Len(wire) /\ lastId \in Nat
          BY <2>2, EmptySeq DEF Ended, FeedInv, Followed, DataOK
    <3>2. status = "closed" /\ closedAt <= lastId
          BY <3>1, <2>2 DEF Ended, EndSeen
    <3>3. server' = "off" /\ UNCHANGED lastId
          BY <2>2 DEF Ended
    <3> QED BY <3>2, <3>3, <1>1 DEF EndSeen
  <2>3. CASE Render
    <3>1. page = "reading" /\ wire # <<>>
          BY <2>3 DEF Render
    <3>2. CASE page' = page /\ server' = server
          BY <2>3, <3>1, <3>2, <1>1 DEF Render, EndSeen
    <3>3. CASE ~(page' = page /\ server' = server)
      <4> DEFINE id == Head(wire)
      <4>1. id > lastId /\ log[id] = LastWord
            BY <2>3, <3>3 DEF Render
      <4>2. id \in Nat /\ lastId \in Nat
            BY <3>1, HeadTailProperties DEF FeedInv, DataOK
      <4>3. lastId' = id
            BY <2>3, <4>1, <4>2 DEF Render
      <4>4. id > lastId /\ log[id] = LastWord /\ lastId' = id /\ server' = "off"
            BY <2>3, <4>1, <4>3 DEF Render
      <4>5. id \in 1..Len(log)
        <5>1. wire \in Seq(Nat) /\ page = "reading" /\ lastId \in Nat /\ Len(log) \in Nat
              BY <3>1, LenProperties DEF FeedInv, DataOK
        <5>2. Len(wire) \in Nat /\ Len(wire) >= 1 /\ Head(wire) = wire[1]
              BY <3>1, <5>1, HeadTailProperties, LenProperties, EmptySeq
        <5>3. wire[1] = lastId + 1 /\ cursor = lastId + Len(wire) /\ cursor <= Len(log)
              BY <5>1, <5>2 DEF FeedInv, Followed
        <5> QED BY <5>1, <5>2, <5>3
      <4>6. status = "closed" /\ closedAt < id
            BY <4>4, <4>5 DEF LastWordAfter
      <4>7. closedAt <= lastId' /\ closedAt \in Nat
            BY <4>4, <4>5, <4>6 DEF FeedInv, DataOK
      <4> QED BY <4>4, <4>6, <4>7, <1>1 DEF EndSeen
    <3> QED BY <3>2, <3>3
  <2>4. CASE Drop \/ Reload
        BY <2>4, <1>1 DEF Drop, Reload, EndSeen
  <2>5. CASE Restart
    <3>1. server' = "off" /\ UNCHANGED lastId
          BY <2>5 DEF Restart
    <3>2. CASE page = "reading"
          BY <2>5, <3>1, <3>2 DEF Restart, EndSeen
    <3>3. CASE page # "reading"
      <4>1. page' = page /\ (cut' = cut)
            BY <2>5, <3>3 DEF Restart, FeedInv, FlagsOK
      <4> QED BY <4>1, <3>1, <1>1 DEF EndSeen
    <3> QED BY <3>2, <3>3
  <2> QED BY <2>1, <2>2, <2>3, <2>4, <2>5 DEF View
<1> QED BY <1>1, <1>2, <1>3 DEF EndInv

\* A page whose stream came to its end has rendered all that was written before
\* the end of the run was saved, wherever the reads of the log and of the status
\* fall between the writes of the run's threads (channels/web.py, sse).
THEOREM ShownToTheEndHolds == Spec => []ShownToTheEnd
<1>1. FeedInv /\ EndInv /\ [Next]_vars => EndInv'
  <2> SUFFICES ASSUME FeedInv, EndInv, [Next]_vars
               PROVE  EndInv'
      OBVIOUS
  <2>1. CASE UNCHANGED vars
    <3>1. UNCHANGED <<log, status, server, cursor, page, lastId, cut, closedAt, reopens>>
          BY <2>1 DEF vars, store, stream, client, history
    <3> QED BY <3>1 DEF EndInv, EndSeen, LastWordAfter
  <2> QED BY <2>1, EndRun, EndServe, EndView DEF Next
<1>2. EndInv => ShownToTheEnd
      BY DEF EndInv, EndSeen, ShownToTheEnd
<1> QED BY FeedInvHolds, EndInit, <1>1, <1>2, PTL DEF Spec
=============================================================================

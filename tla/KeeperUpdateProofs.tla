------------------------- MODULE KeeperUpdateProofs -------------------------
(***************************************************************************)
(* Proofs about the preparation of a keeper update, for any sessions and   *)
(* any finite set of requests that overlap.  The inductive invariant says  *)
(* which requests hold the two gates, what a closed gate excludes, and     *)
(* what is known of the keeper's channels once a preparation has compared  *)
(* the coordinator's sessions with the worker's table.                     *)
(***************************************************************************)
EXTENDS KeeperUpdate, FiniteSetTheorems, TLAPS

Rowset == [kind : {"opened", "closed"}, session : Sessions]

\* What TypeOK leaves out: the rows, and that a row under way is there.
RowInv ==
    /\ drain = {} \/ \E r \in Requests : drain = {r}
    /\ outbox \in Seq(Rowset)
    /\ sent # "none" => outbox # <<>>

\* The preparations that are counted.
Counted == {r \in Requests : task[r] \in Running \cup {"queued"}} \cup proven

\* The boundary is held by a running preparation past its turn, or by a proof.
Past(r) == task[r] \in Running \ {"turn"}
Bounded == proven # {} \/ \E r \in Requests : Past(r)

\* A request that was not decided has no task; a proof belongs to a task that
\* succeeded; one task runs at a time; and a running task is the one that
\* closed the boundary exactly when no proof held it closed before.
TaskInv ==
    /\ \A r \in Requests : phase[r] \in {"idle", "held"} => task[r] = "none"
    /\ \A r \in proven : task[r] = "ok"
    /\ \A q, r \in Requests : task[q] \in Running /\ task[r] \in Running => q = r
    /\ preparations = Cardinality(Counted)
    /\ blocked <=> Bounded
    /\ \A r \in changed : r \in proven \/ Past(r)
    /\ \A r \in Requests : Past(r) => (r \in changed <=> proven = {})

\* A closed gate excludes what it is there to exclude.
GateInv ==
    /\ Bounded => Creating = {}
    /\ proven # {} => pass = "none"
    /\ \A r \in Requests : Past(r) /\ task[r] # "boundary" => pass = "none"

\* Every channel is of a session under way, in the table or closed; once the
\* comparison has been made, of one the coordinator decided about or closed.
ChannelInv ==
    /\ \A s \in channels : stage[s] \in {"made", "opened", "live", "gone"}
    /\ \A r \in Requests :
          task[r] \in {"probe", "shutdown", "force"} => channels \subseteq frame[r].ids \cup Ended
    /\ \A r \in Requests : task[r] = "force" => frame[r].mode = "forced"

IInv ==
    /\ TypeOK
    /\ RowInv
    /\ TaskInv
    /\ GateInv
    /\ ChannelInv

----------------------------------------------------------------------------

\* A set of requests is finite, and empty when it counts none.
LEMMA CountOf ==
  ASSUME NEW C \in SUBSET Requests
  PROVE  /\ IsFiniteSet(C)
         /\ Cardinality(C) \in 0..Cardinality(Requests)
         /\ Cardinality(C) = 0 => C = {}
  <1>1. IsFiniteSet(C) /\ Cardinality(C) <= Cardinality(Requests)
    BY KeeperAssumption, FS_Subset
  <1>2. Cardinality(C) \in Nat /\ Cardinality(Requests) \in Nat
    BY <1>1, KeeperAssumption, FS_CardinalityType
  <1> QED BY <1>1, <1>2, FS_EmptySet

\* No holder or one holder of the drain.
LEMMA HolderCount ==
  ASSUME NEW D, D = {} \/ \E r \in Requests : D = {r}
  PROVE  Cardinality(D) <= 1
  <1>1. Cardinality(D) = 0 \/ Cardinality(D) = 1
    BY FS_EmptySet, FS_Singleton, Zenon
  <1> QED BY <1>1

\* Nothing is under way at the start.
LEMMA InitEstablishes == Init => IInv
  <1> SUFFICES ASSUME Init PROVE IInv
    OBVIOUS
  <1> USE DEF Init
  <1>1. Counted = {} /\ ~Bounded
    BY DEF Counted, Bounded, Past, Running
  <1>2. TypeOK
    <2>1. Cardinality({}) = 0 /\ 0 \in 0..Cardinality(Requests)
      BY FS_EmptySet, FS_CardinalityType, KeeperAssumption
    <2>2. frame \in [Requests -> [mode : Modes \cup {"none"}, ids : SUBSET Sessions]]
      BY DEF NoFrame
    <2>3. /\ phase \in [Requests -> {"idle", "held", "waiting", "done"}]
          /\ stage \in [Sessions -> {"none", "creating", "made", "opened", "live", "gone"}]
          /\ task \in [Requests -> Running \cup Settled \cup {"none", "frame", "queued"}]
      OBVIOUS
    <2>4. blocked \in BOOLEAN /\ keeper \in BOOLEAN
      BY Zenon
    <2> QED BY <2>1, <2>2, <2>3, <2>4 DEF TypeOK
  <1>3. RowInv
    BY DEF RowInv
  <1>4. TaskInv
    <2>1. preparations = Cardinality(Counted)
      BY <1>1, FS_EmptySet
    <2> QED BY <1>1, <2>1 DEF TaskInv, Running, Past
  <1>5. GateInv /\ ChannelInv
    BY <1>1 DEF GateInv, ChannelInv
  <1> QED BY <1>2, <1>3, <1>4, <1>5 DEF IInv

\* What the tasks, the gates and the requests share: a step that leaves them
\* alone leaves TaskInv as it was.
LEMMA TasksUntouched ==
  ASSUME TaskInv, UNCHANGED <<phase, task, gateVars, proven>>
  PROVE  TaskInv' /\ Counted' = Counted /\ Bounded' = Bounded
  BY DEF TaskInv, Counted, Bounded, Past, gateVars

\* A session's step: a creation begins only while no preparation is counted,
\* and only a creation under way adds a channel.
LEMMA SessionPreserves ==
  ASSUME IInv, NEW s \in Sessions, SessionStep(s)
  PROVE  IInv'
  <1>1. /\ UNCHANGED <<drain, phase, open, sent, task, frame, gateVars, pass, proven, keeper>>
        /\ outbox' = outbox \/ \E row \in Rowset : outbox' = Append(outbox, row)
    BY DEF SessionStep, CreateBegin, CreateChannel, CreateFailed, CreateOpened,
           CreateEnd, ChannelExit, SessionEnd, Kill, CloseChannel, Advance, Emit, otherThanSessions,
           coordVars, passVars, Rowset
  <1>2. \E to \in {"creating", "made", "opened", "live", "gone"} :
           stage' = stage \/ stage' = [stage EXCEPT ![s] = to]
    BY DEF SessionStep, CreateBegin, CreateChannel, CreateFailed, CreateOpened,
           CreateEnd, ChannelExit, SessionEnd, Kill, CloseChannel, Advance
  <1>3. \/ channels' \subseteq channels
        \/ channels' = channels \cup {s} /\ s \in Creating
    BY DEF SessionStep, CreateBegin, CreateChannel, CreateFailed, CreateOpened,
           CreateEnd, ChannelExit, SessionEnd, Kill, CloseChannel, Advance, Creating
  <1>4. preparations = 0 \/ Creating' \subseteq Creating
    BY <1>2 DEF SessionStep, CreateBegin, CreateChannel, CreateFailed, CreateOpened,
                CreateEnd, ChannelExit, SessionEnd, Kill, CloseChannel, Advance, Creating, IInv, TypeOK
  <1>5. TypeOK'
    BY <1>1, <1>2, <1>3 DEF IInv, TypeOK, gateVars
  <1>6. RowInv'
    BY <1>1 DEF IInv, RowInv
  <1>7. TaskInv' /\ Counted' = Counted /\ Bounded' = Bounded
    BY <1>1, TasksUntouched DEF IInv
  <1>8. Bounded => Creating = {} /\ Creating' = {}
    <2>1. Bounded => Counted # {}
      BY DEF Bounded, Counted, Past
    <2>2. Counted # {} => preparations # 0
      BY CountOf DEF IInv, TaskInv, TypeOK, Counted
    <2> QED BY <1>4, <2>1, <2>2 DEF IInv, GateInv
  <1>9. GateInv'
    BY <1>1, <1>7, <1>8 DEF IInv, GateInv, Past
  <1>10. ChannelInv'
    <2>1. \A x \in channels' : stage'[x] \in {"made", "opened", "live", "gone"}
      BY DEF SessionStep, CreateBegin, CreateChannel, CreateFailed, CreateOpened,
             CreateEnd, ChannelExit, SessionEnd, Kill, CloseChannel, Advance, IInv, ChannelInv, TypeOK
    <2>2. \A r \in Requests :
             task[r] \in {"probe", "shutdown", "force"} => channels' \subseteq channels
      BY <1>3, <1>8 DEF Bounded, Past, Running
    <2>3. Ended \subseteq Ended'
      BY DEF SessionStep, CreateBegin, CreateChannel, CreateFailed, CreateOpened,
             CreateEnd, ChannelExit, SessionEnd, Kill, CloseChannel, Advance, Ended, IInv, TypeOK
    <2> QED BY <1>1, <2>1, <2>2, <2>3 DEF IInv, ChannelInv, Ended
  <1> QED BY <1>5, <1>6, <1>7, <1>9, <1>10 DEF IInv

\* A row's step touches neither the tasks nor the gates.
LEMMA RowsPreserve ==
  ASSUME IInv, Rows
  PROVE  IInv'
  <1>1. /\ UNCHANGED <<drain, phase, task, frame, stage, gateVars, pass, proven, keeper, channels>>
        /\ sent' \in {"none", "sent", "leased", "refused", "acked"}
    BY DEF Rows, SendHead, CoordRead, CoordCommit, RowAcked, coordVars,
           workerVars, keeperVars, passVars
  <1>2. RowInv' /\ open' \subseteq Sessions
    <2>1. \A q \in Seq(Rowset) : q # <<>> => Head(q) \in Rowset /\ Tail(q) \in Seq(Rowset)
      OBVIOUS
    <2>2. outbox # <<>> => Projected(Head(outbox)) \subseteq Sessions
      BY <2>1 DEF Projected, IInv, RowInv, TypeOK, Rowset
    <2> QED BY <1>1, <2>1, <2>2 DEF Rows, SendHead, CoordRead, CoordCommit, RowAcked,
               coordVars, IInv, RowInv, TypeOK
  <1>3. TypeOK'
    BY <1>1, <1>2 DEF IInv, TypeOK, gateVars
  <1>4. TaskInv' /\ Bounded' = Bounded
    BY <1>1, TasksUntouched DEF IInv
  <1>5. GateInv' /\ ChannelInv'
    BY <1>1, <1>4 DEF IInv, GateInv, ChannelInv, Creating, Ended, Past
  <1> QED BY <1>2, <1>3, <1>4, <1>5 DEF IInv

\* A step that moves tasks only among the stages no gate looks at.
LEMMA TasksUncounted ==
  ASSUME IInv, UNCHANGED <<gateVars, proven>>,
         \A r \in Requests :
            task'[r] = task[r] \/ (task[r] \in {"none", "frame"} /\ task'[r] \in {"none", "frame"}),
         \A r \in Requests : phase'[r] \in {"idle", "held"} => task'[r] = "none"
  PROVE  TaskInv' /\ (Bounded' <=> Bounded)
  <1>1. \A r \in Requests : Past(r)' <=> Past(r)
    BY DEF Past, Running
  <1>2. Counted' = Counted
    BY DEF Counted, Running
  <1>3. Bounded' <=> Bounded
    BY <1>1 DEF Bounded
  <1>4. \A q \in Requests : task'[q] \in Running <=> task[q] \in Running
    BY DEF Running
  <1>5. \A q \in proven' : task'[q] = "ok"
    BY DEF IInv, TypeOK, TaskInv
  <1>6. changed' = changed /\ changed \subseteq Requests
    BY DEF gateVars, IInv, TypeOK
  <1>7. TaskInv'
    BY <1>1, <1>2, <1>3, <1>4, <1>5, <1>6 DEF IInv, TaskInv, gateVars
  <1> QED BY <1>3, <1>7

\* A step of the coordinator's handler: only Acquire takes the drain, when no
\* one has it, and only Decide gives a request its task.
LEMMA HandlerPreserves ==
  ASSUME IInv, NEW r \in Requests, Handler(r)
  PROVE  IInv'
  <1>1. UNCHANGED <<open, outbox, sent, stage, gateVars, pass, proven, keeper, channels>>
    BY DEF Handler, Acquire, Refuse, Decide, Answer, Deadline, Return,
           rowVars, workerVars, keeperVars, passVars
  <1>2. /\ \E x \in {"held", "waiting", "done"} :
              /\ phase' = [phase EXCEPT ![r] = x]
              /\ x = "held" => phase[r] = "idle"
        /\ phase[r] = "idle" => phase'[r] = "held"
        /\ \/ UNCHANGED <<task, frame>>
           \/ /\ phase[r] = "held" /\ phase' = [phase EXCEPT ![r] = "waiting"]
              /\ task' = [task EXCEPT ![r] = "frame"]
              /\ \E m \in Modes : frame' = [frame EXCEPT ![r] = [mode |-> m, ids |-> open]]
    BY DEF Handler, Acquire, Refuse, Decide, Answer, Deadline, Return, workerVars, IInv, TypeOK
  <1>3. drain' = {} \/ \E q \in Requests : drain' = {q}
    BY DEF Handler, Acquire, Refuse, Decide, Answer, Deadline, Return, IInv, RowInv
  <1>4. phase' \in [Requests -> {"idle", "held", "waiting", "done"}]
    BY <1>2 DEF IInv, TypeOK
  <1>5. task' \in [Requests -> Running \cup Settled \cup {"none", "frame", "queued"}]
    BY <1>2 DEF IInv, TypeOK
  <1>6. frame' \in [Requests -> [mode : Modes \cup {"none"}, ids : SUBSET Sessions]]
    BY <1>2 DEF IInv, TypeOK
  <1>7. TypeOK'
    BY <1>1, <1>3, <1>4, <1>5, <1>6, HolderCount DEF IInv, TypeOK, gateVars
  <1>8. /\ \A q \in Requests : phase'[q] \in {"idle", "held"} => task'[q] = "none"
        /\ \A q \in Requests : task'[q] # task[q] => task[q] = "none" /\ task'[q] = "frame"
        /\ \A q \in Requests : task'[q] # "frame" => frame'[q] = frame[q]
    BY <1>2 DEF IInv, TypeOK, TaskInv
  <1>9. TaskInv' /\ (Bounded' <=> Bounded)
    <2>1. \A q \in Requests :
             task'[q] = task[q] \/ (task[q] \in {"none", "frame"} /\ task'[q] \in {"none", "frame"})
      BY <1>8
    <2> QED BY <1>1, <1>8, <2>1, TasksUncounted
  <1>10. RowInv'
    BY <1>1, <1>3 DEF IInv, RowInv
  <1>11. GateInv'
    <2>1. \A q \in Requests : task'[q] \in Running \ {"turn"} => task'[q] = task[q]
      BY <1>8 DEF Running
    <2> QED BY <1>1, <1>8, <1>9, <2>1 DEF IInv, GateInv, Creating, Past
  <1>12. ChannelInv'
    BY <1>1, <1>8 DEF IInv, ChannelInv, Ended
  <1> QED BY <1>7, <1>9, <1>10, <1>11, <1>12 DEF IInv

\* A lost connection takes the frames on their way with it, and no task that
\* arrived.
LEMMA DisconnectPreserves ==
  ASSUME IInv, Disconnect
  PROVE  IInv'
  <1>1. /\ UNCHANGED <<outbox, stage, gateVars, pass, proven, keeper, channels>>
        /\ sent' = "none"
    BY DEF Disconnect, passVars, keeperVars
  <1>2. \A q \in Requests :
           /\ phase'[q] = IF phase[q] = "waiting" THEN "done" ELSE phase[q]
           /\ task'[q] = IF task[q] = "frame" THEN "none" ELSE task[q]
           /\ frame'[q] = IF task[q] = "frame" THEN NoFrame ELSE frame[q]
    BY DEF Disconnect
  <1>3. open' \subseteq Sessions
    <2>1. \A q \in Seq(Rowset) : q # <<>> => Head(q) \in Rowset
      OBVIOUS
    <2> QED BY <2>1 DEF Disconnect, Projected, IInv, TypeOK, RowInv, Rowset
  <1>4. drain' = {} \/ \E q \in Requests : drain' = {q}
    BY DEF Disconnect, IInv, RowInv
  <1>5. phase' \in [Requests -> {"idle", "held", "waiting", "done"}]
    BY <1>2 DEF Disconnect, IInv, TypeOK
  <1>6. task' \in [Requests -> Running \cup Settled \cup {"none", "frame", "queued"}]
    BY <1>2 DEF Disconnect, IInv, TypeOK
  <1>7. frame' \in [Requests -> [mode : Modes \cup {"none"}, ids : SUBSET Sessions]]
    BY <1>2 DEF Disconnect, IInv, TypeOK, NoFrame
  <1>8. TypeOK'
    BY <1>1, <1>3, <1>4, <1>5, <1>6, <1>7, HolderCount DEF IInv, TypeOK, gateVars
  <1>9. \A q \in Requests : phase'[q] \in {"idle", "held"} => task'[q] = "none"
    BY <1>2 DEF IInv, TypeOK, TaskInv
  <1>10. TaskInv' /\ (Bounded' <=> Bounded)
    <2>1. \A q \in Requests :
             task'[q] = task[q] \/ (task[q] \in {"none", "frame"} /\ task'[q] \in {"none", "frame"})
      BY <1>2
    <2> QED BY <1>1, <1>9, <2>1, TasksUncounted
  <1>11. RowInv'
    BY <1>1, <1>4 DEF IInv, RowInv
  <1>12. GateInv'
    <2>1. \A q \in Requests : task'[q] \in Running \ {"turn"} => task'[q] = task[q]
      BY <1>2 DEF Running
    <2> QED BY <1>1, <1>2, <1>10, <2>1 DEF IInv, GateInv, Creating, Past
  <1>13. ChannelInv'
    BY <1>1, <1>2 DEF IInv, ChannelInv, Ended
  <1> QED BY <1>8, <1>10, <1>11, <1>12, <1>13 DEF IInv

\* A pass starts only while the boundary is open.
LEMMA PassesPreserve ==
  ASSUME IInv, Passes
  PROVE  IInv'
  <1>1. /\ UNCHANGED <<drain, phase, open, outbox, sent, task, frame, stage, gateVars,
                       proven, keeper, channels>>
        /\ pass' \in {"none", "waiting", "running"}
        /\ pass' # "none" => pass # "none" \/ ~blocked
    BY DEF Passes, PassStart, PassReplayed, PassEnd, coordVars, rowVars, keeperVars
  <1>2. TypeOK' /\ RowInv'
    BY <1>1 DEF IInv, TypeOK, RowInv, gateVars
  <1>3. TaskInv' /\ Bounded' = Bounded
    BY <1>1, TasksUntouched DEF IInv
  <1>4. GateInv' /\ ChannelInv'
    BY <1>1, <1>3 DEF IInv, TaskInv, GateInv, ChannelInv, Creating, Ended, Past, Bounded
  <1> QED BY <1>2, <1>3, <1>4 DEF IInv

\* What a step of a preparation never touches.
LEMMA TaskStepFrame ==
  ASSUME UNCHANGED otherThanTask
  PROVE  UNCHANGED <<drain, phase, open, outbox, sent, stage, pass>>
  BY DEF otherThanTask, coordVars, rowVars, passVars

\* The runner is alone, it is counted, and it has no proof yet.
LEMMA RunnerFacts ==
  ASSUME IInv, NEW r \in Requests, task[r] \in Running
  PROVE  /\ \A q \in Requests : q # r => task[q] \notin Running
         /\ \A q \in Requests : Past(q) => q = r
         /\ r \in Counted /\ r \notin proven
         /\ phase[r] \notin {"idle", "held"}
  BY DEF IInv, TaskInv, TypeOK, Past, Counted, Running

\* A frame arrives: one more preparation is counted.
LEMMA ArrivePreserves ==
  ASSUME IInv, NEW r \in Requests, Arrive(r)
  PROVE  IInv'
  <1>1. /\ task[r] = "frame" /\ task' = [task EXCEPT ![r] = "queued"]
        /\ preparations' = preparations + 1
        /\ UNCHANGED <<drain, phase, open, outbox, sent, stage, pass, frame, blocked,
                       changed, proven, keeper, channels>>
    BY TaskStepFrame DEF Arrive, otherThanTask, keeperVars
  <1>2. /\ task'[r] = "queued" /\ \A q \in Requests : q # r => task'[q] = task[q]
        /\ task' \in [Requests -> Running \cup Settled \cup {"none", "frame", "queued"}]
    BY <1>1 DEF IInv, TypeOK
  <1>3. Counted \subseteq Requests /\ r \notin Counted /\ Counted' = Counted \cup {r}
    BY <1>1, <1>2 DEF IInv, TypeOK, TaskInv, Counted, Running
  <1>4. preparations' = Cardinality(Counted') /\ preparations' \in 0..Cardinality(Requests)
    <2>1. IsFiniteSet(Counted) /\ Counted' \in SUBSET Requests
      BY <1>3, CountOf
    <2>2. Cardinality(Counted \cup {r}) = Cardinality(Counted) + 1
      BY <1>3, <2>1, FS_AddElement
    <2> QED BY <1>1, <1>3, <2>1, <2>2, CountOf DEF IInv, TaskInv
  <1>5. \A q \in Requests : Past(q)' <=> Past(q)
    BY <1>1, <1>2 DEF Past, Running
  <1>6. Bounded' <=> Bounded
    BY <1>1, <1>5 DEF Bounded
  <1>7. TypeOK' /\ RowInv'
    BY <1>1, <1>2, <1>4 DEF IInv, TypeOK, RowInv
  <1>8. TaskInv'
    <2>1. \A q \in Requests : task'[q] \in Running => task[q] \in Running
      BY <1>2 DEF Running
    <2>2. \A q \in proven : task'[q] = "ok"
      BY <1>1, <1>2 DEF IInv, TypeOK, TaskInv
    <2>3. \A q \in Requests : phase'[q] \in {"idle", "held"} => task'[q] = "none"
      BY <1>1, <1>2 DEF IInv, TaskInv
    <2> QED BY <1>1, <1>4, <1>5, <1>6, <2>1, <2>2, <2>3 DEF IInv, TypeOK, TaskInv
  <1>9. GateInv'
    <2>1. \A q \in Requests : task'[q] \in Running \ {"turn"} => task'[q] = task[q]
      BY <1>2 DEF Running
    <2> QED BY <1>1, <1>6, <2>1 DEF IInv, GateInv, Creating, Past
  <1>10. ChannelInv'
    BY <1>1, <1>2 DEF IInv, ChannelInv, Ended
  <1> QED BY <1>7, <1>8, <1>9, <1>10 DEF IInv

\* A preparation gets its turn when no other runs.
LEMMA TurnPreserves ==
  ASSUME IInv, NEW r \in Requests, Turn(r)
  PROVE  IInv'
  <1>1. /\ task[r] = "queued" /\ task' = [task EXCEPT ![r] = "turn"]
        /\ \A q \in Requests : task[q] \notin Running
        /\ UNCHANGED <<drain, phase, open, outbox, sent, stage, pass, frame, gateVars,
                       proven, keeper, channels>>
    BY TaskStepFrame DEF Turn, otherThanTask, keeperVars
  <1>2. /\ task'[r] = "turn" /\ \A q \in Requests : q # r => task'[q] = task[q]
        /\ task' \in [Requests -> Running \cup Settled \cup {"none", "frame", "queued"}]
    BY <1>1 DEF IInv, TypeOK, Running
  <1>3. Counted' = Counted
    BY <1>1, <1>2 DEF Counted, Running
  <1>4. \A q \in Requests : ~Past(q) /\ ~Past(q)'
    BY <1>1, <1>2 DEF Past, Running
  <1>5. Bounded' <=> Bounded
    BY <1>1, <1>4 DEF Bounded
  <1>6. TypeOK' /\ RowInv'
    BY <1>1, <1>2 DEF IInv, TypeOK, RowInv, gateVars
  <1>7. TaskInv'
    <2>1. \A q \in Requests : task'[q] \in Running => q = r
      BY <1>1, <1>2
    <2>2. \A q \in proven : task'[q] = "ok"
      BY <1>1, <1>2 DEF IInv, TypeOK, TaskInv
    <2>3. \A q \in Requests : phase'[q] \in {"idle", "held"} => task'[q] = "none"
      BY <1>1, <1>2 DEF IInv, TaskInv
    <2> QED BY <1>1, <1>3, <1>4, <1>5, <2>1, <2>2, <2>3 DEF IInv, TypeOK, TaskInv, gateVars
  <1>8. GateInv'
    BY <1>1, <1>4, <1>5 DEF IInv, GateInv, Creating
  <1>9. ChannelInv'
    BY <1>1, <1>2 DEF IInv, ChannelInv, Ended
  <1> QED BY <1>6, <1>7, <1>8, <1>9 DEF IInv

\* The boundary closes: with a proof it was closed before, and without one
\* this preparation is the one that closed it.
LEMMA CloseBoundaryPreserves ==
  ASSUME IInv, NEW r \in Requests, CloseBoundary(r)
  PROVE  IInv'
  <1>1. /\ task[r] = "turn" /\ task' = [task EXCEPT ![r] = "boundary"] /\ Creating = {}
        /\ blocked' = TRUE /\ changed' = IF blocked THEN changed ELSE changed \cup {r}
        /\ UNCHANGED <<drain, phase, open, outbox, sent, stage, pass, frame, preparations,
                       proven, keeper, channels>>
    BY TaskStepFrame DEF CloseBoundary, otherThanTask, keeperVars
  <1>2. /\ task'[r] = "boundary" /\ \A q \in Requests : q # r => task'[q] = task[q]
        /\ task' \in [Requests -> Running \cup Settled \cup {"none", "frame", "queued"}]
    BY <1>1 DEF IInv, TypeOK, Running
  <1>3. /\ \A q \in Requests : q # r => task[q] \notin Running /\ task'[q] \notin Running
        /\ r \notin proven /\ phase[r] \notin {"idle", "held"}
    BY <1>1, <1>2, RunnerFacts DEF Running
  <1>4. Counted' = Counted
    BY <1>1, <1>2 DEF Counted, Running
  <1>5. /\ \A q \in Requests : ~Past(q) /\ (Past(q)' <=> q = r)
        /\ Bounded' /\ (Bounded <=> proven # {})
    BY <1>1, <1>2, <1>3 DEF Past, Running, Bounded
  <1>6. changed' \subseteq Requests
    BY <1>1 DEF IInv, TypeOK
  <1>7. blocked' \in BOOLEAN
    BY <1>1, Zenon
  <1>8. TypeOK' /\ RowInv'
    BY <1>1, <1>2, <1>6, <1>7 DEF IInv, TypeOK, RowInv
  <1>9. TaskInv'
    <2>1. blocked <=> proven # {}
      BY <1>5 DEF IInv, TaskInv
    <2>2. \A q \in changed : q \in proven
      BY <1>5 DEF IInv, TypeOK, TaskInv
    <2>3. /\ \A q \in changed' : q \in proven' \/ Past(q)'
          /\ \A q \in Requests : Past(q)' => (q \in changed' <=> proven' = {})
      BY <1>1, <1>3, <1>5, <2>1, <2>2
    <2>4. \A q \in proven : task'[q] = "ok"
      BY <1>1, <1>2, <1>3 DEF IInv, TypeOK, TaskInv
    <2>5. \A q \in Requests : phase'[q] \in {"idle", "held"} => task'[q] = "none"
      BY <1>1, <1>2, <1>3 DEF IInv, TaskInv
    <2>6. preparations' = Cardinality(Counted') /\ (blocked' <=> Bounded')
      BY <1>1, <1>4, <1>5 DEF IInv, TaskInv
    <2> QED BY <1>1, <1>3, <2>3, <2>4, <2>5, <2>6 DEF TaskInv
  <1>10. GateInv'
    BY <1>1, <1>2, <1>5 DEF IInv, GateInv, Creating
  <1>11. ChannelInv'
    BY <1>1, <1>2 DEF IInv, ChannelInv, Ended
  <1> QED BY <1>8, <1>9, <1>10, <1>11 DEF IInv

\* A preparation past its turn takes another step of its own, with no pass
\* under way: the gates stay as they are.
LEMMA StepOnPreserves ==
  ASSUME IInv, NEW r \in Requests, Past(r), pass = "none",
         NEW step \in Running \ {"turn", "boundary"}, Goto(r, step), UNCHANGED otherThanTask
  PROVE  /\ RowInv' /\ TaskInv' /\ GateInv'
         /\ (keeper' \in BOOLEAN /\ channels' \subseteq Sessions) => TypeOK'
         /\ task'[r] = step /\ frame' = frame
         /\ \A q \in Requests : q # r => task'[q] \notin Running
  <1>1. /\ task' = [task EXCEPT ![r] = step]
        /\ UNCHANGED <<drain, phase, open, outbox, sent, stage, pass, frame, gateVars, proven>>
    BY TaskStepFrame DEF Goto
  <1>2. /\ task'[r] = step /\ \A q \in Requests : q # r => task'[q] = task[q]
        /\ task' \in [Requests -> Running \cup Settled \cup {"none", "frame", "queued"}]
    BY <1>1 DEF IInv, TypeOK, Running
  <1>3. /\ \A q \in Requests : q # r => task[q] \notin Running /\ task'[q] \notin Running
        /\ r \notin proven /\ phase[r] \notin {"idle", "held"} /\ task[r] \in Running
    BY <1>1, <1>2, RunnerFacts DEF Past, Running
  <1>4. Counted' = Counted
    BY <1>1, <1>2, <1>3 DEF Counted
  <1>5. /\ \A q \in Requests : (Past(q) <=> q = r) /\ (Past(q)' <=> q = r)
        /\ Bounded /\ Bounded'
    BY <1>1, <1>2, <1>3 DEF Past, Bounded, Running
  <1>6. (keeper' \in BOOLEAN /\ channels' \subseteq Sessions) => TypeOK'
    BY <1>1, <1>2 DEF IInv, TypeOK, gateVars
  <1>7. TaskInv'
    <2>1. \A q \in proven : task'[q] = "ok"
      BY <1>1, <1>2, <1>3 DEF IInv, TypeOK, TaskInv
    <2>2. \A q \in Requests : phase'[q] \in {"idle", "held"} => task'[q] = "none"
      BY <1>1, <1>2, <1>3 DEF IInv, TaskInv
    <2> QED BY <1>1, <1>3, <1>4, <1>5, <2>1, <2>2 DEF IInv, TypeOK, TaskInv, gateVars
  <1>8. RowInv' /\ GateInv'
    BY <1>1, <1>5 DEF IInv, RowInv, GateInv, Creating
  <1> QED BY <1>1, <1>2, <1>3, <1>6, <1>7, <1>8

\* A preparation ends and gives back what it closed: the gates are what the
\* others make them.
LEMMA ReopenPreserves ==
  ASSUME IInv, NEW r \in Requests, Past(r), NEW result \in Settled,
         Settle(r, result), Reopen(r), UNCHANGED <<proven, otherThanTask, keeperVars>>
  PROVE  IInv'
  <1>1. /\ task' = [task EXCEPT ![r] = result] /\ frame' = [frame EXCEPT ![r] = NoFrame]
        /\ preparations' = preparations - 1
        /\ blocked' = (blocked /\ r \notin changed) /\ changed' = changed \ {r}
        /\ UNCHANGED <<drain, phase, open, outbox, sent, stage, pass, proven, keeper, channels>>
    BY TaskStepFrame DEF Settle, Reopen, keeperVars
  <1>2. /\ task'[r] = result /\ \A q \in Requests : q # r => task'[q] = task[q]
        /\ task' \in [Requests -> Running \cup Settled \cup {"none", "frame", "queued"}]
        /\ frame' \in [Requests -> [mode : Modes \cup {"none"}, ids : SUBSET Sessions]]
    BY <1>1 DEF IInv, TypeOK, NoFrame
  <1>3. /\ \A q \in Requests : task'[q] \notin Running
        /\ r \notin proven /\ phase[r] \notin {"idle", "held"} /\ r \in Counted
    BY <1>1, <1>2, RunnerFacts DEF Past, Running, Settled
  <1>4. Counted \subseteq Requests /\ Counted' = Counted \ {r}
    BY <1>1, <1>2, <1>3 DEF IInv, TypeOK, Counted, Settled
  <1>5. preparations' = Cardinality(Counted') /\ preparations' \in 0..Cardinality(Requests)
    <2>1. IsFiniteSet(Counted) /\ Counted' \in SUBSET Requests
      BY <1>4, CountOf
    <2>2. Cardinality(Counted \ {r}) = Cardinality(Counted) - 1
      BY <1>3, <2>1, FS_RemoveElement
    <2> QED BY <1>1, <1>4, <2>1, <2>2, CountOf DEF IInv, TaskInv
  <1>6. /\ \A q \in Requests : ~Past(q)' /\ (Past(q) => q = r)
        /\ Bounded /\ (Bounded' <=> proven # {})
    BY <1>1, <1>3, RunnerFacts DEF Past, Bounded
  <1>7. blocked' <=> Bounded'
    BY <1>1, <1>6 DEF IInv, TaskInv
  <1>8. blocked' \in BOOLEAN
    BY <1>1, Zenon
  <1>9. TypeOK' /\ RowInv'
    BY <1>1, <1>2, <1>5, <1>8 DEF IInv, TypeOK, RowInv
  <1>10. TaskInv'
    <2>1. \A q \in proven : task'[q] = "ok"
      BY <1>2, <1>3 DEF IInv, TypeOK, TaskInv
    <2>2. \A q \in Requests : phase'[q] \in {"idle", "held"} => task'[q] = "none"
      BY <1>1, <1>2, <1>3 DEF IInv, TaskInv
    <2>3. \A q \in changed' : q \in proven'
      BY <1>1, <1>6 DEF IInv, TypeOK, TaskInv
    <2> QED BY <1>1, <1>3, <1>5, <1>6, <1>7, <2>1, <2>2, <2>3 DEF TaskInv
  <1>11. GateInv'
    BY <1>1, <1>6 DEF IInv, GateInv, Creating
  <1>12. ChannelInv'
    BY <1>1, <1>3 DEF IInv, ChannelInv, Ended, Running
  <1> QED BY <1>9, <1>10, <1>11, <1>12 DEF IInv

\* A journaled preparation succeeds with no pass under way: the gates it
\* leaves closed belong to its proof.
LEMMA ProvenPreserves ==
  ASSUME IInv, NEW r \in Requests, Past(r), pass = "none",
         Settle(r, "ok"), proven' = proven \cup {r},
         UNCHANGED <<gateVars, otherThanTask, keeperVars>>
  PROVE  IInv'
  <1>1. /\ task' = [task EXCEPT ![r] = "ok"] /\ frame' = [frame EXCEPT ![r] = NoFrame]
        /\ UNCHANGED <<drain, phase, open, outbox, sent, stage, pass, gateVars, keeper, channels>>
    BY TaskStepFrame DEF Settle, keeperVars
  <1>2. /\ task'[r] = "ok" /\ \A q \in Requests : q # r => task'[q] = task[q]
        /\ task' \in [Requests -> Running \cup Settled \cup {"none", "frame", "queued"}]
        /\ frame' \in [Requests -> [mode : Modes \cup {"none"}, ids : SUBSET Sessions]]
    BY <1>1 DEF IInv, TypeOK, NoFrame, Settled
  <1>3. /\ \A q \in Requests : task'[q] \notin Running
        /\ r \notin proven /\ phase[r] \notin {"idle", "held"} /\ r \in Counted
    BY <1>1, <1>2, RunnerFacts DEF Past, Running
  <1>4. Counted' = Counted
    BY <1>1, <1>2, <1>3 DEF IInv, TypeOK, Counted
  <1>5. /\ \A q \in Requests : ~Past(q)' /\ (Past(q) => q = r)
        /\ Bounded /\ Bounded'
    BY <1>1, <1>3, RunnerFacts DEF Past, Bounded
  <1>6. TypeOK' /\ RowInv'
    BY <1>1, <1>2 DEF IInv, TypeOK, RowInv, gateVars
  <1>7. TaskInv'
    <2>1. \A q \in proven' : task'[q] = "ok"
      BY <1>2, <1>3 DEF IInv, TypeOK, TaskInv
    <2>2. \A q \in Requests : phase'[q] \in {"idle", "held"} => task'[q] = "none"
      BY <1>1, <1>2, <1>3 DEF IInv, TaskInv
    <2>3. \A q \in changed' : q \in proven'
      BY <1>1, <1>5 DEF IInv, TypeOK, TaskInv, gateVars
    <2> QED BY <1>1, <1>3, <1>4, <1>5, <2>1, <2>2, <2>3 DEF IInv, TaskInv, gateVars
  <1>8. GateInv'
    BY <1>1, <1>5 DEF IInv, GateInv, Creating
  <1>9. ChannelInv'
    BY <1>1, <1>3 DEF IInv, ChannelInv, Ended, Running
  <1> QED BY <1>6, <1>7, <1>8, <1>9 DEF IInv

\* A failure past the boundary.
LEMMA FailPreserves ==
  ASSUME IInv, NEW r \in Requests, Past(r), Fail(r), UNCHANGED <<otherThanTask, keeperVars>>
  PROVE  IInv'
  <1>1. "failed" \in Settled
    BY DEF Settled
  <1> QED BY <1>1, ReopenPreserves DEF Fail

\* A success past the boundary.
LEMMA SucceedPreserves ==
  ASSUME IInv, NEW r \in Requests, Past(r), pass = "none", Succeed(r),
         UNCHANGED <<otherThanTask, keeperVars>>
  PROVE  IInv'
  <1>1. "ok" \in Settled
    BY DEF Settled
  <1> QED BY <1>1, ReopenPreserves, ProvenPreserves DEF Succeed

\* The boundary is held.
LEMMA HoldBoundaryPreserves ==
  ASSUME IInv, NEW r \in Requests, HoldBoundary(r)
  PROVE  IInv'
  <1>1. /\ Past(r) /\ pass = "none" /\ Goto(r, "compare") /\ UNCHANGED otherThanTask
        /\ UNCHANGED <<keeper, channels>> /\ "compare" \in Running \ {"turn", "boundary"}
    BY DEF HoldBoundary, Past, Running, Goto, keeperVars
  <1>2. /\ RowInv' /\ TaskInv' /\ GateInv' /\ TypeOK'
        /\ task'[r] = "compare" /\ frame' = frame
        /\ \A q \in Requests : q # r => task'[q] \notin Running
    BY <1>1, StepOnPreserves DEF IInv, TypeOK
  <1>3. stage' = stage
    BY <1>1, TaskStepFrame
  <1>4. ChannelInv'
    BY <1>1, <1>2, <1>3 DEF IInv, ChannelInv, Ended, Running
  <1> QED BY <1>2, <1>4 DEF IInv

\* The comparison: with the gates closed and no creation under way, every
\* channel is of a session in the table.
LEMMA ComparePreserves ==
  ASSUME IInv, NEW r \in Requests, Compare(r)
  PROVE  IInv'
  <1>1. /\ task[r] = "compare" /\ Past(r) /\ pass = "none" /\ UNCHANGED <<otherThanTask, keeperVars>>
        /\ IF frame[r].ids = Table THEN Goto(r, "probe") ELSE Fail(r)
    BY DEF Compare, Past, Running, IInv, GateInv
  <1>2. CASE frame[r].ids # Table
    BY <1>1, <1>2, FailPreserves
  <1>3. CASE frame[r].ids = Table
    <2>1. Goto(r, "probe") /\ "probe" \in Running \ {"turn", "boundary"}
      BY <1>1, <1>3 DEF Running
    <2>2. /\ RowInv' /\ TaskInv' /\ GateInv' /\ TypeOK'
          /\ task'[r] = "probe" /\ frame' = frame
          /\ \A q \in Requests : q # r => task'[q] \notin Running
      BY <1>1, <2>1, StepOnPreserves DEF IInv, TypeOK, keeperVars
    <2>3. Creating = {}
      BY <1>1 DEF IInv, GateInv, Bounded
    <2>4. channels \subseteq Table \cup Ended
      BY <2>3 DEF IInv, TypeOK, ChannelInv, Creating, Table, Ended
    <2>5. stage' = stage /\ channels' = channels
      BY <1>1, TaskStepFrame DEF keeperVars
    <2>6. ChannelInv'
      BY <1>3, <2>2, <2>4, <2>5 DEF IInv, ChannelInv, Ended, Running
    <2> QED BY <2>2, <2>6 DEF IInv
  <1> QED BY <1>2, <1>3

\* A preparation that goes on past the comparison keeps what it knows of the
\* channels.
LEMMA GoOnPreserves ==
  ASSUME IInv, NEW r \in Requests, task[r] \in {"probe", "shutdown", "force"},
         NEW step \in {"shutdown", "force", "exit"}, Goto(r, step), UNCHANGED otherThanTask,
         step = "force" => frame[r].mode = "forced",
         UNCHANGED keeperVars \/ KeeperEnds
  PROVE  IInv'
  <1>1. Past(r) /\ pass = "none" /\ step \in Running \ {"turn", "boundary"}
    BY DEF Past, Running, IInv, GateInv
  <1>2. keeper' \in BOOLEAN /\ channels' \subseteq channels /\ channels' \subseteq Sessions
    <2>1. CASE UNCHANGED keeperVars
      BY <2>1 DEF keeperVars, IInv, TypeOK
    <2>2. CASE KeeperEnds
      <3>1. keeper' \in BOOLEAN
        BY <2>2, Zenon DEF KeeperEnds
      <3> QED BY <2>2, <3>1 DEF KeeperEnds
    <2> QED BY <2>1, <2>2
  <1>3. /\ RowInv' /\ TaskInv' /\ GateInv' /\ TypeOK'
        /\ task'[r] = step /\ frame' = frame
        /\ \A q \in Requests : q # r => task'[q] \notin Running
    BY <1>1, <1>2, StepOnPreserves
  <1>4. stage' = stage
    BY TaskStepFrame
  <1>5. ChannelInv'
    BY <1>2, <1>3, <1>4 DEF IInv, ChannelInv, Ended, Running
  <1> QED BY <1>3, <1>5 DEF IInv

\* The probe, the two shutdowns and the wait for the exit.
LEMMA ProbePreserves ==
  ASSUME IInv, NEW r \in Requests,
         Probe(r) \/ ShutdownEmpty(r) \/ ShutdownForced(r) \/ ExitWatched(r)
  PROVE  IInv'
  <1>1. /\ task[r] \in {"probe", "shutdown", "force", "exit"} /\ Past(r)
        /\ pass = "none" /\ UNCHANGED otherThanTask
    BY DEF Probe, ShutdownEmpty, ShutdownForced, ExitWatched, Past, Running, IInv, GateInv
  <1>2. \/ Fail(r) /\ UNCHANGED keeperVars
        \/ Succeed(r) /\ UNCHANGED keeperVars
        \/ /\ task[r] \in {"probe", "shutdown", "force"}
           /\ UNCHANGED keeperVars \/ KeeperEnds
           /\ \E step \in {"shutdown", "force", "exit"} :
                 Goto(r, step) /\ (step = "force" => frame[r].mode = "forced")
    BY DEF Probe, ProbeMaintenance, ProbeJournaled, ShutdownEmpty, ShutdownForced, ExitWatched
  <1> QED BY <1>1, <1>2, FailPreserves, SucceedPreserves, GoOnPreserves

\* Every step keeps the invariant.
LEMMA NextPreserves == IInv /\ [Next]_vars => IInv'
  <1> SUFFICES ASSUME IInv, [Next]_vars PROVE IInv'
    OBVIOUS
  <1>1. CASE UNCHANGED vars
    <2>1. UNCHANGED <<drain, phase, frame, open, stage, outbox, sent, task, gateVars, pass,
                      proven, keeper, channels>>
      BY <1>1 DEF vars, coordVars, rowVars, workerVars, passVars, keeperVars
    <2>2. TaskInv' /\ Bounded' = Bounded
      BY <2>1, TasksUntouched DEF IInv
    <2>3. TypeOK' /\ RowInv'
      BY <2>1 DEF IInv, TypeOK, RowInv, gateVars
    <2>4. GateInv' /\ ChannelInv'
      BY <2>1, <2>2 DEF IInv, GateInv, ChannelInv, Creating, Ended, Past
    <2> QED BY <2>2, <2>3, <2>4 DEF IInv
  <1>2. ASSUME NEW s \in Sessions, SessionStep(s) PROVE IInv'
    BY <1>2, SessionPreserves
  <1>3. ASSUME NEW r \in Requests, Handler(r) PROVE IInv'
    BY <1>3, HandlerPreserves
  <1>4. ASSUME NEW r \in Requests, Prepare(r) PROVE IInv'
    BY <1>4, ArrivePreserves, TurnPreserves, CloseBoundaryPreserves, HoldBoundaryPreserves,
       ComparePreserves, ProbePreserves DEF Prepare
  <1>5. CASE Rows \/ Passes \/ Disconnect
    BY <1>5, RowsPreserve, PassesPreserve, DisconnectPreserves
  <1> QED BY <1>1, <1>2, <1>3, <1>4, <1>5 DEF Next

\* The inductive invariant of the preparation: who holds the gates, what a
\* closed gate excludes and what is known of the keeper's channels.
THEOREM Invariance == Spec => []IInv
  <1>1. Init => IInv
    BY InitEstablishes
  <1>2. IInv /\ [Next]_vars => IInv'
    BY NextPreserves
  <1> QED BY <1>1, <1>2, PTL DEF Spec

\* Every variable keeps its type, the drain has at most one holder, and the
\* count of preparations stays between zero and the number of requests.
THEOREM TypeCorrect == Spec => []TypeOK
  <1>1. IInv => TypeOK
    BY DEF IInv
  <1> QED BY <1>1, Invariance, PTL

\* Channel creation and the reconcile boundary are closed exactly while a
\* preparation is under way or a proof stands, however requests overlap, fail
\* or time out (channel_creation_gate.rs, reconcile_gate.rs).
THEOREM GatesExact == Spec => []ClosedWhilePrepared
  <1>1. IInv => ClosedWhilePrepared
    BY DEF IInv, TaskInv, Counted, Bounded, Past, ClosedWhilePrepared
  <1> QED BY <1>1, Invariance, PTL

\* A journaled preparation's proof is not undone: while one stands, no channel
\* is being created and no reconcile pass runs.
THEOREM ProofsStand == Spec => []ProofStands
  <1>1. IInv => ProofStands
    BY DEF IInv, GateInv, Bounded, ProofStands
  <1> QED BY <1>1, Invariance, PTL

\* A keeper that is shut down takes channels with it only for a forced
\* request, and only channels of sessions the coordinator's decision read or
\* whose record was closed before (kill_held_session does not wait for them).
THEOREM DestroysDecided == Spec => DestroysOnlyDecided
  <1>1. ASSUME IInv, [Next]_vars, keeper, ~keeper', channels # {}
        PROVE  \E r \in Requests : /\ task[r] = "force" /\ frame[r].mode = "forced"
                                   /\ channels \subseteq frame[r].ids \cup Ended
    <2>1. UNCHANGED keeper \/ \E r \in Requests : ShutdownEmpty(r) \/ ShutdownForced(r)
      BY <1>1 DEF Next, vars, SessionStep, CreateBegin, CreateChannel, CreateFailed,
         CreateOpened, CreateEnd, ChannelExit, SessionEnd, Kill, CloseChannel, otherThanSessions,
         Handler, Acquire, Refuse, Decide, Answer, Deadline,
         Prepare, Arrive, Turn, CloseBoundary, HoldBoundary, Compare, Probe, ExitWatched,
         Rows, SendHead, CoordRead, CoordCommit, RowAcked,
         Passes, PassStart, PassReplayed, PassEnd, Disconnect, keeperVars
    <2>2. PICK r \in Requests : ShutdownEmpty(r) \/ ShutdownForced(r)
      BY <1>1, <2>1
    <2>3. CASE ShutdownEmpty(r)
      BY <1>1, <2>3 DEF ShutdownEmpty, keeperVars
    <2>4. CASE ShutdownForced(r)
      BY <1>1, <2>4 DEF ShutdownForced, IInv, ChannelInv
    <2> QED BY <2>2, <2>3, <2>4
  <1>2. IInv /\ [Next]_vars =>
           [keeper /\ ~keeper' /\ channels # {} =>
              \E r \in Requests : /\ task[r] = "force" /\ frame[r].mode = "forced"
                                  /\ channels \subseteq frame[r].ids \cup Ended]_vars
    BY <1>1
  <1> QED BY <1>2, Invariance, PTL DEF Spec, DestroysOnlyDecided

=============================================================================

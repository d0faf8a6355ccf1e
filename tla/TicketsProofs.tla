--------------------------- MODULE TicketsProofs ---------------------------
(***************************************************************************)
(* Theorems about Tickets, for any users, any number of overlapping        *)
(* requests and a timeline of any length.                                  *)
(***************************************************************************)
EXTENDS Tickets, TLAPS

\* What a request in flight knows of the row it read: it obeyed the CHECK
\* constraint, and the move was allowed on it.
ReqInv ==
    \A u \in Users :
        /\ req[u].pc = "transition" =>
             /\ req[u].seen.state = "cancelled" <=> req[u].seen.reason
             /\ MayMove(u, req[u].seen, req[u].to)
        /\ req[u].pc = "quick_resolve" =>
             req[u].seen.state = "cancelled" <=> req[u].seen.reason

IInv ==
    /\ TypeOK
    /\ TimersFitState
    /\ timeline # <<>>
    /\ TimelineEndsAtState
    /\ ReqInv

\* The UPDATE of a move yields a row in the new state with the timestamp that
\* state needs, and takes a cancellation reason back only if it is a reopening
\* by a request that has itself seen the reason (_apply_state_change).
LEMMA MovedRow ==
    ASSUME NEW row \in Row, NEW seen \in Row, NEW to \in States, NEW u \in Users
    PROVE  /\ Moved(row, seen, to, u) \in Row
           /\ Moved(row, seen, to, u).state = to
           /\ Timed(Moved(row, seen, to, u))
           /\ to # "cancelled" /\ row.reason /\ ~ Moved(row, seen, to, u).reason
                => to = "open" /\ seen.reason
<1> DEFINE m == Moved(row, seen, to, u)
<1>1. /\ row.assignee \in Users \cup {NoUser}
      /\ row.reason \in BOOLEAN /\ seen.reason \in BOOLEAN
      /\ {row.pending, row.resolved, row.closed, row.cancelled} \subseteq Stamps
  BY DEF Row
<1>2. m.state = to /\ m.reason \in BOOLEAN
  BY DEF Moved
<1>3. m.assignee \in Users \cup {NoUser}
  BY <1>1 DEF Moved, Cleared
<1>4. m.pending \in Stamps /\ m.resolved \in Stamps
  BY <1>1 DEF Moved, Cleared, Stamps
<1>5. m.closed \in Stamps /\ m.cancelled \in Stamps
  BY <1>1 DEF Moved, Cleared, Stamps
<1>6. m = [state |-> m.state, assignee |-> m.assignee, reason |-> m.reason,
           pending |-> m.pending, resolved |-> m.resolved,
           closed |-> m.closed, cancelled |-> m.cancelled]
  BY DEF Moved
<1>7. m \in Row
  <2> HIDE DEF m
  <2> QED BY <1>2, <1>3, <1>4, <1>5, <1>6 DEF Row
<1>8. Timed(m)
  BY DEF Moved, Timed
<1>9. to # "cancelled" /\ row.reason /\ ~ m.reason => to = "open" /\ seen.reason
  BY <1>1 DEF Moved, Cleared
<1> QED
  BY <1>2, <1>7, <1>8, <1>9

-----------------------------------------------------------------------------
LEMMA NewRowTyped == ASSUME NEW a \in Users \cup {NoUser} PROVE NewTicket(a) \in Row
BY DEF NewTicket, Row, States, Stamps

LEMMA NoReqTyped ==
    NoReq \in [pc : {"idle", "transition", "quick_resolve", "assign"},
               seen : Row, to : States, new : Users \cup {NoUser}]
BY NewRowTyped DEF NoReq, States

LEMMA InitInv == Init => IInv
<1> SUFFICES ASSUME Init PROVE IInv
  OBVIOUS
<1>1. PICK a \in Users \cup {NoUser} : ticket = NewTicket(a)
  BY DEF Init
<1>2. TypeOK
  <2>1. ticket \in Row /\ (ticket.state = "cancelled" <=> ticket.reason)
    BY <1>1, NewRowTyped DEF NewTicket
  <2>2. timeline \in Seq(Event)
    BY DEF Init, Event, States
  <2>3. req \in [Users -> [pc : {"idle", "transition", "quick_resolve", "assign"},
                           seen : Row, to : States, new : Users \cup {NoUser}]]
    BY NoReqTyped DEF Init
  <2> QED
    BY <2>1, <2>2, <2>3 DEF TypeOK
<1>3. TimersFitState
  BY <1>1 DEF TimersFitState, Timed, NewTicket
<1>4. timeline # <<>> /\ TimelineEndsAtState
  BY <1>1 DEF Init, TimelineEndsAtState, NewTicket
<1>5. ReqInv
  <2>1. \A u \in Users : req[u].pc = "idle"
    BY DEF Init, NoReq
  <2> QED
    BY <2>1 DEF ReqInv
<1> QED
  BY <1>2, <1>3, <1>4, <1>5 DEF IInv

\* A step that reads the ticket and leaves a request holding what it read.
LEMMA ReadStep ==
    ASSUME IInv, NEW u \in Users,
           NEW r \in [pc : {"transition", "quick_resolve", "assign"},
                      seen : Row, to : States, new : Users \cup {NoUser}],
           Begin(u, r),
           r.pc = "transition" => r.seen = ticket /\ MayMove(u, ticket, r.to),
           r.pc = "quick_resolve" => r.seen = ticket
    PROVE  IInv'
<1> USE DEF IInv, Begin
<1>1. /\ req' = [req EXCEPT ![u] = r]
      /\ ticket' = ticket /\ timeline' = timeline
  OBVIOUS
<1>2. TypeOK'
  BY <1>1 DEF TypeOK
<1>3. TimersFitState' /\ timeline' # <<>> /\ TimelineEndsAtState'
  BY <1>1 DEF TimersFitState, Timed, TimelineEndsAtState
<1>4. ReqInv'
  <2> SUFFICES ASSUME NEW v \in Users
               PROVE  /\ req'[v].pc = "transition" =>
                           /\ req'[v].seen.state = "cancelled" <=> req'[v].seen.reason
                           /\ MayMove(v, req'[v].seen, req'[v].to)
                      /\ req'[v].pc = "quick_resolve" =>
                           req'[v].seen.state = "cancelled" <=> req'[v].seen.reason
    BY DEF ReqInv, MayMove, Authorized, UnclaimsOthers, InWindow
  <2>1. CASE v = u
    <3>1. req'[v] = r
      BY <1>1, <2>1 DEF TypeOK
    <3>2. ticket.state = "cancelled" <=> ticket.reason
      BY DEF TypeOK
    <3> QED
      BY <2>1, <3>1, <3>2
  <2>2. CASE v # u
    <3>1. req'[v] = req[v]
      BY <1>1, <2>2 DEF TypeOK
    <3> QED
      BY <3>1 DEF ReqInv
  <2> QED
    BY <2>1, <2>2
<1> QED
  BY <1>2, <1>3, <1>4

\* Once a request has ended, the others know what they knew.
LEMMA ReqEnds ==
    ASSUME TypeOK, ReqInv, NEW u \in Users, req' = [req EXCEPT ![u] = NoReq]
    PROVE  /\ ReqInv'
           /\ req' \in [Users -> [pc : {"idle", "transition", "quick_resolve", "assign"},
                                  seen : Row, to : States, new : Users \cup {NoUser}]]
<1>1. ASSUME NEW v \in Users PROVE req'[v] = IF v = u THEN NoReq ELSE req[v]
  BY DEF TypeOK
<1>2. NoReq.pc = "idle"
  BY DEF NoReq
<1>3. ReqInv'
  BY <1>1, <1>2 DEF ReqInv, MayMove, Authorized, UnclaimsOthers, InWindow
<1> QED
  BY <1>1, <1>3, NoReqTyped DEF TypeOK

\* A step that commits a moved row with its timeline rows, or is refused.
LEMMA WriteStep ==
    ASSUME IInv, NEW u \in Users, req' = [req EXCEPT ![u] = NoReq],
           NEW row \in Row, Timed(row), NEW events \in Seq(Event),
           events # <<>>, events[Len(events)].to = row.state,
           \/ Check(row) /\ ticket' = row /\ timeline' = timeline \o events
           \/ ticket' = ticket /\ timeline' = timeline
    PROVE  IInv'
<1> USE DEF IInv
<1>1. ReqInv' /\ req' \in [Users -> [pc : {"idle", "transition", "quick_resolve", "assign"},
                                     seen : Row, to : States, new : Users \cup {NoUser}]]
  BY ReqEnds
<1>2. CASE Check(row) /\ ticket' = row /\ timeline' = timeline \o events
  <2>1. TypeOK'
    BY <1>1, <1>2 DEF TypeOK, Check
  <2>2. TimersFitState'
    BY <1>2 DEF TimersFitState, Timed
  <2>3. timeline' # <<>> /\ TimelineEndsAtState'
    <3>1. timeline \in Seq(Event) /\ Len(events) \in Nat /\ Len(events) # 0
      BY DEF TypeOK
    <3>2. Len(timeline') = Len(timeline) + Len(events)
      BY <1>2, <3>1
    <3>3. timeline'[Len(timeline) + Len(events)] = events[Len(events)]
      BY <1>2, <3>1
    <3> QED
      BY <1>2, <3>1, <3>2, <3>3 DEF TimelineEndsAtState
  <2> QED
    BY <1>1, <2>1, <2>2, <2>3
<1>3. CASE ticket' = ticket /\ timeline' = timeline
  BY <1>1, <1>3 DEF TypeOK, TimersFitState, Timed, TimelineEndsAtState
<1> QED
  BY <1>2, <1>3
-----------------------------------------------------------------------------
LEMMA Step == IInv /\ [Next]_vars => IInv'
<1> SUFFICES ASSUME IInv, [Next]_vars PROVE IInv'
  OBVIOUS
<1> USE DEF IInv
<1>1. ASSUME NEW u \in Users, NEW to \in States, TransitionRead(u, to) PROVE IInv'
  <2> DEFINE r == [NoReq EXCEPT !.pc = "transition", !.seen = ticket, !.to = to]
  <2>1. /\ r \in [pc : {"transition", "quick_resolve", "assign"},
                  seen : Row, to : States, new : Users \cup {NoUser}]
        /\ r.pc = "transition" /\ r.seen = ticket /\ r.to = to
    BY NoReqTyped DEF TypeOK, NoReq
  <2>2. Begin(u, r) /\ MayMove(u, ticket, to)
    BY <1>1 DEF TransitionRead
  <2> HIDE DEF r
  <2> QED
    BY <2>1, <2>2, ReadStep
<1>2. ASSUME NEW u \in Users, TransitionWrite(u) PROVE IInv'
  <2> DEFINE row == Moved(ticket, req[u].seen, req[u].to, u)
             events == <<[from |-> req[u].seen.state, to |-> req[u].to]>>
  <2>1. /\ ticket \in Row /\ req[u].seen \in Row /\ req[u].to \in States
        /\ timeline \in Seq(Event)
    BY DEF TypeOK
  <2>2. row \in Row /\ Timed(row) /\ row.state = req[u].to
    BY <2>1, MovedRow
  <2>3. [from |-> req[u].seen.state, to |-> req[u].to] \in Event
    BY <2>1 DEF Event, Row
  <2>4. /\ events \in Seq(Event) /\ events # <<>>
        /\ events[Len(events)].to = row.state
    BY <2>2, <2>3
  <2>5. Append(timeline, [from |-> req[u].seen.state, to |-> req[u].to])
          = timeline \o events
    BY <2>1, <2>3
  <2>6. /\ req' = [req EXCEPT ![u] = NoReq]
        /\ \/ Check(row) /\ ticket' = row /\ timeline' = timeline \o events
           \/ ticket' = ticket /\ timeline' = timeline
    BY <1>2, <2>5 DEF TransitionWrite
  <2> HIDE DEF row, events
  <2> QED
    BY <2>2, <2>4, <2>6, WriteStep
<1>3. ASSUME NEW u \in Users, QuickResolveRead(u) PROVE IInv'
  <2> DEFINE r == [NoReq EXCEPT !.pc = "quick_resolve", !.seen = ticket]
  <2>1. /\ r \in [pc : {"transition", "quick_resolve", "assign"},
                  seen : Row, to : States, new : Users \cup {NoUser}]
        /\ r.pc = "quick_resolve" /\ r.seen = ticket
    BY NoReqTyped DEF TypeOK, NoReq
  <2>2. Begin(u, r)
    BY <1>3 DEF QuickResolveRead
  <2> HIDE DEF r
  <2> QED
    BY <2>1, <2>2, ReadStep
<1>4. ASSUME NEW u \in Users, QuickResolveWrite(u) PROVE IInv'
  <2> DEFINE mine == Moved(req[u].seen, req[u].seen, "in_progress", u)
             mid == Moved(ticket, req[u].seen, "in_progress", u)
             row == Moved(mid, mine, "resolved", u)
             events == QuickEvents(req[u].seen.state)
  <2>1. /\ ticket \in Row /\ req[u].seen \in Row
        /\ {"in_progress", "resolved"} \subseteq States
    BY DEF TypeOK, States
  <2>2. mine \in Row /\ mid \in Row
    BY <2>1, MovedRow
  <2> HIDE DEF mine, mid
  <2>3. row \in Row /\ Timed(row) /\ row.state = "resolved"
    BY <2>1, <2>2, MovedRow
  <2>4. /\ events \in Seq(Event) /\ events # <<>>
        /\ events[Len(events)].to = "resolved"
    BY <2>1 DEF QuickEvents, Event, Row
  <2>5. /\ req' = [req EXCEPT ![u] = NoReq]
        /\ \/ Check(row) /\ ticket' = row /\ timeline' = timeline \o events
           \/ ticket' = ticket /\ timeline' = timeline
    BY <1>4 DEF QuickResolveWrite, mine, mid
  <2> HIDE DEF row, events
  <2> QED
    BY <2>3, <2>4, <2>5, WriteStep
<1>5. ASSUME NEW u \in Users, NEW new \in Users \cup {NoUser}, AssignRead(u, new)
      PROVE IInv'
  <2> DEFINE r == [NoReq EXCEPT !.pc = "assign", !.new = new]
  <2>1. /\ r \in [pc : {"transition", "quick_resolve", "assign"},
                  seen : Row, to : States, new : Users \cup {NoUser}]
        /\ r.pc = "assign"
    BY NoReqTyped DEF NoReq
  <2>2. Begin(u, r)
    BY <1>5 DEF AssignRead
  <2> HIDE DEF r
  <2> QED
    BY <2>1, <2>2, ReadStep
<1>6. ASSUME NEW u \in Users, AssignWrite(u) PROVE IInv'
  <2>1. /\ req' = [req EXCEPT ![u] = NoReq] /\ timeline' = timeline
        /\ ticket' = [ticket EXCEPT !.assignee = req[u].new]
    BY <1>6 DEF AssignWrite
  <2>2. ticket \in Row /\ req[u].new \in Users \cup {NoUser}
    BY DEF TypeOK
  <2>3. /\ ticket' \in Row
        /\ ticket'.state = ticket.state /\ ticket'.reason = ticket.reason
        /\ Timed(ticket) => Timed(ticket')
    BY <2>1, <2>2 DEF Row, Timed
  <2> QED
    BY <2>1, <2>3, ReqEnds DEF TypeOK, TimersFitState, TimelineEndsAtState
<1>7. ASSUME NEW col \in {"resolved", "closed", "cancelled"}, WindowPasses(col)
      PROVE IInv'
  <2>1. /\ req' = req /\ timeline' = timeline
        /\ ticket' = [ticket EXCEPT ![col] = "old"]
    BY <1>7 DEF WindowPasses
  <2>2. ticket \in Row
    BY DEF TypeOK
  <2>3. /\ ticket' \in Row
        /\ ticket'.state = ticket.state /\ ticket'.reason = ticket.reason
        /\ Timed(ticket) => Timed(ticket')
    <3>1. CASE col = "resolved"
      BY <2>1, <2>2, <3>1 DEF Row, Timed, Stamps
    <3>2. CASE col = "closed"
      BY <2>1, <2>2, <3>2 DEF Row, Timed, Stamps
    <3>3. CASE col = "cancelled"
      BY <2>1, <2>2, <3>3 DEF Row, Timed, Stamps
    <3> QED
      BY <3>1, <3>2, <3>3
  <2>4. ReqInv'
    BY <2>1 DEF ReqInv, MayMove, Authorized, UnclaimsOthers, InWindow
  <2> QED
    BY <2>1, <2>3, <2>4 DEF TypeOK, TimersFitState, TimelineEndsAtState
<1>8. ASSUME UNCHANGED vars PROVE IInv'
  BY <1>8 DEF vars, TypeOK, TimersFitState, Timed, TimelineEndsAtState,
              ReqInv, MayMove, Authorized, UnclaimsOthers, InWindow
<1> QED
  BY <1>1, <1>2, <1>3, <1>4, <1>5, <1>6, <1>7, <1>8 DEF Next

THEOREM Inductive == Spec => []IInv
BY InitInv, Step, PTL DEF Spec

\* The variables keep their types and the committed row obeys the CHECK
\* constraint (TypeOK).
THEOREM TypeCorrect == Spec => []TypeOK
BY Inductive, PTL DEF IInv

\* A ticket always carries the timestamp its state is timed by, however many
\* requests race for it (TimersFitState).
THEOREM TimersStay == Spec => []TimersFitState
BY Inductive, PTL DEF IInv

\* The last timeline row is the one that put the ticket into its state
\* (TimelineEndsAtState).
THEOREM TimelineAgrees == Spec => []TimelineEndsAtState
BY Inductive, PTL DEF IInv

\* Only the uncancel of an admin who saw the ticket cancelled and inside its
\* window takes it out of CANCELLED (CancelledLeavesByUncancel).
THEOREM UncancelOnly == Spec => CancelledLeavesByUncancel
<1>1. ASSUME IInv, [Next]_vars, ticket.state = "cancelled", ticket'.state # "cancelled"
      PROVE  \E u \in Admins \cup SuperAdmins :
                /\ req[u].seen.state = "cancelled"
                /\ req[u].seen.cancelled = "fresh"
                /\ req[u].to = "open"
                /\ ticket'.state = "open"
  <2> USE <1>1
  <2>0. Next
    BY DEF vars
  <2>1. ticket \in Row /\ ticket.reason
    BY DEF IInv, TypeOK
  <2>2. PICK u \in Users : TransitionWrite(u) \/ QuickResolveWrite(u)
    <3>1. ASSUME NEW u \in Users, AssignWrite(u) PROVE FALSE
      BY <2>1, <3>1 DEF AssignWrite, Row
    <3>2. ASSUME NEW col \in {"resolved", "closed", "cancelled"}, WindowPasses(col)
          PROVE FALSE
      BY <2>1, <3>2 DEF WindowPasses, Row
    <3> QED
      BY <2>0, <3>1, <3>2 DEF Next, TransitionRead, QuickResolveRead, AssignRead, Begin
  <2>3. /\ req[u].seen \in Row /\ req[u].to \in States
        /\ {"in_progress", "resolved"} \subseteq States
    BY DEF IInv, TypeOK, States
  <2>4. CASE QuickResolveWrite(u)
    <3> DEFINE mid == Moved(ticket, req[u].seen, "in_progress", u)
    <3>1. mid.state = "in_progress" /\ mid.reason \in BOOLEAN
      BY <2>1, <2>2, <2>3, MovedRow DEF Row
    <3>2. mid.reason
      BY <2>1 DEF Moved
    <3>3. ~ Check(mid)
      BY <3>1, <3>2 DEF Check
    <3>4. ticket' = ticket
      BY <2>4, <3>3 DEF QuickResolveWrite
    <3> QED
      BY <3>4
  <2>5. CASE TransitionWrite(u)
    <3> DEFINE row == Moved(ticket, req[u].seen, req[u].to, u)
    <3>1. Check(row) /\ ticket' = row
      BY <2>5 DEF TransitionWrite
    <3>2. row.state = req[u].to
      BY DEF Moved
    <3>3. ~ row.reason
      BY <3>1, <3>2 DEF Check
    <3>4. req[u].to = "open" /\ req[u].seen.reason
      BY <2>1, <2>2, <2>3, <3>1, <3>2, <3>3, MovedRow
    <3>5. /\ req[u].seen.state = "cancelled"
          /\ MayMove(u, req[u].seen, "open")
      BY <2>5, <3>4 DEF IInv, ReqInv, TransitionWrite
    <3>6. /\ u \in Admins \cup SuperAdmins
          /\ req[u].seen.cancelled = "fresh"
      BY <3>5 DEF MayMove, Authorized, AnalystMoves, InWindow
    <3> QED
      BY <3>1, <3>2, <3>4, <3>5, <3>6
  <2> QED
    BY <2>2, <2>4, <2>5
<1> QED
  BY <1>1, Inductive, PTL DEF Spec, CancelledLeavesByUncancel
-----------------------------------------------------------------------------
(* Requests that move the ticket one after another.  They may be anybody's,  *)
(* and assignments may overlap with them: those do not touch the state.      *)

Moving(u) == req[u].pc \in {"transition", "quick_resolve"}

MovesAlone == \A u, v \in Users : Moving(u) /\ Moving(v) => u = v

\* What a request then knows is still so: the state it read is the state.
SeenInv ==
    \A u \in Users :
        /\ Moving(u) => req[u].seen.state = ticket.state
        /\ req[u].pc = "quick_resolve" => MayMove(u, req[u].seen, "in_progress")

\* Each timeline row starts where the one before it ended.
TimelineIsPath ==
    \A i \in 1..Len(timeline) - 1 : timeline[i].to = timeline[i + 1].from

\* Nobody knows less if the state stays, and no request that moves the ticket
\* begins.
LEMMA SeenStays ==
    ASSUME SeenInv, TypeOK, NEW u \in Users,
           ticket'.state = ticket.state,
           req' = req \/ \E r : req' = [req EXCEPT ![u] = r] /\ r.pc \in {"idle", "assign"}
    PROVE  SeenInv'
<1>1. ASSUME NEW v \in Users
      PROVE  req'[v] = req[v] \/ req'[v].pc \in {"idle", "assign"}
  BY DEF TypeOK
<1> QED
  BY <1>1 DEF SeenInv, Moving, MayMove, Authorized, UnclaimsOthers, InWindow

LEMMA SeenBegins ==
    ASSUME SeenInv, TypeOK, NEW u \in Users, NEW r, Begin(u, r), r.seen = ticket,
           r.pc = "quick_resolve" => MayMove(u, ticket, "in_progress")
    PROVE  SeenInv'
<1>1. ticket' = ticket
  BY DEF Begin
<1>2. ASSUME NEW v \in Users PROVE req'[v] = IF v = u THEN r ELSE req[v]
  BY DEF Begin, TypeOK
<1> QED
  BY <1>1, <1>2 DEF SeenInv, Moving, MayMove, Authorized, UnclaimsOthers, InWindow

\* The only request that moves the ticket ends: none is left.
LEMMA SeenEnds ==
    ASSUME MovesAlone, TypeOK, NEW u \in Users, Moving(u), req' = [req EXCEPT ![u] = NoReq]
    PROVE  SeenInv'
<1>1. ASSUME NEW v \in Users PROVE req'[v].pc \notin {"transition", "quick_resolve"}
  BY DEF MovesAlone, Moving, TypeOK, NoReq
<1> QED
  BY <1>1 DEF SeenInv, Moving

LEMMA SeenStep == IInv /\ SeenInv /\ MovesAlone /\ [Next]_vars => SeenInv'
<1> SUFFICES ASSUME IInv, SeenInv, MovesAlone, [Next]_vars PROVE SeenInv'
  OBVIOUS
<1>0. TypeOK
  BY DEF IInv
<1>1. ASSUME NEW u \in Users, NEW to \in States, TransitionRead(u, to) PROVE SeenInv'
  <2> DEFINE r == [NoReq EXCEPT !.pc = "transition", !.seen = ticket, !.to = to]
  <2>1. r.pc = "transition" /\ r.seen = ticket
    BY DEF NoReq
  <2>2. Begin(u, r)
    BY <1>1 DEF TransitionRead
  <2> HIDE DEF r
  <2> QED
    BY <1>0, <2>1, <2>2, SeenBegins
<1>2. ASSUME NEW u \in Users, TransitionWrite(u) \/ QuickResolveWrite(u) PROVE SeenInv'
  <2>1. Moving(u) /\ req' = [req EXCEPT ![u] = NoReq]
    BY <1>2 DEF TransitionWrite, QuickResolveWrite, Moving
  <2> QED
    BY <1>0, <2>1, SeenEnds
<1>3. ASSUME NEW u \in Users, QuickResolveRead(u) PROVE SeenInv'
  <2> DEFINE r == [NoReq EXCEPT !.pc = "quick_resolve", !.seen = ticket]
  <2>1. r.seen = ticket
    BY DEF NoReq
  <2>2. Begin(u, r) /\ MayMove(u, ticket, "in_progress")
    BY <1>3 DEF QuickResolveRead
  <2> HIDE DEF r
  <2> QED
    BY <1>0, <2>1, <2>2, SeenBegins
<1>4. ASSUME NEW u \in Users, NEW new \in Users \cup {NoUser}, AssignRead(u, new)
      PROVE  SeenInv'
  <2> DEFINE r == [NoReq EXCEPT !.pc = "assign", !.new = new]
  <2>1. r.pc = "assign"
    BY DEF NoReq
  <2>2. ticket' = ticket /\ req' = [req EXCEPT ![u] = r]
    BY <1>4 DEF AssignRead, Begin
  <2> HIDE DEF r
  <2> QED
    BY <1>0, <2>1, <2>2, SeenStays
<1>5. ASSUME NEW u \in Users, AssignWrite(u) PROVE SeenInv'
  <2>1. req' = [req EXCEPT ![u] = NoReq] /\ NoReq.pc = "idle"
    BY <1>5 DEF AssignWrite, NoReq
  <2>2. ticket'.state = ticket.state
    BY <1>0, <1>5 DEF AssignWrite, TypeOK, Row
  <2> QED
    BY <1>0, <2>1, <2>2, SeenStays
<1>6. ASSUME NEW col \in {"resolved", "closed", "cancelled"}, WindowPasses(col)
      PROVE  SeenInv'
  <2>1. req' = req /\ ticket'.state = ticket.state
    BY <1>0, <1>6 DEF WindowPasses, TypeOK, Row
  <2> QED
    BY <1>0, <2>1 DEF SeenInv, Moving, MayMove, Authorized, UnclaimsOthers, InWindow
<1>7. CASE UNCHANGED vars
  BY <1>7 DEF vars, SeenInv, Moving, MayMove, Authorized, UnclaimsOthers, InWindow
<1> QED
  BY <1>1, <1>2, <1>3, <1>4, <1>5, <1>6, <1>7 DEF Next

LEMMA SeenInductive == Spec /\ []MovesAlone => [](IInv /\ SeenInv)
<1>1. Init => SeenInv
  BY DEF Init, SeenInv, Moving, NoReq
<1> QED
  BY <1>1, SeenStep, Inductive, PTL DEF Spec

\* A change of state and timeline: one move along the graph, or quick-resolve's two.
MovesOnce ==
    \/ /\ <<ticket.state, ticket'.state>> \in Transitions
       /\ timeline' = timeline \o <<[from |-> ticket.state, to |-> ticket'.state]>>
    \/ /\ <<ticket.state, "in_progress">> \in Transitions
       /\ ticket'.state = "resolved"
       /\ timeline' = timeline \o QuickEvents(ticket.state)

\* A step leaves state and timeline as they are, or takes both along the graph
\* from the state the ticket is in.
LEMMA MoveSteps ==
    ASSUME IInv, SeenInv, [Next]_vars
    PROVE  (ticket'.state = ticket.state /\ timeline' = timeline) \/ MovesOnce
<1>0. ticket \in Row /\ timeline \in Seq(Event)
  BY DEF IInv, TypeOK
<1>1. ASSUME NEW u \in Users, TransitionWrite(u), ~ UNCHANGED <<ticket, timeline>>
      PROVE  MovesOnce
  <2>1. Moving(u) /\ req[u].pc = "transition"
    BY <1>1 DEF TransitionWrite, Moving
  <2>2. req[u].seen.state = ticket.state /\ <<req[u].seen.state, req[u].to>> \in Transitions
    BY <2>1 DEF SeenInv, IInv, ReqInv, MayMove
  <2>3. /\ ticket'.state = req[u].to
        /\ timeline' = Append(timeline, [from |-> req[u].seen.state, to |-> req[u].to])
    BY <1>1 DEF TransitionWrite, Moved
  <2>4. [from |-> ticket.state, to |-> req[u].to] \in Event
    BY <1>0 DEF IInv, TypeOK, Event, Row
  <2>5. timeline' = timeline \o <<[from |-> ticket.state, to |-> ticket'.state]>>
    BY <1>0, <2>2, <2>3, <2>4
  <2> QED
    BY <2>2, <2>3, <2>5 DEF MovesOnce
<1>2. ASSUME NEW u \in Users, QuickResolveWrite(u), ~ UNCHANGED <<ticket, timeline>>
      PROVE  MovesOnce
  <2> DEFINE mine == Moved(req[u].seen, req[u].seen, "in_progress", u)
             mid == Moved(ticket, req[u].seen, "in_progress", u)
             row == Moved(mid, mine, "resolved", u)
  <2>1. Moving(u) /\ req[u].pc = "quick_resolve"
    BY <1>2 DEF QuickResolveWrite, Moving
  <2>2. req[u].seen.state = ticket.state /\ <<req[u].seen.state, "in_progress">> \in Transitions
    BY <2>1 DEF SeenInv, MayMove
  <2>3. ticket' = row /\ timeline' = timeline \o QuickEvents(req[u].seen.state)
    BY <1>2 DEF QuickResolveWrite
  <2>4. row.state = "resolved"
    BY DEF Moved
  <2> HIDE DEF row
  <2> QED
    BY <2>2, <2>3, <2>4 DEF MovesOnce
<1>3. ASSUME NEW u \in Users,
             \/ \E to \in States : TransitionRead(u, to)
             \/ QuickResolveRead(u)
             \/ \E new \in Users \cup {NoUser} : AssignRead(u, new)
      PROVE  ticket' = ticket /\ timeline' = timeline
  BY <1>3 DEF TransitionRead, QuickResolveRead, AssignRead, Begin
<1>4. ASSUME NEW u \in Users, AssignWrite(u)
      PROVE  ticket'.state = ticket.state /\ timeline' = timeline
  BY <1>0, <1>4 DEF AssignWrite, Row
<1>5. ASSUME NEW col \in {"resolved", "closed", "cancelled"}, WindowPasses(col)
      PROVE  ticket'.state = ticket.state /\ timeline' = timeline
  BY <1>0, <1>5 DEF WindowPasses, Row
<1>6. CASE UNCHANGED vars
  BY <1>6 DEF vars
<1> QED
  BY <1>1, <1>2, <1>3, <1>4, <1>5, <1>6 DEF Next

\* The graph is broken by overlapping requests only: as long as no two requests
\* that move the ticket are in flight at once, whoever sends them and whatever
\* is assigned meanwhile, every change of state is an edge of TRANSITIONS, or
\* quick-resolve's two (StateFollowsGraph).
THEOREM FollowsGraphAlone == Spec /\ []MovesAlone => StateFollowsGraph
<1>1. ASSUME IInv, SeenInv, [Next]_vars
      PROVE  \/ ticket'.state = ticket.state
             \/ <<ticket.state, ticket'.state>> \in Transitions
             \/ /\ <<ticket.state, "in_progress">> \in Transitions
                /\ ticket'.state = "resolved"
  BY <1>1, MoveSteps DEF MovesOnce
<1> QED
  BY <1>1, SeenInductive, PTL DEF Spec, StateFollowsGraph

\* Under the same condition the timeline is a path: each row starts in the
\* state the row before it ended in (_apply_state_change, the timeline's rows).
THEOREM TimelineConnected == Spec /\ []MovesAlone => []TimelineIsPath
<1>1. Init => TimelineIsPath
  BY DEF Init, TimelineIsPath
<1>2. ASSUME IInv, SeenInv, TimelineIsPath, [Next]_vars PROVE TimelineIsPath'
  <2>1. /\ timeline \in Seq(Event) /\ Len(timeline) \in Nat \ {0}
        /\ timeline[Len(timeline)].to = ticket.state
    BY <1>2 DEF IInv, TypeOK, TimelineEndsAtState
  <2>2. CASE timeline' = timeline
    BY <1>2, <2>2 DEF TimelineIsPath
  <2>3. ASSUME NEW e, timeline' = timeline \o <<e>>, e.from = ticket.state
        PROVE  TimelineIsPath'
    <3>1. /\ Len(timeline') = Len(timeline) + 1
          /\ timeline'[Len(timeline) + 1] = e
          /\ \A i \in 1..Len(timeline) : timeline'[i] = timeline[i]
      BY <2>1, <2>3
    <3> QED
      BY <1>2, <2>1, <2>3, <3>1 DEF TimelineIsPath
  <2>4. ASSUME NEW e, NEW f, timeline' = timeline \o <<e, f>>, e.from = ticket.state, e.to = f.from
        PROVE  TimelineIsPath'
    <3>1. /\ Len(timeline') = Len(timeline) + 2
          /\ timeline'[Len(timeline) + 1] = e /\ timeline'[Len(timeline) + 2] = f
          /\ \A i \in 1..Len(timeline) : timeline'[i] = timeline[i]
      BY <2>1, <2>4
    <3> QED
      BY <1>2, <2>1, <2>4, <3>1 DEF TimelineIsPath
  <2> QED
    BY <1>2, <2>2, <2>3, <2>4, MoveSteps DEF MovesOnce, QuickEvents
<1> QED
  BY <1>1, <1>2, SeenInductive, PTL DEF Spec
=============================================================================

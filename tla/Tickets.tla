------------------------------ MODULE Tickets ------------------------------
(***************************************************************************)
(* One ticket and the requests that move it through its life: transition,  *)
(* quick-resolve and assign of TicketService, over the transition graph,   *)
(* the role matrix and the window guards of ticket_state_machine.          *)
(*                                                                         *)
(* A request is session.get, the checks, and an UPDATE of the changed      *)
(* columns with an INSERT into the timeline in one READ COMMITTED          *)
(* transaction.  The row is read without a lock, so a request is two       *)
(* steps; the UPDATE locks the row up to the commit right after it, and    *)
(* PostgreSQL refuses it if the row it makes breaks the CHECK constraint.  *)
(*                                                                         *)
(* A timestamp is absent, inside its tenant's window, or past it.  Audit   *)
(* and assignment history, which nothing reads back, are left out.         *)
(***************************************************************************)
EXTENDS Naturals, Sequences

CONSTANTS
    Analysts, Admins, SuperAdmins,  \* the users, by role
    NoUser,
    MaxEvents                       \* bound on the timeline

Users == Analysts \cup Admins \cup SuperAdmins

ASSUME TicketAssumption == NoUser \notin Users /\ MaxEvents \in Nat

VARIABLES
    ticket,     \* the committed row
    timeline,   \* ticket_state_transitions, in commit order
    req         \* each user's request

vars == <<ticket, timeline, req>>

States == {"open", "in_progress", "pending_customer", "resolved", "closed", "cancelled"}
Stamps == {"none", "fresh", "old"}

Row == [state : States, assignee : Users \cup {NoUser}, reason : BOOLEAN,
        pending : Stamps, resolved : Stamps, closed : Stamps, cancelled : Stamps]

Event == [from : States, to : States]

\* ROLE_MATRIX: what an analyst may do, and what only a tenant admin may.
AnalystMoves ==
    {<<"open", "in_progress">>, <<"open", "cancelled">>,
     <<"in_progress", "open">>, <<"in_progress", "pending_customer">>,
     <<"in_progress", "resolved">>,
     <<"pending_customer", "in_progress">>, <<"pending_customer", "resolved">>,
     <<"resolved", "closed">>, <<"resolved", "in_progress">>}

AdminMoves ==
    {<<"in_progress", "cancelled">>, <<"closed", "open">>, <<"cancelled", "open">>}

\* TRANSITIONS: the last edge is the auto-close worker's, and a super-admin's.
Transitions == AnalystMoves \cup AdminMoves \cup {<<"pending_customer", "closed">>}

Authorized(u, move) ==
    \/ u \in SuperAdmins
    \/ u \in Admins /\ move \in AnalystMoves \cup AdminMoves
    \/ u \in Analysts /\ move \in AnalystMoves

\* _enforce_window_guards: the anchor must be there and inside its window.
InWindow(row, to) ==
    /\ row.state = "resolved" /\ to = "in_progress" => row.resolved = "fresh"
    /\ row.state = "closed" /\ to = "open" => row.closed = "fresh"
    /\ row.state = "cancelled" /\ to = "open" => row.cancelled = "fresh"

\* An analyst un-claims only a ticket that is theirs or nobody's.
UnclaimsOthers(u, row, to) ==
    /\ row.state = "in_progress" /\ to = "open"
    /\ u \in Analysts \ SuperAdmins
    /\ row.assignee \notin {NoUser, u}

MayMove(u, row, to) ==
    /\ <<row.state, to>> \in Transitions
    /\ Authorized(u, <<row.state, to>>)
    /\ ~ UnclaimsOthers(u, row, to)
    /\ InWindow(row, to)

\* A column set to NULL is in the UPDATE only if it was not NULL when read.
Cleared(seen, now, null) == IF seen = null THEN now ELSE null

\* Mutant: the close path forgets its timestamp when a pending ticket is
\* closed directly.
MovedNoStamp(row, seen, to, u) ==
    [row EXCEPT
        !.state = to,
        !.reason = IF to = "cancelled" THEN TRUE ELSE IF to = "open" THEN FALSE ELSE @,
        !.pending = IF to = "pending_customer" THEN "fresh" ELSE "none",
        !.resolved = IF to = "resolved" THEN "fresh" ELSE @,
        !.closed = IF to = "closed" /\ seen.state = "resolved" THEN "fresh" ELSE "none",
        !.cancelled = IF to = "cancelled" THEN "fresh" ELSE @]

\* _apply_state_change: the row after the UPDATE that moves it to "to", by a
\* request that read it as "seen".
Moved(row, seen, to, u) ==
    LET reopened == to = "open" /\ seen.state \in {"closed", "cancelled"}
        assignee ==
            IF to = "in_progress" /\ seen.assignee = NoUser THEN u
            ELSE IF to = "open" /\ seen.state = "in_progress"
                 THEN Cleared(seen.assignee, row.assignee, NoUser)
            ELSE row.assignee
        pending ==
            IF to = "pending_customer" THEN "fresh"
            ELSE IF seen.state = "pending_customer"
                 THEN Cleared(seen.pending, row.pending, "none")
            ELSE row.pending
        Stamp(name, old, now) ==
            IF to = name THEN "fresh"
            ELSE IF reopened THEN Cleared(old, now, "none")
            ELSE now
    IN  [state     |-> to,
         assignee  |-> assignee,
         reason    |-> to = "cancelled" \/ (row.reason /\ ~ (reopened /\ seen.reason)),
         pending   |-> pending,
         resolved  |-> IF to = "resolved" THEN "fresh" ELSE row.resolved,
         closed    |-> Stamp("closed", seen.closed, row.closed),
         cancelled |-> Stamp("cancelled", seen.cancelled, row.cancelled)]

\* Mutant: only one direction of the constraint.
CheckOneWay(row) == row.state = "cancelled" => row.reason

\* ck_tickets_cancellation_reason_xor.
Check(row) == row.state = "cancelled" <=> row.reason
-----------------------------------------------------------------------------
NewTicket(a) ==
    [state |-> "open", assignee |-> a, reason |-> FALSE, pending |-> "none",
     resolved |-> "none", closed |-> "none", cancelled |-> "none"]

NoReq == [pc |-> "idle", seen |-> NewTicket(NoUser), to |-> "open", new |-> NoUser]

\* create, with the marker row of the timeline; routing may have assigned it.
Init ==
    /\ \E a \in Users \cup {NoUser} : ticket = NewTicket(a)
    /\ timeline = <<[from |-> "open", to |-> "open"]>>
    /\ req = [u \in Users |-> NoReq]

Begin(u, r) ==
    /\ req[u].pc = "idle"
    /\ req' = [req EXCEPT ![u] = r]
    /\ UNCHANGED <<ticket, timeline>>

\* transition: read and validate.
TransitionRead(u, to) ==
    /\ MayMove(u, ticket, to)
    /\ Begin(u, [NoReq EXCEPT !.pc = "transition", !.seen = ticket, !.to = to])

\* The UPDATE, the timeline row and the commit; or the CHECK's refusal.
TransitionWrite(u) ==
    LET r   == req[u]
        row == Moved(ticket, r.seen, r.to, u)
    IN  /\ r.pc = "transition"
        /\ Len(timeline) < MaxEvents
        /\ req' = [req EXCEPT ![u] = NoReq]
        /\ IF Check(row)
           THEN /\ ticket' = row
                /\ timeline' = Append(timeline, [from |-> r.seen.state, to |-> r.to])
           ELSE UNCHANGED <<ticket, timeline>>

\* quick_resolve is two transitions in one transaction; the second one sees
\* the session's own copy of the row, moved by the first.
QuickResolveRead(u) ==
    /\ MayMove(u, ticket, "in_progress")
    /\ MayMove(u, Moved(ticket, ticket, "in_progress", u), "resolved")
    /\ Begin(u, [NoReq EXCEPT !.pc = "quick_resolve", !.seen = ticket])

\* Mutant: one timeline row for both transitions.
QuickEventsOne(from) == <<[from |-> from, to |-> "in_progress"]>>

QuickEvents(from) == <<[from |-> from, to |-> "in_progress"],
                       [from |-> "in_progress", to |-> "resolved"]>>

QuickResolveWrite(u) ==
    LET r    == req[u]
        mine == Moved(r.seen, r.seen, "in_progress", u)
        mid  == Moved(ticket, r.seen, "in_progress", u)
        row  == Moved(mid, mine, "resolved", u)
    IN  /\ r.pc = "quick_resolve"
        /\ Len(timeline) + 1 < MaxEvents
        /\ req' = [req EXCEPT ![u] = NoReq]
        /\ IF Check(mid) /\ Check(row)
           THEN /\ ticket' = row
                /\ timeline' = timeline \o QuickEvents(r.seen.state)
           ELSE UNCHANGED <<ticket, timeline>>

\* assign: refused on a closed or cancelled ticket; same to same is no write.
AssignRead(u, new) ==
    /\ ticket.state \notin {"closed", "cancelled"}
    /\ new # ticket.assignee
    /\ Begin(u, [NoReq EXCEPT !.pc = "assign", !.new = new])

AssignWrite(u) ==
    /\ req[u].pc = "assign"
    /\ ticket' = [ticket EXCEPT !.assignee = req[u].new]
    /\ req' = [req EXCEPT ![u] = NoReq]
    /\ UNCHANGED timeline

\* Days pass: a timestamp leaves its tenant's window.
WindowPasses(col) ==
    /\ ticket[col] = "fresh"
    /\ ticket' = [ticket EXCEPT ![col] = "old"]
    /\ UNCHANGED <<timeline, req>>

Next ==
    \/ \E u \in Users :
        \/ \E to \in States : TransitionRead(u, to)
        \/ TransitionWrite(u)
        \/ QuickResolveRead(u)
        \/ QuickResolveWrite(u)
        \/ \E new \in Users \cup {NoUser} : AssignRead(u, new)
        \/ AssignWrite(u)
    \/ \E col \in {"resolved", "closed", "cancelled"} : WindowPasses(col)

Spec == Init /\ [][Next]_vars
-----------------------------------------------------------------------------
(* Properties.                                                             *)

\* The committed row also obeys the table's CHECK constraint.
TypeOK ==
    /\ ticket \in Row
    /\ ticket.state = "cancelled" <=> ticket.reason
    /\ timeline \in Seq(Event)
    /\ req \in [Users -> [pc : {"idle", "transition", "quick_resolve", "assign"},
                          seen : Row, to : States, new : Users \cup {NoUser}]]

Timed(row) ==
    /\ row.state = "pending_customer" => row.pending # "none"
    /\ row.state = "resolved" => row.resolved # "none"
    /\ row.state = "closed" => row.closed # "none"
    /\ row.state = "cancelled" => row.cancelled # "none"

\* However requests overlap, a ticket has the timestamp its state is timed
\* by: find_due_pending, find_due_resolved and the reopen windows skip or
\* refuse a ticket without it for ever (_apply_state_change).
TimersFitState == Timed(ticket)

\* However requests overlap, the last timeline row committed is the move that
\* put the ticket into the state it is in (transition, quick_resolve).
TimelineEndsAtState == timeline[Len(timeline)].to = ticket.state

\* A cancelled ticket comes back only by an admin's uncancel, of a ticket
\* that was read as cancelled and inside its window; the CHECK constraint
\* stops the stale request of anyone else (transition, migration 0006).
CancelledLeavesByUncancel ==
    [][ticket.state = "cancelled" /\ ticket'.state # "cancelled" =>
        \E u \in Admins \cup SuperAdmins :
            /\ req[u].seen.state = "cancelled"
            /\ req[u].seen.cancelled = "fresh"
            /\ req[u].to = "open"
            /\ ticket'.state = "open"]_vars

\* "from_state -> set of to_states the system could allow": every change of
\* state is an edge of TRANSITIONS, or quick-resolve's two (TRANSITIONS).
StateFollowsGraph ==
    [][\/ ticket'.state = ticket.state
       \/ <<ticket.state, ticket'.state>> \in Transitions
       \/ /\ <<ticket.state, "in_progress">> \in Transitions
          /\ ticket'.state = "resolved"]_vars
=============================================================================

---------------------------- MODULE EmailOutbox ----------------------------
(***************************************************************************)
(* The e-mail outbox: rows queued when a ticket is opened or found past    *)
(* its SLA, the arq cron tick that sends what is due, and the tick that    *)
(* scans for overdue tickets.                                              *)
(*                                                                         *)
(* A tick is selected once and then works row by row, each row in a        *)
(* READ COMMITTED transaction of its own without row locks, so reading a   *)
(* row, the SMTP exchange and the commit that records it are steps, and    *)
(* two ticks of one kind may overlap: the next one starts two (fifteen)    *)
(* minutes later, while one row alone may wait thirty seconds for SMTP.    *)
(*                                                                         *)
(* Time is abstracted to the order in which next_attempt_at values pass.   *)
(***************************************************************************)
EXTENDS Naturals, Sequences, SequencesExt

CONSTANTS
    Tickets,        \* tickets in a category that has a routing rule
    Ticks,          \* overlapping runs of email_outbox_tick
    Scans,          \* overlapping runs of sla_breach_tick
    MaxBreaches,    \* bound on a ticket's breach rows, beyond the one promised
    MaxAttempts,    \* _MAX_ATTEMPTS
    Limit,          \* _DISPATCH_BATCH_LIMIT
    MaxFaults       \* bound on crashes and failed commits together

ASSUME OutboxAssumption ==
    /\ MaxBreaches \in Nat \ {0}
    /\ MaxAttempts \in Nat \ {0}
    /\ Limit \in Nat \ {0}
    /\ MaxFaults \in Nat
    /\ Tickets \cap (Tickets \X Nat) = {}

VARIABLES
    outbox,     \* the committed rows
    due,        \* pending rows whose next_attempt_at has passed, in its order
    ticket,     \* what the SLA scan reads: OPEN or IN_PROGRESS, past its SLA
    tick,       \* the runs of email_outbox_tick
    scan,       \* the runs of sla_breach_tick
    tries,      \* history: SMTP exchanges for each row, up to MaxTries
    accepted,   \* history: rows the SMTP server has accepted
    contested,  \* history: rows that two ticks have worked on at once
    faults      \* crashes and failed commits so far (bounded)

mailVars == <<outbox, due, tries, accepted, contested>>
vars == <<outbox, due, ticket, tick, scan, tries, accepted, contested, faults>>

\* The ticket_opened row is named after its ticket, a breach row after its
\* ticket and a number: there is no unique index, so a ticket may get several.
Rows == Tickets \cup (Tickets \X (1..MaxBreaches))

Breaches(t) == {t} \X (1..MaxBreaches)

\* One more than SendsBounded allows: more tries need not be told apart.
MaxTries == MaxAttempts + MaxFaults + 1

Absent == [status |-> "absent", attempts |-> 0]
Queued == [status |-> "pending", attempts |-> 0]

NoTick == [pc |-> "idle", ids |-> <<>>, seen |-> 0]
NoScan == [pc |-> "idle", hits |-> {}]

Pending(id) == outbox[id].status = "pending"
Current(d)  == Head(tick[d].ids)
Working(d, id) == tick[d].pc \in {"send", "sent", "failed"} /\ Current(d) = id

\* The queue without a row, which is in it at most once.
Without(q, id) ==
    IF Contains(q, id) THEN RemoveAt(q, CHOOSE i \in 1..Len(q) : q[i] = id) ELSE q

\* Mutants: a sent notice no longer counts; a notice of any event counts.
BreachSeenUnsent(t) == \E id \in Breaches(t) : Pending(id)
AnyMailSeen(t) == \E id \in Breaches(t) \cup {t} : outbox[id].status # "absent"

BreachSeen(t) == \E id \in Breaches(t) : outbox[id].status # "absent"
-----------------------------------------------------------------------------
Init ==
    /\ outbox = [id \in Rows |-> Absent]
    /\ due = <<>>
    /\ ticket = [t \in Tickets |-> [state |-> "none", late |-> FALSE]]
    /\ tick = [d \in Ticks |-> NoTick]
    /\ scan = [s \in Scans |-> NoScan]
    /\ tries = [id \in Rows |-> 0]
    /\ accepted = {}
    /\ contested = {}
    /\ faults = 0

\* session.add(EmailOutbox(...)): pending, next_attempt_at = now().
Enqueue(id) ==
    /\ outbox' = [outbox EXCEPT ![id] = Queued]
    /\ due' = Append(due, id)
    /\ UNCHANGED <<tries, accepted, contested>>

\* A ticket is opened; apply_routing queues its mail in the transaction that
\* opens it, unless the rule is not there yet or routing raised.
TicketOpened(t) ==
    /\ ticket[t].state = "none"
    /\ ticket' = [ticket EXCEPT ![t].state = "active"]
    /\ Enqueue(t) \/ UNCHANGED mailVars
    /\ UNCHANGED <<tick, scan, faults>>

\* next_attempt_at passes for a row that was backing off.
BackoffEnds(id) ==
    /\ Pending(id)
    /\ ~ Contains(due, id)
    /\ due' = Append(due, id)
    /\ UNCHANGED <<outbox, ticket, tick, scan, tries, accepted, contested, faults>>
-----------------------------------------------------------------------------
(* email_outbox_tick and _dispatch_one.                                    *)

\* The due rows, oldest first, up to the limit.
DispatchScan(d) ==
    /\ tick[d].pc = "idle"
    /\ due # <<>>
    /\ tick' = [tick EXCEPT ![d] =
                  [NoTick EXCEPT !.pc = "next",
                                 !.ids = SubSeq(due, 1, IF Len(due) < Limit
                                                        THEN Len(due) ELSE Limit)]]
    /\ UNCHANGED <<mailVars, ticket, scan, faults>>

\* On to the tick's next row, or the end of the tick.
Advance(d) ==
    tick' = [tick EXCEPT ![d] =
               IF Len(@.ids) = 1 THEN NoTick
               ELSE [NoTick EXCEPT !.pc = "next", !.ids = Tail(tick[d].ids)]]

\* Mutant: the status of the row is not asked again.
StillPendingSkipped(id) == TRUE

\* "row is None or row.status != PENDING: return".
StillPending(id) == Pending(id)

ReadRow(d) ==
    LET id == Current(d)
    IN  /\ tick[d].pc = "next"
        /\ IF StillPending(id)
           THEN /\ tick' = [tick EXCEPT ![d].pc = "send",
                                        ![d].seen = outbox[id].attempts]
                /\ contested' = IF \E e \in Ticks \ {d} : Working(e, id)
                                THEN contested \cup {id} ELSE contested
           ELSE Advance(d) /\ UNCHANGED contested
        /\ UNCHANGED <<outbox, due, ticket, scan, tries, accepted, faults>>

CountTry(id) == [tries EXCEPT ![id] = IF @ < MaxTries THEN @ + 1 ELSE @]

\* The SMTP server takes the mail and says so.
SendAccepted(d) ==
    LET id == Current(d)
    IN  /\ tick[d].pc = "send"
        /\ tick' = [tick EXCEPT ![d].pc = "sent"]
        /\ tries' = CountTry(id)
        /\ accepted' = accepted \cup {id}
        /\ UNCHANGED <<outbox, due, ticket, scan, contested, faults>>

\* Mutant: the exception is swallowed and the mail taken for sent.
SendRaisesSwallowed(d) ==
    /\ tick[d].pc = "send"
    /\ tick' = [tick EXCEPT ![d].pc = "sent"]
    /\ tries' = CountTry(Current(d))
    /\ accepted' \in {accepted, accepted \cup {Current(d)}}
    /\ UNCHANGED <<outbox, due, ticket, scan, contested, faults>>

\* send_email raises: refused, timed out, or accepted with the answer lost.
SendRaises(d) ==
    LET id == Current(d)
    IN  /\ tick[d].pc = "send"
        /\ tick' = [tick EXCEPT ![d].pc = "failed"]
        /\ tries' = CountTry(id)
        /\ accepted' \in {accepted, accepted \cup {id}}
        /\ UNCHANGED <<outbox, due, ticket, scan, contested, faults>>

\* The UPDATE at the end of a row's transaction: the changed columns, from
\* the row as it was read.
RecordSent(d) ==
    LET id == Current(d)
    IN  /\ tick[d].pc = "sent"
        /\ outbox' = [outbox EXCEPT ![id].status = "sent"]
        /\ due' = Without(due, id)
        /\ Advance(d)
        /\ UNCHANGED <<ticket, scan, tries, accepted, contested, faults>>

\* Mutant: a failure that is not counted.
AttemptsForgotten(seen) == seen

AttemptsAfter(seen) == seen + 1

RecordFailure(d) ==
    LET id == Current(d)
        n  == AttemptsAfter(tick[d].seen)
    IN  /\ tick[d].pc = "failed"
        /\ outbox' = [outbox EXCEPT ![id].attempts = n,
                                    ![id].status = IF n >= MaxAttempts
                                                   THEN "failed" ELSE @]
        /\ due' = Without(due, id)
        /\ Advance(d)
        /\ UNCHANGED <<ticket, scan, tries, accepted, contested, faults>>

\* The commit raises: the row stays as it was, the tick goes on.
RecordRaises(d) ==
    /\ tick[d].pc \in {"sent", "failed"}
    /\ faults < MaxFaults
    /\ faults' = faults + 1
    /\ Advance(d)
    /\ UNCHANGED <<mailVars, ticket, scan>>
-----------------------------------------------------------------------------
(* sla_breach_tick and _enqueue_breach.                                    *)

\* opened_at is set once: a ticket that is past its SLA stays so.
SlaPasses(t) ==
    /\ ticket[t].state # "none" /\ ~ ticket[t].late
    /\ ticket' = [ticket EXCEPT ![t].late = TRUE]
    /\ UNCHANGED <<mailVars, tick, scan, faults>>

\* A transition into or out of OPEN and IN_PROGRESS.
TicketMoves(t) ==
    /\ ticket[t].state # "none"
    /\ ticket' = [ticket EXCEPT ![t].state = IF @ = "active" THEN "other" ELSE "active"]
    /\ UNCHANGED <<mailVars, tick, scan, faults>>

Overdue(t) == ticket[t].state = "active" /\ ticket[t].late

BreachScan(s) ==
    LET hits == {t \in Tickets : Overdue(t) /\ ~ BreachSeen(t)}
    IN  /\ scan[s].pc = "idle"
        /\ hits # {}
        /\ scan' = [scan EXCEPT ![s] = [pc |-> "check", hits |-> hits]]
        /\ UNCHANGED <<mailVars, ticket, tick, faults>>

\* Done with one hit.
NextHit(s, t) ==
    LET rest == scan[s].hits \ {t}
    IN  scan' = [scan EXCEPT ![s] = IF rest = {} THEN NoScan
                                    ELSE [pc |-> "check", hits |-> rest]]

\* The second NOT EXISTS.  A scan at "insert" has chosen its hit; which one
\* is fixed by an order on the tickets that does not matter.
Chosen(s) == CHOOSE t \in scan[s].hits : TRUE

BreachCheck(s) ==
    /\ scan[s].pc = "check"
    /\ IF BreachSeen(Chosen(s))
       THEN NextHit(s, Chosen(s))
       ELSE scan' = [scan EXCEPT ![s].pc = "insert"]
    /\ UNCHANGED <<mailVars, ticket, tick, faults>>

BreachInsert(s) ==
    /\ scan[s].pc = "insert"
    /\ \E n \in 1..MaxBreaches :
         /\ \A k \in 1..MaxBreaches : k < n <=> outbox[<<Chosen(s), k>>].status # "absent"
         /\ Enqueue(<<Chosen(s), n>>)
    /\ NextHit(s, Chosen(s))
    /\ UNCHANGED <<ticket, tick, faults>>

\* The insert or its commit raises: this hit is skipped, the scan goes on.
InsertRaises(s) ==
    /\ scan[s].pc = "insert"
    /\ faults < MaxFaults
    /\ faults' = faults + 1
    /\ NextHit(s, Chosen(s))
    /\ UNCHANGED <<mailVars, ticket, tick>>

\* The worker dies; what its ticks had not committed is gone.
Crash ==
    /\ faults < MaxFaults
    /\ \/ \E d \in Ticks : tick[d].pc # "idle"
       \/ \E s \in Scans : scan[s].pc # "idle"
    /\ faults' = faults + 1
    /\ tick' = [d \in Ticks |-> NoTick]
    /\ scan' = [s \in Scans |-> NoScan]
    /\ UNCHANGED <<mailVars, ticket>>
-----------------------------------------------------------------------------
TickStep(d) ==
    \/ DispatchScan(d)
    \/ ReadRow(d)
    \/ SendAccepted(d)
    \/ SendRaises(d)
    \/ RecordSent(d)
    \/ RecordFailure(d)

ScanStep(s) ==
    \/ BreachScan(s)
    \/ BreachCheck(s)
    \/ BreachInsert(s)

Next ==
    \/ \E id \in Rows : BackoffEnds(id)
    \/ \E d \in Ticks : TickStep(d) \/ RecordRaises(d)
    \/ \E t \in Tickets : TicketOpened(t) \/ SlaPasses(t) \/ TicketMoves(t)
    \/ \E s \in Scans : ScanStep(s) \/ InsertRaises(s)
    \/ Crash

Spec == Init /\ [][Next]_vars

\* Cron fires for ever and a tick that has begun goes on (SMTP has a
\* timeout); time passes.  No ticket is ever obliged to be opened, to move or
\* to grow late, and nothing is obliged to fail.
Fairness ==
    /\ \A id \in Rows : WF_vars(BackoffEnds(id))
    /\ \A d \in Ticks : WF_vars(TickStep(d))
    /\ \A s \in Scans : WF_vars(ScanStep(s))

FairSpec == Spec /\ Fairness
-----------------------------------------------------------------------------
(* Properties.                                                             *)

TypeOK ==
    /\ outbox \in [Rows -> [status : {"absent", "pending", "sent", "failed"},
                            attempts : 0..MaxAttempts]]
    /\ due \in Seq(Rows)
    /\ ticket \in [Tickets -> [state : {"none", "active", "other"}, late : BOOLEAN]]
    /\ tick \in [Ticks -> [pc : {"idle", "next", "send", "sent", "failed"},
                           ids : Seq(Rows), seen : 0..MaxAttempts]]
    /\ scan \in [Scans -> [pc : {"idle", "check", "insert"}, hits : SUBSET Tickets]]
    /\ tries \in [Rows -> 0..MaxTries]
    /\ accepted \subseteq Rows
    /\ contested \subseteq Rows
    /\ faults \in 0..MaxFaults

\* A row marked sent has been accepted by the mail server, whatever ticks
\* overlapped and whatever was rolled back (_dispatch_one).
SentWasAccepted == \A id \in Rows : outbox[id].status = "sent" => id \in accepted

\* A mail is tried at most MAX_ATTEMPTS times and once more for every crash or
\* failed commit, unless two overlapping ticks worked on its row at once
\* (_dispatch_one: attempts, the status check, "5th attempt: failed").
SendsBounded ==
    \A id \in Rows \ contested : tries[id] <= MaxAttempts + faults

\* A row that was sent or given up stays so, with the same exception
\* (_dispatch_one records from the row it read before the SMTP exchange).
FinalStays ==
    [][\A id \in Rows \ contested' :
          outbox[id].status \in {"sent", "failed"} => outbox'[id] = outbox[id]]_vars

\* "AT MOST ONE sla_breach row per ticket" (module header); "even if ticks
\* overlap, one row per ticket" (comment in _enqueue_breach).
OneBreachMailPerTicket ==
    \A t \in Tickets : \A r, s \in Breaches(t) :
        outbox[r].status # "absent" /\ outbox[s].status # "absent" => r = s

\* Every queued mail is sent or given up in the end: no row starves behind
\* the batch limit, no crash or failed commit strands it, no failure loops
\* (email_outbox_tick).
EveryMailSettles ==
    \A id \in Rows : Pending(id) ~> outbox[id].status \in {"sent", "failed"}

\* A ticket that stays overdue gets its breach mail, though an enqueue may
\* fail or be lost (sla_breach_tick scans again).
LateTicketIsReported ==
    \A t \in Tickets :
        <>[]Overdue(t) => <>(\E id \in Breaches(t) : outbox[id].status # "absent")
=============================================================================

------------------------------- MODULE Intake -------------------------------
(***************************************************************************)
(* How texts become reviews and tickets: the analyze request and the batch *)
(* worker pass each text through record_and_decide of ReviewService, which *)
(* mints a ticket, links the review to a recent ticket of the same text,   *)
(* or skips; a user may promote a skipped review by hand.  Nothing keeps a *)
(* user from sending a request again while the first is under way.         *)
(*                                                                         *)
(* Each request, and each chunk of the batch, is one READ COMMITTED        *)
(* transaction: it reads what others committed and its own rows, nothing   *)
(* it reads is locked, and its rows join the tables when it commits.  The  *)
(* set of texts a run of the batch has met is memory of the run, shared by *)
(* its chunks, and no rollback undoes it.  The batch is one job.           *)
(*                                                                         *)
(* The classifier, the automation mode and the thresholds are one choice,  *)
(* to skip or not, made anew for each row: model answers vary and the mode *)
(* may change.  Left out: soft deletion, which the duplicate lookup        *)
(* ignores; routing, whose errors are swallowed; the pool's bound on how   *)
(* many chunks are open at once; and chunks whose classification fails,    *)
(* whose rows reach neither the set nor a table.                           *)
(***************************************************************************)
EXTENDS Naturals, Sequences

CONSTANTS
    Requests,       \* the analyze and promote requests, of any users
    Texts,
    File,           \* the uploaded file: its chunks, each the texts of its rows
    Parallel,       \* chunk_concurrency > 1
    ProducerMayFail,    \* a parallel run may fail and leave its tasks at work
    Window,         \* DEDUP_WINDOW, in ticks
    None,           \* NULL: no ticket, no request
    MaxNow,         \* bound on the clock
    MaxEnds         \* bound on the runs of the job that fail or die, the first ones

Runs == 0 .. MaxEnds
Chunks == 1 .. Len(File)

\* Who draws ids: the requests, and the chunks of each run.
Tasks == Runs \X Chunks
Actors == Requests \cup Tasks
Ids == Actors \X Nat

\* A review's ticket is its ticket_id; kind is its decision and reason:
\* CREATE, text_hash_within_24h, intra_batch_duplicate, and the skips.
Review == [id : Ids, text : Texts, at : Nat, ticket : Ids \cup {None},
           kind : {"created", "dedup", "copy", "skipped"}]

Ticket == [id : Ids, review : Ids, text : Texts]

\* A chunk of a run: its transaction's reviews, the texts whose row failed in
\* it, and the checkpoint its progress update has read.
Chunk == [pc : {"idle", "rows", "committed", "progress", "done", "lost"}, row : Nat,
          rows : SUBSET Review, bad : SUBSET Texts, saw : 0 .. Len(File)]

ASSUME IntakeAssumption ==
    /\ Requests \cap Tasks = {}
    /\ None \notin Ids /\ None \notin Review
    /\ File \in Seq(Seq(Texts) \ {<<>>})
    /\ Parallel \in BOOLEAN /\ ProducerMayFail \in BOOLEAN
    /\ Window \in Nat /\ MaxNow \in Nat /\ MaxEnds \in Nat

VARIABLES
    now,        \* the clock
    reviews,    \* the committed reviews
    tickets,    \* the committed tickets
    analyzing,  \* the review each analyze request is about to commit
    promoting,  \* the review each promotion has read
    served,     \* the requests that are over
    run,        \* the latest run of the job
    going,      \* the runs with chunks still at work
    from,       \* the checkpoint each run started at
    ckpt,       \* the job's checkpoint: its chunks up to there count as done
    seen,       \* the seen_hashes of each run
    chunk,      \* the chunks of each run
    failed,     \* the texts whose row failed in a chunk that was stored
    knew,       \* history: <<i, t>> if ticket t was there when ticket i was decided
    undone      \* history: <<n, text>> if a rollback of run n took the text

batch == <<run, going, from, ckpt, seen, chunk, failed, undone>>
vars == <<now, reviews, tickets, analyzing, promoting, served, batch, knew>>

RequestId(q) == <<q, 0>>

ReviewOf(id, text, kind, ticket) ==
    [id |-> id, text |-> text, at |-> now, ticket |-> ticket, kind |-> kind]

\* A ticket for id is decided on with the committed ones there to be seen.
Knows(id) == knew' = knew \cup {<<id, t.id>> : t \in tickets}

KnowsIfCreated(row) == IF row.kind = "created" THEN Knows(row.id) ELSE UNCHANGED knew

\* Mutant: a strict comparison at the window's edge.
RecentStrict(text, table) ==
    {r \in table : r.text = text /\ r.ticket # None /\ r.at + Window > now}

\* _find_dedup_ticket: the reviews of the text in the window that have a ticket.
Recent(text, table) ==
    {r \in table : r.text = text /\ r.ticket # None /\ r.at + Window >= now}

\* Mutant: a duplicate is linked by the id of the review it repeats.
DecidedByReview(id, text, table) ==
    {ReviewOf(id, text, "skipped", None)} \cup
    IF Recent(text, table) = {} THEN {ReviewOf(id, text, "created", id)}
    ELSE {ReviewOf(id, text, "dedup", r.id) : r \in Recent(text, table)}

\* record_and_decide up to its insert: the reviews it may come to store, given
\* the table it reads.  A ticket it mints is given the review's id.
Decided(id, text, table) ==
    LET recent == Recent(text, table)
        newest == {r \in recent : \A s \in recent : s.at <= r.at}
    IN  {ReviewOf(id, text, "skipped", None)} \cup
        IF recent = {} THEN {ReviewOf(id, text, "created", id)}
        ELSE {ReviewOf(id, text, "dedup", r.ticket) : r \in newest}

\* The tickets created with these reviews, each pointing back to its own.
Minted(rows) ==
    {[id |-> r.id, review |-> r.id, text |-> r.text] :
        r \in {s \in rows : s.kind = "created"}}
-----------------------------------------------------------------------------
NoChunk == [pc |-> "idle", row |-> 0, rows |-> {}, bad |-> {}, saw |-> 0]

Init ==
    /\ now = 0
    /\ reviews = {} /\ tickets = {} /\ knew = {}
    /\ analyzing = [q \in Requests |-> None]
    /\ promoting = [q \in Requests |-> None]
    /\ served = {}
    /\ run = 0 /\ going = {0} /\ from = [n \in Runs |-> 0] /\ ckpt = 0
    /\ seen = [n \in Runs |-> {}]
    /\ chunk = [t \in Tasks |-> NoChunk]
    /\ failed = {} /\ undone = {}

Tick ==
    /\ now < MaxNow
    /\ now' = now + 1
    /\ UNCHANGED <<reviews, tickets, analyzing, promoting, served, batch, knew>>

New(q) == q \notin served /\ analyzing[q] = None /\ promoting[q] = None

\* The analyze request decides on what it reads.
AnalyzeDecide(q) ==
    /\ New(q)
    /\ \E text \in Texts : \E row \in Decided(RequestId(q), text, reviews) :
           /\ analyzing' = [analyzing EXCEPT ![q] = row]
           /\ KnowsIfCreated(row)
    /\ UNCHANGED <<now, reviews, tickets, promoting, served, batch>>

\* It inserts the ticket and the review, sets the back-pointer and commits.
AnalyzeCommit(q) ==
    /\ analyzing[q] # None
    /\ reviews' = reviews \cup {analyzing[q]}
    /\ tickets' = tickets \cup Minted({analyzing[q]})
    /\ analyzing' = [analyzing EXCEPT ![q] = None]
    /\ served' = served \cup {q}
    /\ UNCHANGED <<now, promoting, batch, knew>>

\* Mutant: promotion asks whether the bridge minted a ticket, not for one.
PromoteReadDecision(q) ==
    /\ New(q)
    /\ \E r \in {s \in reviews : s.kind # "created"} :
           promoting' = [promoting EXCEPT ![q] = r]
    /\ Knows(RequestId(q))
    /\ UNCHANGED <<now, reviews, tickets, analyzing, served, batch>>

\* promote_to_ticket reads the review and refuses one that has a ticket.
PromoteRead(q) ==
    /\ New(q)
    /\ \E r \in {s \in reviews : s.ticket = None} :
           promoting' = [promoting EXCEPT ![q] = r]
    /\ Knows(RequestId(q))
    /\ UNCHANGED <<now, reviews, tickets, analyzing, served, batch>>

\* It inserts the ticket, points the review to it whatever the row holds by
\* now, and commits.
PromoteCommit(q) ==
    LET id == RequestId(q)
        r  == promoting[q]
    IN  /\ r # None
        /\ tickets' = tickets \cup {[id |-> id, review |-> r.id, text |-> r.text]}
        /\ reviews' = {IF s.id = r.id THEN [s EXCEPT !.ticket = id] ELSE s : s \in reviews}
        /\ promoting' = [promoting EXCEPT ![q] = None]
        /\ served' = served \cup {q}
        /\ UNCHANGED <<now, analyzing, batch, knew>>

\* Any error, an unknown category or a lost connection: nothing is stored.
RequestFails(q) ==
    /\ analyzing[q] # None \/ promoting[q] # None
    /\ analyzing' = [analyzing EXCEPT ![q] = None]
    /\ promoting' = [promoting EXCEPT ![q] = None]
    /\ served' = served \cup {q}
    /\ UNCHANGED <<now, reviews, tickets, batch, knew>>
-----------------------------------------------------------------------------
(* A chunk t of a run: <<run, chunk>>.                                     *)

Step(t, c) == chunk' = [chunk EXCEPT ![t] = c]

\* The loop hands out the file's chunks from the run's checkpoint on: the serial
\* one in order, each when the last is done; the parallel one several at a time,
\* which come to their rows in any order, as their analysis takes its time.
Ready(t) ==
    /\ t[1] \in going /\ from[t[1]] < t[2] /\ chunk[t].pc = "idle"
    /\ \A k \in Chunks : from[t[1]] < k /\ k < t[2] =>
           Parallel \/ chunk[<<t[1], k>>].pc = "done"

\* A text the run has met, in whichever chunk, is stored as a copy.
RowCopied(t, c, id, text) ==
    /\ text \in seen[t[1]]
    /\ Step(t, [c EXCEPT !.rows = @ \cup {ReviewOf(id, text, "copy", None)}])
    /\ UNCHANGED knew

\* Another is remembered and decided on, or its row fails and the loop goes on.
RowDecided(t, c, id, text) ==
    /\ text \notin seen[t[1]]
    /\ \E row \in Decided(id, text, reviews \cup c.rows) :
           /\ Step(t, [c EXCEPT !.rows = @ \cup {row}])
           /\ KnowsIfCreated(row)

RowFails(t, c, text) ==
    /\ text \notin seen[t[1]]
    /\ Step(t, [c EXCEPT !.bad = @ \cup {text}])
    /\ UNCHANGED knew

\* One turn of the row loop of _process_chunk; dedup_lock makes the look at the
\* shared set and its update one step.
BatchRow(t) ==
    /\ chunk[t].pc = "rows" \/ Ready(t)
    /\ chunk[t].row < Len(File[t[2]])
    /\ LET c    == [chunk[t] EXCEPT !.pc = "rows", !.row = @ + 1]
           text == File[t[2]][c.row]
           id   == <<t, c.row>>
       IN  /\ RowCopied(t, c, id, text) \/ RowDecided(t, c, id, text) \/ RowFails(t, c, text)
           /\ seen' = [seen EXCEPT ![t[1]] = @ \cup {text}]
    /\ UNCHANGED <<now, reviews, tickets, analyzing, promoting, served>>
    /\ UNCHANGED <<run, going, from, ckpt, failed, undone>>

\* The chunk's transaction commits; its progress is another transaction.
BatchCommit(t) ==
    /\ chunk[t].pc = "rows" /\ chunk[t].row = Len(File[t[2]])
    /\ reviews' = reviews \cup chunk[t].rows
    /\ tickets' = tickets \cup Minted(chunk[t].rows)
    /\ failed' = failed \cup chunk[t].bad
    /\ Step(t, [chunk[t] EXCEPT !.pc = "committed", !.rows = {}, !.bad = {}])
    /\ UNCHANGED <<now, analyzing, promoting, served, knew>>
    /\ UNCHANGED <<run, going, from, ckpt, seen, undone>>

\* apply_progress reads the job, and writes its checkpoint if it is ahead of
\* the one it read.
ProgressRead(t) ==
    /\ chunk[t].pc = "committed"
    /\ Step(t, [chunk[t] EXCEPT !.pc = "progress", !.saw = ckpt])
    /\ UNCHANGED <<now, reviews, tickets, analyzing, promoting, served, knew>>
    /\ UNCHANGED <<run, going, from, ckpt, seen, failed, undone>>

\* Mutant: the checkpoint is the first row after the chunk.
ProgressWriteNext(t) ==
    /\ chunk[t].pc = "progress"
    /\ ckpt' = IF t[2] > chunk[t].saw THEN t[2] + 1 ELSE ckpt
    /\ Step(t, [chunk[t] EXCEPT !.pc = "done", !.saw = 0])
    /\ UNCHANGED <<now, reviews, tickets, analyzing, promoting, served, knew>>
    /\ UNCHANGED <<run, going, from, seen, failed, undone>>

ProgressWrite(t) ==
    /\ chunk[t].pc = "progress"
    /\ ckpt' = IF t[2] > chunk[t].saw THEN t[2] ELSE ckpt
    /\ Step(t, [chunk[t] EXCEPT !.pc = "done", !.saw = 0])
    /\ UNCHANGED <<now, reviews, tickets, analyzing, promoting, served, knew>>
    /\ UNCHANGED <<run, going, from, seen, failed, undone>>

\* The texts a chunk holds the original of, or its error.
Originals(c) == c.bad \cup {r.text : r \in {s \in c.rows : s.kind # "copy"}}

RolledBack(c) == [c EXCEPT !.pc = "lost", !.rows = {}, !.bad = {}, !.saw = 0]

Open(t) == chunk[t].pc \in {"rows", "committed", "progress"}

\* A database error in the chunk or its progress, after which no statement of
\* its transaction succeeds, or its cancellation by a producer that has met
\* one: what it has not committed is undone, what the set holds is not.
ChunkFails(t) ==
    /\ Open(t) \/ Ready(t)
    /\ t[1] < MaxEnds
    /\ undone' = undone \cup {<<t[1], text>> : text \in Originals(chunk[t])}
    /\ Step(t, RolledBack(chunk[t]))
    /\ UNCHANGED <<now, reviews, tickets, analyzing, promoting, served, knew>>
    /\ UNCHANGED <<run, going, from, ckpt, seen, failed>>

\* The runs that outlive the end of the latest: none after a crash; those before
\* it when it fails with its chunks; itself too when its producer fails alone
\* and leaves the tasks it has created to themselves.
Survivors ==
    {{}, going \ {run}} \cup (IF Parallel /\ ProducerMayFail THEN {going} ELSE {})

\* The run fails, or its process dies, and the job is retried: the next run
\* starts at the checkpoint.
NextRun ==
    /\ \E k \in Chunks : from[run] < k /\ chunk[<<run, k>>].pc # "done"
    /\ run < MaxEnds
    /\ \E live \in Survivors :
           LET dying == {t \in Tasks : t[1] \notin live /\ Open(t)}
           IN  /\ chunk' = [t \in Tasks |->
                     IF t \in dying THEN RolledBack(chunk[t]) ELSE chunk[t]]
               /\ undone' = undone \cup
                      UNION {{<<t[1], text>> : text \in Originals(chunk[t])} : t \in dying}
               /\ going' = live \cup {run + 1}
    /\ run' = run + 1
    /\ from' = [from EXCEPT ![run + 1] = ckpt]
    /\ UNCHANGED <<now, reviews, tickets, analyzing, promoting, served, ckpt, failed, knew>>

\* Mutant: the set of texts outlives the run that met them.
RunEndsKeepsSeen ==
    /\ NextRun
    /\ seen' = [seen EXCEPT ![run + 1] = seen[run]]

\* Its set is its own, and empty.
RunEnds ==
    /\ NextRun
    /\ UNCHANGED seen

Next ==
    \/ Tick
    \/ \E q \in Requests :
           \/ AnalyzeDecide(q)
           \/ AnalyzeCommit(q)
           \/ PromoteRead(q)
           \/ PromoteCommit(q)
           \/ RequestFails(q)
    \/ \E t \in Tasks :
           \/ BatchRow(t)
           \/ BatchCommit(t)
           \/ ProgressRead(t)
           \/ ProgressWrite(t)
           \/ ChunkFails(t)
    \/ RunEnds

Spec == Init /\ [][Next]_vars
-----------------------------------------------------------------------------
TypeOK ==
    /\ now \in Nat
    /\ reviews \subseteq Review /\ tickets \subseteq Ticket
    /\ analyzing \in [Requests -> Review \cup {None}]
    /\ promoting \in [Requests -> Review \cup {None}]
    /\ served \subseteq Requests
    /\ run \in Runs /\ going \subseteq Runs
    /\ from \in [Runs -> 0 .. Len(File)] /\ ckpt \in 0 .. Len(File)
    /\ seen \in [Runs -> SUBSET Texts]
    /\ chunk \in [Tasks -> Chunk]
    /\ failed \subseteq Texts /\ undone \subseteq Runs \X Texts
    /\ knew \subseteq Ids \X Ids

SameRun(a, b) == a \in Tasks /\ b \in Tasks /\ a[1] = b[1]

\* The duplicate lookup works for whatever was committed before: of two tickets
\* minted for one text within the window neither was there when the other was
\* decided, and they are not of one run, whose chunks share a set.  So requests
\* sent one after the other, and the runs that process a chunk again, mint none
\* anew; two that overlap may, a double click too (review_service.py:256-267).
MintedOnce ==
    \A r, s \in {x \in reviews : x.kind = "created"} :
        r.id # s.id /\ r.text = s.text /\ r.at <= s.at /\ s.at <= r.at + Window
            => /\ <<r.id, s.id>> \notin knew /\ <<s.id, r.id>> \notin knew
               /\ ~ SameRun(r.id[1], s.id[1])

\* Reviews and tickets point at each other: a ticket's review exists, has the
\* ticket's text and a ticket, and is the bridge's mint or one it left without
\* a ticket, never a duplicate of another; a review's ticket exists and has the
\* review's text, and is the review's own unless it was linked as a duplicate.
LinksAgree ==
    /\ \A t \in tickets : \E r \in reviews :
           /\ r.id = t.review /\ r.text = t.text
           /\ r.ticket # None /\ r.kind # "dedup"
    /\ \A r \in reviews : r.ticket # None =>
           \E t \in tickets :
               /\ t.id = r.ticket /\ t.text = r.text
               /\ r.kind # "dedup" => t.review = r.id

\* Promotion refuses a review that has a ticket: if a review has been given two,
\* both are promotions, and neither was there when the other read the review.
\* Requests that overlap, of one user or of two, do promote it twice.
PromotedOnce ==
    \A t, u \in tickets :
        t.review = u.review /\ t.id # u.id =>
            /\ t.id # t.review
            /\ <<t.id, u.id>> \notin knew /\ <<u.id, t.id>> \notin knew

\* A stored copy repeats a review of the same file that is there, or one whose
\* row failed in a stored chunk.  With parallel chunks it may also repeat one
\* that a chunk of the same run has still to commit, or has rolled back; what
\* an earlier run undid is never the original of a copy.
CopiesHaveOriginal ==
    \A c \in reviews : c.kind = "copy" =>
        \/ c.text \in failed
        \/ \E r \in reviews : r.id[1] \in Tasks /\ r.text = c.text /\ r.kind # "copy"
        \/ Parallel /\ \/ <<c.id[1][1], c.text>> \in undone
                       \/ \E t \in Tasks : t[1] = c.id[1][1] /\ c.text \in Originals(chunk[t])

\* A review stays linked to its ticket, unless a promotion that had read it
\* before it was linked writes its own.
LinksStay ==
    [][\A r \in reviews : r.ticket # None =>
           \E s \in reviews' :
               /\ s.id = r.id
               /\ \/ s.ticket = r.ticket
                  \/ \E q \in Requests : /\ promoting[q] # None
                                         /\ promoting[q].id = r.id
                                         /\ promoting[q].ticket = None]_vars
=============================================================================

---------------------------- MODULE IntakeProofs ----------------------------
(***************************************************************************)
(* The types of Intake, the agreement of reviews and tickets, and what the *)
(* duplicate lookup, promotion and the set of met texts achieve, for any   *)
(* requests, file, window, clock, and for the serial and the parallel      *)
(* loop.                                                                   *)
(*                                                                         *)
(* The invariant speaks of the pool, the rows stored and those pending in  *)
(* an open transaction: its ids are unique, each row fits its decision,    *)
(* and a ticket known at the decision to mint another of its text is a     *)
(* window older.  A step adds a row, commits pending rows, drops them, or  *)
(* promotes a stored one; a lemma for each says what becomes of the        *)
(* tables, and the actions have only their own ids and sets to show.       *)
(*                                                                         *)
(* For the copies, a text a run has met is stored, held by a chunk of it,  *)
(* or undone; with the serial loop one chunk is at work at a time, and     *)
(* none after a rollback, so that only what is stored remains.             *)
(***************************************************************************)
EXTENDS Intake, TLAPS

Asked == {analyzing[q] : q \in {p \in Requests : analyzing[p] # None}}
Rows == UNION {chunk[t].rows : t \in Tasks}
Pending == Rows \cup Asked
Pool == reviews \cup Pending

Unique ==
    /\ \A r, s \in Pool : r.id = s.id => r = s
    /\ \A r \in Pending : r \notin reviews
    /\ \A r \in Pending : \A t \in tickets : t.id # r.id

\* What a decision leaves in a row.
Fits ==
    /\ \A r \in Pool : /\ r.at <= now
                       /\ r.kind = "created" => r.ticket = r.id
                       /\ r.kind = "dedup" => r.ticket # None
    /\ \A r \in Pending :
           /\ r.kind \in {"copy", "skipped"} => r.ticket = None
           /\ r.kind = "dedup" => \E t \in tickets : t.id = r.ticket /\ t.text = r.text

\* A ticket known when another of its text was minted is a window older.
Apart ==
    \A r \in Pool : \A s \in reviews :
        /\ r.kind = "created" /\ s.kind = "created" /\ r.text = s.text
        /\ <<r.id, s.id>> \in knew
        => s.at + Window < r.at

KnownStored == \A p \in knew : \E t \in tickets : t.id = p[2]

MintIsOwn ==
    \A t \in tickets : t.id = t.review =>
        \A s \in reviews : s.id = t.review => s.kind = "created"

Tables ==
    Unique /\ Fits /\ Apart /\ KnownStored /\ MintIsOwn /\ LinksAgree /\ PromotedOnce

\* A run decides on a text once, and has it in its set from then on.
RunOnce ==
    /\ \A r \in Pool : r.id[1] \in Tasks => r.text \in seen[r.id[1][1]]
    /\ \A r, s \in Pool :
           /\ SameRun(r.id[1], s.id[1]) /\ r.text = s.text
           /\ r.kind # "copy" /\ s.kind # "copy"
           => r.id = s.id

\* The ids that have been used: those of requests that are over, and those of
\* the rows a chunk has come to.
Drawn(id) ==
    \/ id[1] \in served
    \/ id[1] \in Tasks /\ id[2] <= chunk[id[1]].row

OwnIds ==
    /\ \A r \in reviews : Drawn(r.id)
    /\ \A t \in tickets : Drawn(t.id)
    /\ \A t \in Tasks : \A r \in chunk[t].rows : r.id[1] = t /\ r.id[2] <= chunk[t].row
    /\ \A q \in Requests : analyzing[q] # None =>
           analyzing[q].id = RequestId(q) /\ promoting[q] = None
    /\ \A q \in served : analyzing[q] = None /\ promoting[q] = None

\* What a promotion that has read its review may rely on at its commit.
ReadStands ==
    \A q \in Requests : promoting[q] # None =>
        /\ promoting[q].kind \in {"copy", "skipped"} /\ promoting[q].ticket = None
        /\ \E s \in reviews : /\ s.id = promoting[q].id
                              /\ s.text = promoting[q].text
                              /\ s.kind = promoting[q].kind
        /\ \A t \in tickets :
               t.review = promoting[q].id => <<RequestId(q), t.id>> \notin knew

IInv == TypeOK /\ Tables /\ RunOnce /\ OwnIds /\ ReadStands
-----------------------------------------------------------------------------
LEMMA Constants ==
    /\ Requests \cap Tasks = {} /\ None \notin Ids /\ None \notin Review
    /\ File \in Seq(Seq(Texts)) /\ Len(File) \in Nat
    /\ \A k \in Chunks : File[k] \in Seq(Texts)
    /\ Window \in Nat /\ MaxNow \in Nat /\ MaxEnds \in Nat
    /\ Requests \subseteq Actors /\ Tasks \subseteq Actors
    /\ \A t \in Tasks : t[1] \in Runs /\ t[2] \in Chunks /\ t = <<t[1], t[2]>>
<1>1. File \in Seq(Seq(Texts) \ {<<>>})
  BY IntakeAssumption
<1>2. Len(File) \in Nat /\ \A k \in 1 .. Len(File) : File[k] \in Seq(Texts) \ {<<>>}
  BY <1>1
<1>3. \A k \in 1 .. Len(File) : File[k] \in Seq(Texts)
  BY <1>2
<1>4. File \in Seq(Seq(Texts))
  <2>1. File = [k \in 1 .. Len(File) |-> File[k]]
    BY <1>1
  <2> QED
    BY <1>2, <1>3, <2>1
<1> QED
  BY <1>2, <1>3, <1>4, IntakeAssumption DEF Actors, Tasks, Chunks

\* record_and_decide stores a new row; it mints only when no review it read
\* is in the window, and links only to a ticket of the same text.
LEMMA Decides ==
    ASSUME now \in Nat, NEW id \in Ids, NEW text \in Texts,
           NEW table \in SUBSET Review, NEW row \in Decided(id, text, table)
    PROVE  /\ row \in Review /\ row.id = id /\ row.text = text /\ row.at = now
           /\ \/ row.kind = "skipped" /\ row.ticket = None
              \/ /\ row.kind = "created" /\ row.ticket = id
                 /\ \A r \in table : r.text = text /\ r.ticket # None => r.at + Window < now
              \/ /\ row.kind = "dedup"
                 /\ \E r \in table : /\ r.text = text /\ r.ticket # None
                                     /\ row.ticket = r.ticket
<1> DEFINE recent == Recent(text, table)
<1>1. CASE row = ReviewOf(id, text, "skipped", None)
  BY <1>1 DEF ReviewOf, Review
<1>2. CASE recent = {} /\ row = ReviewOf(id, text, "created", id)
  <2>1. \A r \in table : r.text = text /\ r.ticket # None => r.at + Window < now
    BY <1>2, Constants DEF Recent, Review
  <2>2. QED
    BY <1>2, <2>1 DEF ReviewOf, Review
<1>3. CASE \E r \in recent : row = ReviewOf(id, text, "dedup", r.ticket)
  <2>1. PICK r \in recent : row = ReviewOf(id, text, "dedup", r.ticket)
    BY <1>3
  <2>2. r \in table /\ r \in Review /\ r.text = text /\ r.ticket # None
    BY <2>1 DEF Recent
  <2>3. QED
    BY <2>1, <2>2 DEF ReviewOf, Review
<1>4. QED
  BY <1>1, <1>2, <1>3 DEF Decided

LEMMA MintedFits ==
    ASSUME NEW rows \in SUBSET Review
    PROVE  /\ Minted(rows) \subseteq Ticket
           /\ \A t \in Minted(rows) : \E r \in rows :
                  r.kind = "created" /\ t.id = r.id /\ t.review = r.id /\ t.text = r.text
           /\ \A r \in rows : r.kind = "created" =>
                  \E t \in Minted(rows) : t.id = r.id /\ t.review = r.id /\ t.text = r.text
<1> DEFINE TicketOf(r) == [id |-> r.id, review |-> r.id, text |-> r.text]
<1>1. \A r \in rows : TicketOf(r) \in Ticket
  BY DEF Review, Ticket
<1>2. \A t : t \in Minted(rows) <=> \E r \in rows : r.kind = "created" /\ t = TicketOf(r)
  BY DEF Minted
<1>3. \A r : /\ TicketOf(r).id = r.id /\ TicketOf(r).review = r.id
              /\ TicketOf(r).text = r.text
  OBVIOUS
<1> HIDE DEF TicketOf
<1>4. QED
  BY <1>1, <1>2, <1>3

LEMMA RequestIds ==
    /\ \A q \in Requests : /\ RequestId(q) \in Ids /\ RequestId(q) # None
                           /\ RequestId(q)[1] = q /\ RequestId(q)[2] = 0
    /\ \A p, q \in Requests : RequestId(p) = RequestId(q) => p = q
BY Constants DEF RequestId, Ids
-----------------------------------------------------------------------------
LEMMA InitHolds == Init => IInv
<1> SUFFICES ASSUME Init PROVE IInv
  OBVIOUS
<1>1. NoChunk \in Chunk /\ NoChunk.rows = {}
  BY Constants DEF NoChunk, Chunk
<1>2. TypeOK
  <2>1. run \in Runs /\ going \subseteq Runs /\ from \in [Runs -> 0 .. Len(File)]
    BY Constants DEF Init, Runs
  <2> QED
    BY <1>1, <2>1, Constants DEF Init, TypeOK
<1>3. Rows = {} /\ Asked = {}
  BY <1>1 DEF Init, Rows, Asked
<1>4. Pool = {} /\ Pending = {} /\ tickets = {} /\ knew = {} /\ reviews = {}
  BY <1>3 DEF Init, Pool, Pending
<1>5. Tables
  BY <1>4 DEF Tables, Unique, Fits, Apart, KnownStored, MintIsOwn, LinksAgree, PromotedOnce
<1>6. RunOnce /\ ReadStands
  BY <1>4 DEF RunOnce, ReadStands, Init
<1>7. OwnIds
  BY <1>1, <1>4 DEF OwnIds, Init
<1> QED
  BY <1>2, <1>5, <1>6, <1>7 DEF IInv

\* What the tables need of a row decided on, and of what is known by then.
Sound(row, table) ==
    /\ row.at = now
    /\ \/ row.kind \in {"copy", "skipped"} /\ row.ticket = None /\ knew' = knew
       \/ /\ row.kind = "created" /\ row.ticket = row.id /\ Knows(row.id)
          /\ \A r \in table : r.text = row.text /\ r.ticket # None => r.at + Window < now
       \/ /\ row.kind = "dedup" /\ knew' = knew
          /\ \E r \in table : r.text = row.text /\ r.ticket # None /\ row.ticket = r.ticket

LEMMA DecidedSound ==
    ASSUME now \in Nat, NEW id \in Ids, NEW text \in Texts,
           NEW table \in SUBSET Review, NEW row \in Decided(id, text, table),
           KnowsIfCreated(row)
    PROVE  /\ row \in Review /\ row.id = id /\ row.text = text
           /\ row.kind # "copy" /\ Sound(row, table)
<1>1. row.kind # "created" => knew' = knew
  BY DEF KnowsIfCreated
<1>2. row.kind = "created" => Knows(row.id)
  BY DEF KnowsIfCreated
<1> QED
  BY <1>1, <1>2, Decides DEF Sound

\* One turn of the row loop, spread out: the chunk it leaves, x, has one more
\* row, a copy of a text met before, or one decided on or failed of a new text.
Turn(t, text, id, x) ==
    /\ text \in Texts /\ id \in Ids /\ x \in Chunk
    /\ id = <<t, chunk[t].row + 1>>
    /\ chunk' = [chunk EXCEPT ![t] = x]
    /\ x.pc = "rows" /\ x.row = chunk[t].row + 1
    /\ seen' = [seen EXCEPT ![t[1]] = @ \cup {text}]
    /\ UNCHANGED <<now, reviews, tickets, analyzing, promoting, served,
                   run, going, from, ckpt, failed, undone>>
    /\ \/ \E row \in Review :
              /\ row.id = id /\ row.text = text
              /\ x.rows = chunk[t].rows \cup {row} /\ x.bad = chunk[t].bad
              /\ Sound(row, reviews \cup chunk[t].rows)
              /\ row.kind = "copy" <=> text \in seen[t[1]]
       \/ /\ x.rows = chunk[t].rows /\ x.bad = chunk[t].bad \cup {text}
          /\ knew' = knew /\ text \notin seen[t[1]]

LEMMA RowTurns ==
    ASSUME TypeOK, NEW t \in Tasks, BatchRow(t)
    PROVE  \E text \in Texts, id \in Ids, x \in Chunk : Turn(t, text, id, x)
<1> DEFINE k == chunk[t].row + 1
           text == File[t[2]][k]
           id == <<t, k>>
           c == [chunk[t] EXCEPT !.pc = "rows", !.row = @ + 1]
           stored(row) == [c EXCEPT !.rows = @ \cup {row}]
           skipped == [c EXCEPT !.bad = @ \cup {text}]
<1>1. chunk[t] \in Chunk /\ t[1] \in Runs /\ t[2] \in Chunks /\ now \in Nat
  BY Constants DEF TypeOK
<1>2. k \in 1 .. Len(File[t[2]]) /\ k \in Nat
  <2>1. chunk[t].row \in Nat /\ Len(File[t[2]]) \in Nat /\ chunk[t].row < Len(File[t[2]])
    BY <1>1, Constants DEF BatchRow, Chunk
  <2> QED
    BY <2>1
<1>3. text \in Texts /\ id \in Ids
  BY <1>1, <1>2, Constants DEF Ids
<1>4. /\ c \in Chunk /\ c.pc = "rows" /\ c.row = k
      /\ c.rows = chunk[t].rows /\ c.bad = chunk[t].bad
  BY <1>1, <1>2 DEF Chunk
<1>5. /\ RowCopied(t, c, id, text) \/ RowDecided(t, c, id, text) \/ RowFails(t, c, text)
      /\ seen' = [seen EXCEPT ![t[1]] = @ \cup {text}]
      /\ UNCHANGED <<now, reviews, tickets, analyzing, promoting, served,
                     run, going, from, ckpt, failed, undone>>
  BY <1>4 DEF BatchRow
<1>6. ASSUME NEW row \in Review
      PROVE  /\ stored(row) \in Chunk /\ stored(row).pc = "rows" /\ stored(row).row = k
             /\ stored(row).bad = chunk[t].bad /\ stored(row).rows = chunk[t].rows \cup {row}
  <2> HIDE DEF c
  <2> QED
    BY <1>4 DEF Chunk
<1>7. /\ skipped \in Chunk /\ skipped.pc = "rows" /\ skipped.row = k
      /\ skipped.rows = chunk[t].rows /\ skipped.bad = chunk[t].bad \cup {text}
  <2> HIDE DEF c, text
  <2> QED
    BY <1>3, <1>4 DEF Chunk
<1> HIDE DEF text, id, c, stored, skipped
<1>8. CASE RowCopied(t, c, id, text)
  <2> DEFINE row == ReviewOf(id, text, "copy", None)
  <2>1. /\ row \in Review /\ row.id = id /\ row.text = text /\ row.at = now
        /\ row.kind = "copy" /\ row.ticket = None
    BY <1>1, <1>3 DEF ReviewOf, Review
  <2>2. chunk' = [chunk EXCEPT ![t] = stored(row)] /\ knew' = knew
        /\ text \in seen[t[1]]
    BY <1>8 DEF RowCopied, Step, stored
  <2> HIDE DEF row
  <2>3. Sound(row, reviews \cup chunk[t].rows)
    BY <2>1, <2>2 DEF Sound
  <2>4. Turn(t, text, id, stored(row))
    BY <1>3, <1>5, <1>6, <2>1, <2>2, <2>3 DEF Turn, id
  <2> QED
    BY <1>3, <1>6, <2>1, <2>4
<1>9. CASE RowDecided(t, c, id, text)
  <2>1. PICK row \in Decided(id, text, reviews \cup c.rows) :
            chunk' = [chunk EXCEPT ![t] = stored(row)] /\ KnowsIfCreated(row)
    BY <1>9 DEF RowDecided, Step, stored
  <2>2. reviews \cup c.rows \in SUBSET Review
    BY <1>4 DEF TypeOK, Chunk
  <2>3. /\ row \in Review /\ row.id = id /\ row.text = text /\ row.kind # "copy"
        /\ Sound(row, reviews \cup c.rows)
    BY <1>1, <1>3, <2>1, <2>2, DecidedSound
  <2>4. text \notin seen[t[1]]
    BY <1>9 DEF RowDecided
  <2>5. Turn(t, text, id, stored(row))
    BY <1>3, <1>4, <1>5, <1>6, <2>1, <2>3, <2>4 DEF Turn, id
  <2> QED
    BY <1>3, <1>6, <2>3, <2>5
<1>10. CASE RowFails(t, c, text)
  <2>1. chunk' = [chunk EXCEPT ![t] = skipped] /\ knew' = knew /\ text \notin seen[t[1]]
    BY <1>10 DEF RowFails, Step, skipped
  <2>2. Turn(t, text, id, skipped)
    BY <1>3, <1>5, <1>7, <2>1 DEF Turn, id
  <2> QED
    BY <1>3, <1>7, <2>2
<1> QED
  BY <1>5, <1>8, <1>9, <1>10

\* The batch's other steps leave a chunk or another of these.
LEMMA ChunkMoves ==
    ASSUME NEW c \in Chunk, ckpt \in 0 .. Len(File),
           NEW d, \/ d = [c EXCEPT !.pc = "committed", !.rows = {}, !.bad = {}]
                  \/ d = [c EXCEPT !.pc = "progress", !.saw = ckpt]
                  \/ d = [c EXCEPT !.pc = "done", !.saw = 0]
                  \/ d = RolledBack(c)
    PROVE  d \in Chunk /\ d.row = c.row
<1>1. 0 \in 0 .. Len(File)
  BY Constants
<1>2. CASE d = [c EXCEPT !.pc = "committed", !.rows = {}, !.bad = {}]
  BY <1>1, <1>2 DEF Chunk
<1>3. CASE d = [c EXCEPT !.pc = "progress", !.saw = ckpt]
  BY <1>1, <1>3 DEF Chunk
<1>4. CASE d = [c EXCEPT !.pc = "done", !.saw = 0]
  BY <1>1, <1>4 DEF Chunk
<1>5. CASE d = RolledBack(c)
  BY <1>1, <1>5 DEF Chunk, RolledBack
<1> QED
  BY <1>2, <1>3, <1>4, <1>5

LEMMA OriginalsText == \A c \in Chunk : Originals(c) \subseteq Texts
BY DEF Originals, Chunk, Review

LEMMA TypeStep == TypeOK /\ [Next]_vars => TypeOK'
<1> SUFFICES ASSUME TypeOK, [Next]_vars PROVE TypeOK'
  OBVIOUS
<1> USE Constants
<1>1. CASE Tick
  BY <1>1 DEF Tick, batch, TypeOK
<1>2. ASSUME NEW q \in Requests, AnalyzeDecide(q) PROVE TypeOK'
  <2>0. PICK text \in Texts : \E row \in Decided(RequestId(q), text, reviews) :
            analyzing' = [analyzing EXCEPT ![q] = row] /\ KnowsIfCreated(row)
    BY <1>2 DEF AnalyzeDecide
  <2>1. PICK row \in Decided(RequestId(q), text, reviews) :
            analyzing' = [analyzing EXCEPT ![q] = row] /\ KnowsIfCreated(row)
    BY <2>0
  <2>2. row \in Review /\ row.id \in Ids
    BY <2>1, DecidedSound, RequestIds DEF TypeOK
  <2>3. knew' \subseteq Ids \X Ids
    BY <2>1, <2>2 DEF KnowsIfCreated, Knows, TypeOK, Ticket
  <2> QED
    BY <1>2, <2>1, <2>2, <2>3 DEF AnalyzeDecide, batch, TypeOK
<1>3. ASSUME NEW q \in Requests, AnalyzeCommit(q) PROVE TypeOK'
  <2>1. analyzing[q] \in Review
    BY <1>3 DEF AnalyzeCommit, TypeOK
  <2>2. Minted({analyzing[q]}) \subseteq Ticket
    BY <2>1, MintedFits
  <2> QED
    BY <1>3, <2>1, <2>2 DEF AnalyzeCommit, batch, TypeOK
<1>4. ASSUME NEW q \in Requests, PromoteRead(q) PROVE TypeOK'
  <2>1. knew' \subseteq Ids \X Ids
    BY <1>4, RequestIds DEF PromoteRead, Knows, TypeOK, Ticket
  <2> QED
    BY <1>4, <2>1 DEF PromoteRead, batch, TypeOK
<1>5. ASSUME NEW q \in Requests, PromoteCommit(q) PROVE TypeOK'
  <2>1. promoting[q] \in Review
    BY <1>5 DEF PromoteCommit, TypeOK
  <2>2. tickets' \subseteq Ticket
    BY <1>5, <2>1, RequestIds DEF PromoteCommit, Ticket, Review, TypeOK
  <2>3. reviews' \subseteq Review
    <3>1. ASSUME NEW s \in reviews
          PROVE  [s EXCEPT !.ticket = RequestId(q)] \in Review
      BY RequestIds DEF Review, TypeOK
    <3> QED
      BY <1>5, <3>1 DEF PromoteCommit, TypeOK
  <2> QED
    BY <1>5, <2>2, <2>3 DEF PromoteCommit, batch, TypeOK
<1>6. ASSUME NEW q \in Requests, RequestFails(q) PROVE TypeOK'
  BY <1>6 DEF RequestFails, batch, TypeOK
<1>7. ASSUME NEW t \in Tasks, BatchRow(t) PROVE TypeOK'
  <2>1. PICK text \in Texts, id \in Ids, x \in Chunk : Turn(t, text, id, x)
    BY <1>7, RowTurns
  <2>2. knew' \subseteq Ids \X Ids
    <3>1. CASE knew' = knew
      BY <3>1 DEF TypeOK
    <3>2. CASE Knows(id)
      <4>1. \A u \in tickets : u.id \in Ids
        BY DEF TypeOK, Ticket
      <4> QED
        BY <3>2, <4>1 DEF Knows, TypeOK
    <3> QED
      BY <2>1, <3>1, <3>2 DEF Turn, Sound
  <2>3. seen' \in [Runs -> SUBSET Texts] /\ chunk' \in [Tasks -> Chunk]
    BY <2>1 DEF Turn, TypeOK
  <2> QED
    BY <2>1, <2>2, <2>3 DEF Turn, TypeOK
<1>8. ASSUME NEW t \in Tasks, BatchCommit(t) PROVE TypeOK'
  <2>1. chunk[t] \in Chunk /\ chunk[t].rows \in SUBSET Review /\ chunk[t].bad \subseteq Texts
    BY DEF Chunk, TypeOK
  <2>2. Minted(chunk[t].rows) \subseteq Ticket
    BY <2>1, MintedFits
  <2>3. chunk' \in [Tasks -> Chunk]
    BY <1>8, <2>1, ChunkMoves DEF BatchCommit, Step, TypeOK
  <2> QED
    BY <1>8, <2>1, <2>2, <2>3 DEF BatchCommit, TypeOK
<1>9. ASSUME NEW t \in Tasks, ProgressRead(t) PROVE TypeOK'
  <2>1. chunk' \in [Tasks -> Chunk]
    BY <1>9, ChunkMoves DEF ProgressRead, Step, TypeOK
  <2> QED
    BY <1>9, <2>1 DEF ProgressRead, TypeOK
<1>10. ASSUME NEW t \in Tasks, ProgressWrite(t) PROVE TypeOK'
  <2>1. chunk' \in [Tasks -> Chunk]
    BY <1>10, ChunkMoves DEF ProgressWrite, Step, TypeOK
  <2>2. ckpt' \in 0 .. Len(File)
    BY <1>10 DEF ProgressWrite, TypeOK, Chunks
  <2> QED
    BY <1>10, <2>1, <2>2 DEF ProgressWrite, TypeOK
<1>11. ASSUME NEW t \in Tasks, ChunkFails(t) PROVE TypeOK'
  <2>1. chunk' \in [Tasks -> Chunk]
    BY <1>11, ChunkMoves DEF ChunkFails, Step, TypeOK
  <2>2. undone' \subseteq Runs \X Texts
    BY <1>11, OriginalsText DEF ChunkFails, TypeOK
  <2> QED
    BY <1>11, <2>1, <2>2 DEF ChunkFails, TypeOK
<1>12. CASE RunEnds
  <2>1. PICK live \in Survivors :
            LET dying == {t \in Tasks : t[1] \notin live /\ Open(t)}
            IN  /\ chunk' = [t \in Tasks |-> IF t \in dying THEN RolledBack(chunk[t]) ELSE chunk[t]]
                /\ undone' = undone \cup
                       UNION {{<<t[1], text>> : text \in Originals(chunk[t])} : t \in dying}
                /\ going' = live \cup {run + 1}
    BY <1>12 DEF RunEnds, NextRun
  <2>2. chunk' \in [Tasks -> Chunk]
    BY <2>1, ChunkMoves DEF TypeOK
  <2>3. undone' \subseteq Runs \X Texts
    BY <2>1, OriginalsText DEF TypeOK
  <2>4. run + 1 \in Runs
    BY <1>12 DEF RunEnds, NextRun, TypeOK, Runs
  <2>5. going' \subseteq Runs
    BY <2>1, <2>4 DEF Survivors, TypeOK
  <2> QED
    BY <1>12, <2>2, <2>3, <2>4, <2>5 DEF RunEnds, NextRun, TypeOK
<1>13. CASE UNCHANGED vars
  BY <1>13 DEF vars, batch, TypeOK
<1> QED
  BY <1>1, <1>2, <1>3, <1>4, <1>5, <1>6, <1>7, <1>8, <1>9, <1>10, <1>11, <1>12, <1>13
     DEF Next
-----------------------------------------------------------------------------
(* What a step of each kind makes of the tables.                           *)

LEMMA PoolType ==
    ASSUME TypeOK
    PROVE  /\ Pool \subseteq Review /\ Pool = reviews \cup Pending
           /\ \A t \in Tasks : chunk[t].rows \subseteq Pending
           /\ \A q \in Requests : analyzing[q] # None => analyzing[q] \in Pending
           /\ \A r \in Review : r.id \in Ids /\ r.id # None /\ r.at \in Nat
           /\ \A t \in tickets : t.id \in Ids /\ t.review \in Ids
<1>1. Rows \subseteq Review
  BY DEF TypeOK, Rows, Chunk
<1>2. Asked \subseteq Review
  BY DEF TypeOK, Asked
<1>3. \A t \in Tasks : chunk[t].rows \subseteq Rows
  BY DEF Rows
<1>4. \A q \in Requests : analyzing[q] # None => analyzing[q] \in Asked
  BY DEF Asked
<1>5. \A t \in tickets : t.id \in Ids /\ t.review \in Ids
  BY DEF TypeOK, Ticket
<1>6. \A r \in Review : r.id \in Ids /\ r.id # None /\ r.at \in Nat
  BY Constants DEF Review
<1> QED
  BY <1>1, <1>2, <1>3, <1>4, <1>5, <1>6 DEF TypeOK, Pool, Pending

\* A decision adds a pending row with an id of its own.
LEMMA AddRow ==
    ASSUME TypeOK, Tables, NEW row \in Review, Sound(row, reviews),
           Pending' = Pending \cup {row}, UNCHANGED <<now, reviews, tickets>>,
           \A r \in Pool : r.id # row.id, \A t \in tickets : t.id # row.id
    PROVE  Tables'
<1> USE PoolType DEF Tables
<1>1. Pool' = Pool \cup {row} /\ row \notin reviews
  BY DEF Pool
<1>2. knew \subseteq knew' /\ \A p \in knew' \ knew : \E t \in tickets : p[1] = row.id /\ p[2] = t.id
  BY DEF Sound, Knows
<1>3. Unique'
  BY <1>1 DEF Unique
<1>4. Fits'
  <2>1. row.at <= now /\ (row.kind = "created" => row.ticket = row.id)
    BY DEF Sound, TypeOK
  <2>2. row.kind = "dedup" => /\ row.ticket # None
                              /\ \E t \in tickets : t.id = row.ticket /\ t.text = row.text
    BY DEF Sound, LinksAgree
  <2>3. row.kind \in {"copy", "skipped"} => row.ticket = None
    BY DEF Sound
  <2> QED
    BY <1>1, <2>1, <2>2, <2>3 DEF Fits
<1>5. Apart'
  <2> SUFFICES ASSUME NEW r \in Pool', NEW s \in reviews, r.kind = "created",
                      s.kind = "created", r.text = s.text, <<r.id, s.id>> \in knew'
               PROVE  s.at + Window < r.at
    BY DEF Apart
  <2>1. CASE r = row
    <3>1. s.ticket = s.id /\ s.id # None
      BY DEF Fits, Pool, TypeOK
    <3> QED
      BY <2>1, <3>1 DEF Sound
  <2>2. CASE r # row
    <3>1. r \in Pool /\ r.id # row.id
      BY <1>1, <2>2
    <3>2. <<r.id, s.id>> \in knew
      BY <1>2, <3>1
    <3> QED
      BY <3>1, <3>2 DEF Apart
  <2> QED
    BY <2>1, <2>2
<1>6. KnownStored'
  BY <1>2 DEF KnownStored
<1>7. MintIsOwn' /\ LinksAgree'
  BY DEF MintIsOwn, LinksAgree
<1>8. PromotedOnce'
  <2>1. \A t, u \in tickets : <<t.id, u.id>> \in knew' => <<t.id, u.id>> \in knew
    BY <1>2
  <2> QED
    BY <2>1 DEF PromotedOnce
<1> QED
  BY <1>3, <1>4, <1>5, <1>6, <1>7, <1>8

\* A commit stores some of the pending rows, with the tickets they mint.
LEMMA CommitRows ==
    ASSUME TypeOK, Tables, NEW rows \in SUBSET Pending,
           reviews' = reviews \cup rows, tickets' = tickets \cup Minted(rows),
           Pending' = Pending \ rows, UNCHANGED <<now, knew>>
    PROVE  Tables'
<1> USE PoolType DEF Tables
<1>1. Pool' = Pool /\ rows \in SUBSET Review /\ rows \subseteq Pool
  BY DEF Pool
<1>2. /\ \A t \in Minted(rows) : \E r \in rows :
             r.kind = "created" /\ t.id = r.id /\ t.review = r.id /\ t.text = r.text
      /\ \A r \in rows : r.kind = "created" =>
             \E t \in Minted(rows) : t.id = r.id /\ t.review = r.id /\ t.text = r.text
  BY <1>1, MintedFits
<1>3. \A r \in rows : /\ \A s \in reviews : r.id # s.id
                      /\ \A t \in tickets : r.id # t.id /\ r.id # t.review
                      /\ \A p \in knew : p[2] # r.id
  <2>1. \A r \in rows : /\ \A s \in reviews : r.id # s.id
                        /\ \A t \in tickets : r.id # t.id
    BY <1>1 DEF Unique
  <2> QED
    BY <2>1 DEF LinksAgree, KnownStored
<1>4. Unique'
  <2>1. \A r \in Pending \ rows : \A s \in rows : r.id # s.id
    BY <1>1 DEF Unique
  <2> QED
    BY <1>1, <1>2, <2>1 DEF Unique
<1>5. Fits'
  BY <1>1 DEF Fits
<1>6. Apart'
  BY <1>1, <1>3 DEF Apart
<1>7. KnownStored'
  BY DEF KnownStored
<1>8. MintIsOwn'
  <2>1. \A r, s \in Pool : r.id = s.id => r = s
    BY DEF Unique
  <2>2. \A t \in tickets : t.id = t.review => \A s \in rows : s.id # t.review
    BY <1>3
  <2>3. \A t \in Minted(rows) : \A s \in reviews \cup rows :
            s.id = t.review => s.kind = "created"
    BY <1>1, <1>2, <2>1
  <2> QED
    BY <2>2, <2>3 DEF MintIsOwn
<1>9. LinksAgree'
  <2>1. ASSUME NEW t \in tickets'
        PROVE  \E r \in reviews' : /\ r.id = t.review /\ r.text = t.text
                                   /\ r.ticket # None /\ r.kind # "dedup"
    <3>1. CASE t \in tickets
      BY <3>1 DEF LinksAgree
    <3>2. CASE t \in Minted(rows)
      <4>1. PICK r \in rows :
                r.kind = "created" /\ t.review = r.id /\ t.text = r.text
        BY <1>2, <3>2
      <4>2. r.ticket # None
        BY <1>1, <4>1 DEF Fits
      <4> QED
        BY <4>1, <4>2
    <3> QED
      BY <3>1, <3>2
  <2>2. ASSUME NEW r \in reviews', r.ticket # None
        PROVE  \E t \in tickets' : /\ t.id = r.ticket /\ t.text = r.text
                                   /\ r.kind # "dedup" => t.review = r.id
    <3>1. CASE r \in reviews
      BY <2>2, <3>1 DEF LinksAgree
    <3>2. CASE r \in rows /\ r.kind = "created"
      BY <1>1, <1>2, <3>2 DEF Fits
    <3>3. CASE r \in rows /\ r.kind = "dedup"
      BY <1>1, <3>3 DEF Fits
    <3>4. CASE r \in rows /\ r.kind \in {"copy", "skipped"}
      BY <2>2, <3>4 DEF Fits
    <3> QED
      BY <1>1, <3>1, <3>2, <3>3, <3>4 DEF Review
  <2> QED
    BY <2>1, <2>2 DEF LinksAgree
<1>10. PromotedOnce'
  <2>1. \A t \in Minted(rows) : t.id = t.review /\ \A u \in tickets : u.review # t.review
    BY <1>2, <1>3
  <2> QED
    BY <2>1 DEF PromotedOnce
<1> QED
  BY <1>4, <1>5, <1>6, <1>7, <1>8, <1>9, <1>10

\* A rollback, and any step that leaves the rows alone.
LEMMA DropRows ==
    ASSUME TypeOK, Tables, Pending' \subseteq Pending, now \in Nat, now' \in Nat,
           now <= now', UNCHANGED <<reviews, tickets, knew>>
    PROVE  Tables'
<1>1. Pool' \subseteq Pool
  BY DEF Pool
<1>2. Fits'
  BY <1>1, PoolType DEF Tables, Fits
<1>3. Unique' /\ Apart'
  BY <1>1 DEF Tables, Unique, Apart
<1>4. KnownStored' /\ MintIsOwn' /\ LinksAgree' /\ PromotedOnce'
  BY DEF Tables, KnownStored, MintIsOwn, LinksAgree, PromotedOnce
<1> QED
  BY <1>2, <1>3, <1>4 DEF Tables

\* A request that is not over has no row or ticket of its own yet.
LEMMA FreshRequest ==
    ASSUME TypeOK, OwnIds, NEW q \in Requests, q \notin served, analyzing[q] = None
    PROVE  /\ \A r \in Pool : r.id # RequestId(q)
           /\ \A t \in tickets : t.id # RequestId(q)
<1>1. RequestId(q)[1] = q /\ q \notin Tasks
  BY RequestIds, Constants
<1>2. \A r \in reviews : r.id # RequestId(q)
  BY <1>1 DEF OwnIds, Drawn
<1>3. \A t \in tickets : t.id # RequestId(q)
  BY <1>1 DEF OwnIds, Drawn
<1>4. \A r \in Rows : r.id # RequestId(q)
  BY <1>1 DEF OwnIds, Rows
<1>5. \A r \in Asked : r.id # RequestId(q)
  BY RequestIds DEF OwnIds, Asked
<1> QED
  BY <1>2, <1>3, <1>4, <1>5 DEF Pool, Pending

\* Nor has a row a chunk has yet to come to.
LEMMA FreshRow ==
    ASSUME TypeOK, OwnIds, NEW t \in Tasks, NEW id \in Ids, id = <<t, chunk[t].row + 1>>
    PROVE  /\ \A r \in Pool : r.id # id
           /\ \A u \in tickets : u.id # id
<1>1. id[1] = t /\ ~ id[2] <= chunk[t].row /\ t \notin Requests
  <2>1. chunk[t].row \in Nat
    BY DEF TypeOK, Chunk
  <2> QED
    BY <2>1, Constants
<1>2. \A r \in reviews : r.id # id
  BY <1>1 DEF OwnIds, Drawn, TypeOK
<1>3. \A u \in tickets : u.id # id
  BY <1>1 DEF OwnIds, Drawn, TypeOK
<1>4. \A r \in Rows : r.id # id
  BY <1>1 DEF OwnIds, Rows
<1>5. \A r \in Asked : r.id # id
  BY <1>1, RequestIds DEF OwnIds, Asked
<1> QED
  BY <1>2, <1>3, <1>4, <1>5 DEF Pool, Pending

\* The rows pending when one chunk, or one request, has moved.
LEMMA ChunkPending ==
    ASSUME TypeOK, OwnIds, NEW t \in Tasks, NEW x, chunk' = [chunk EXCEPT ![t] = x],
           UNCHANGED analyzing
    PROVE  /\ \A row : x.rows = chunk[t].rows \cup {row} => Pending' = Pending \cup {row}
           /\ x.rows = {} => Pending' = Pending \ chunk[t].rows
           /\ x.rows = chunk[t].rows => Pending' = Pending
<1>1. Asked' = Asked
  BY DEF Asked
<1>2. chunk'[t] = x /\ \A u \in Tasks : u # t => chunk'[u] = chunk[u]
  BY DEF TypeOK
<1>3. \A r : r \in Rows <=> \E u \in Tasks : r \in chunk[u].rows
  BY DEF Rows
<1>4. \A r : r \in Rows' <=> r \in x.rows \/ \E u \in Tasks \ {t} : r \in chunk[u].rows
  <2>1. \A r : r \in Rows' <=> \E u \in Tasks : r \in chunk'[u].rows
    BY DEF Rows
  <2> QED
    BY <1>2, <2>1
<1>5. \A r \in chunk[t].rows : r \notin Asked /\ \A u \in Tasks \ {t} : r \notin chunk[u].rows
  <2>1. \A r \in chunk[t].rows : r.id[1] = t
    BY DEF OwnIds
  <2>2. \A r \in Asked : r.id[1] \notin Tasks
    BY RequestIds, Constants DEF OwnIds, Asked
  <2> QED
    BY <2>1, <2>2 DEF OwnIds
<1> QED
  BY <1>1, <1>3, <1>4, <1>5 DEF Pending

LEMMA AskedPending ==
    ASSUME TypeOK, OwnIds, NEW q \in Requests, NEW row,
           analyzing' = [analyzing EXCEPT ![q] = row], UNCHANGED chunk
    PROVE  /\ analyzing[q] = None /\ row # None => Pending' = Pending \cup {row}
           /\ row = None => Pending' = Pending \ {analyzing[q]}
<1>1. Rows' = Rows
  BY DEF Rows
<1>2. analyzing'[q] = row /\ \A p \in Requests : p # q => analyzing'[p] = analyzing[p]
  BY DEF TypeOK
<1>3. \A r : r \in Asked <=> r # None /\ \E p \in Requests : r = analyzing[p]
  BY DEF Asked
<1>4. \A r : r \in Asked' <=> r # None /\ (r = row \/ \E p \in Requests \ {q} : r = analyzing[p])
  <2>1. \A r : r \in Asked' <=> r # None /\ \E p \in Requests : r = analyzing'[p]
    BY DEF Asked
  <2> QED
    BY <1>2, <2>1
<1>5. \A p \in Requests \ {q} : analyzing[q] # None => analyzing[p] # analyzing[q]
  BY RequestIds DEF OwnIds
<1>6. analyzing[q] # None => analyzing[q] \notin Rows
  <2>1. \A r \in Rows : r.id[1] \in Tasks
    BY DEF OwnIds, Rows
  <2>2. analyzing[q] # None => analyzing[q].id[1] \notin Tasks
    BY RequestIds, Constants DEF OwnIds
  <2> QED
    BY <2>1, <2>2
<1>7. None \notin Rows
  BY Constants DEF TypeOK, Rows, Chunk
<1> QED
  BY <1>1, <1>3, <1>4, <1>5, <1>6, <1>7 DEF Pending

\* What the runs have met stays met, whatever joins, leaves or moves.
LEMMA RunOnceStays ==
    ASSUME RunOnce, \A n \in Runs : seen[n] \subseteq seen'[n],
           \A r \in Pool' :
               \/ r.id[1] \in Requests
               \/ \E s \in Pool : r.id = s.id /\ r.text = s.text /\ r.kind = s.kind
    PROVE  RunOnce'
<1>1. \A r \in Pool' : r.id[1] \in Tasks =>
          \E s \in Pool : r.id = s.id /\ r.text = s.text /\ r.kind = s.kind
  BY Constants
<1>2. \A r \in Pool' : r.id[1] \in Tasks => r.text \in seen'[r.id[1][1]]
  BY <1>1, Constants DEF RunOnce
<1>3. ASSUME NEW r \in Pool', NEW s \in Pool', SameRun(r.id[1], s.id[1]), r.text = s.text,
             r.kind # "copy", s.kind # "copy"
      PROVE  r.id = s.id
  <2>1. r.id[1] \in Tasks /\ s.id[1] \in Tasks
    BY <1>3 DEF SameRun
  <2>2. PICK a \in Pool : r.id = a.id /\ r.text = a.text /\ r.kind = a.kind
    BY <1>1, <2>1
  <2>3. PICK b \in Pool : s.id = b.id /\ s.text = b.text /\ s.kind = b.kind
    BY <1>1, <2>1
  <2> QED
    BY <1>3, <2>2, <2>3 DEF RunOnce
<1> QED
  BY <1>2, <1>3 DEF RunOnce, SameRun

LEMMA DrawnStays ==
    ASSUME TypeOK, TypeOK', served \subseteq served',
           \A t \in Tasks : chunk[t].row <= chunk'[t].row
    PROVE  \A id \in Ids : Drawn(id) => Drawn(id)'
<1>1. \A t \in Tasks : chunk[t].row \in Nat /\ chunk'[t].row \in Nat
  BY DEF TypeOK, Chunk
<1>2. \A id \in Ids : id[2] \in Nat
  BY DEF Ids
<1> QED
  BY <1>1, <1>2 DEF Drawn

LEMMA ReadStandsStays ==
    ASSUME ReadStands, \A p \in Requests : promoting'[p] \in {None, promoting[p]},
           \A s \in reviews : \E r \in reviews' : r.id = s.id /\ r.text = s.text /\ r.kind = s.kind,
           \A p \in Requests : promoting'[p] # None =>
               /\ \A t \in tickets : <<RequestId(p), t.id>> \in knew' => <<RequestId(p), t.id>> \in knew
               /\ \A t \in tickets' \ tickets :
                      t.review = promoting[p].id => <<RequestId(p), t.id>> \notin knew'
    PROVE  ReadStands'
<1> SUFFICES ASSUME NEW q \in Requests, promoting'[q] # None
             PROVE  /\ promoting'[q].kind \in {"copy", "skipped"} /\ promoting'[q].ticket = None
                    /\ \E s \in reviews' : /\ s.id = promoting'[q].id
                                           /\ s.text = promoting'[q].text
                                           /\ s.kind = promoting'[q].kind
                    /\ \A t \in tickets' :
                           t.review = promoting'[q].id => <<RequestId(q), t.id>> \notin knew'
  BY DEF ReadStands, RequestId
<1>1. promoting'[q] = promoting[q] /\ promoting[q] # None
  OBVIOUS
<1>2. /\ promoting[q].kind \in {"copy", "skipped"} /\ promoting[q].ticket = None
      /\ \E s \in reviews : /\ s.id = promoting[q].id
                            /\ s.text = promoting[q].text
                            /\ s.kind = promoting[q].kind
      /\ \A t \in tickets :
             t.review = promoting[q].id => <<RequestId(q), t.id>> \notin knew
  BY <1>1 DEF ReadStands
<1> QED
  BY <1>1, <1>2
-----------------------------------------------------------------------------
(* The actions.                                                            *)

\* The clock, and what the batch does but for adding and committing rows.
LEMMA QuietKeeps ==
    ASSUME IInv, TypeOK', now <= now',
           UNCHANGED <<reviews, tickets, analyzing, promoting, served, knew>>,
           \A t \in Tasks : /\ chunk'[t].rows \subseteq chunk[t].rows
                            /\ chunk'[t].row = chunk[t].row,
           \A n \in Runs : seen[n] \subseteq seen'[n]
    PROVE  IInv'
<1> USE DEF IInv
<1>1. Pending' \subseteq Pending /\ Pool' \subseteq Pool
  <2>1. \A t \in Tasks : \A r \in chunk'[t].rows : r \in chunk[t].rows
    OBVIOUS
  <2>2. Rows' \subseteq Rows
    BY <2>1 DEF Rows
  <2>3. Asked' = Asked
    BY DEF Asked
  <2> QED
    BY <2>2, <2>3 DEF Pending, Pool
<1>2. Tables'
  BY <1>1, DropRows DEF TypeOK
<1>3. RunOnce'
  BY <1>1, RunOnceStays
<1>4. OwnIds'
  <2>1. \A id : Drawn(id) => Drawn(id)'
    BY DEF Drawn
  <2> QED
    BY <2>1 DEF OwnIds, RequestId
<1>5. ReadStands'
  BY ReadStandsStays
<1> QED
  BY <1>2, <1>3, <1>4, <1>5

LEMMA AnalyzeDecideKeeps ==
    ASSUME IInv, TypeOK', NEW q \in Requests, AnalyzeDecide(q)
    PROVE  IInv'
<1> USE DEF IInv
<1>1. PICK text \in Texts : \E row \in Decided(RequestId(q), text, reviews) :
          analyzing' = [analyzing EXCEPT ![q] = row] /\ KnowsIfCreated(row)
  BY DEF AnalyzeDecide
<1>2. PICK row \in Decided(RequestId(q), text, reviews) :
          analyzing' = [analyzing EXCEPT ![q] = row] /\ KnowsIfCreated(row)
  BY <1>1
<1>3. row \in Review /\ row.id = RequestId(q) /\ Sound(row, reviews) /\ row # None
  <2>1. now \in Nat /\ reviews \in SUBSET Review
    BY DEF TypeOK
  <2>2. row \in Review /\ row.id = RequestId(q) /\ Sound(row, reviews)
    BY <1>2, <2>1, DecidedSound, RequestIds
  <2> QED
    BY <2>2, Constants
<1>4. /\ q \notin served /\ analyzing[q] = None /\ promoting[q] = None
      /\ UNCHANGED <<now, reviews, tickets, promoting, served, chunk, seen>>
  BY DEF AnalyzeDecide, New, batch
<1>5. Pending' = Pending \cup {row} /\ Pool' = Pool \cup {row}
  BY <1>2, <1>3, <1>4, AskedPending DEF Pool
<1>6. /\ \A r \in Pool : r.id # row.id
      /\ \A t \in tickets : t.id # row.id
  BY <1>3, <1>4, FreshRequest
<1>7. Tables'
  BY <1>3, <1>4, <1>5, <1>6, AddRow
<1>8. RunOnce'
  <2>1. row.id[1] \in Requests
    BY <1>3, RequestIds
  <2> QED
    BY <1>4, <1>5, <2>1, RunOnceStays
<1>9. OwnIds'
  <2>1. \A id : Drawn(id) => Drawn(id)'
    BY <1>4 DEF Drawn
  <2>2. \A p \in Requests : analyzing'[p] = IF p = q THEN row ELSE analyzing[p]
    BY <1>2 DEF TypeOK
  <2>3. \A p \in Requests : analyzing'[p] # None =>
            analyzing'[p].id = <<p, 0>> /\ promoting'[p] = None
    BY <1>3, <1>4, <2>2 DEF OwnIds, RequestId
  <2>4. \A p \in served' : analyzing'[p] = None /\ promoting'[p] = None
    BY <1>4, <2>2 DEF OwnIds, TypeOK
  <2> QED
    BY <1>4, <2>1, <2>3, <2>4 DEF OwnIds, RequestId
<1>10. ReadStands'
  <2>1. \A p \in knew' : p \in knew \/ \E t \in tickets : p = <<RequestId(q), t.id>>
    BY <1>3 DEF Sound, Knows
  <2>2. \A p \in Requests : promoting[p] # None => RequestId(p) # RequestId(q)
    BY <1>4, RequestIds
  <2> QED
    BY <1>4, <2>1, <2>2, ReadStandsStays
<1> QED
  BY <1>7, <1>8, <1>9, <1>10

LEMMA RequestFailsKeeps ==
    ASSUME IInv, TypeOK', NEW q \in Requests, RequestFails(q)
    PROVE  IInv'
<1> USE DEF IInv
<1>1. /\ analyzing' = [analyzing EXCEPT ![q] = None]
      /\ promoting' = [promoting EXCEPT ![q] = None] /\ served' = served \cup {q}
      /\ UNCHANGED <<now, reviews, tickets, chunk, seen, knew>>
  BY DEF RequestFails, batch
<1>2. Pending' \subseteq Pending /\ Pool' \subseteq Pool
  BY <1>1, AskedPending DEF Pool
<1>3. Tables'
  BY <1>1, <1>2, DropRows DEF TypeOK
<1>4. RunOnce'
  BY <1>1, <1>2, RunOnceStays
<1>5. OwnIds'
  <2>1. \A id : Drawn(id) => Drawn(id)'
    BY <1>1 DEF Drawn
  <2>2. \A p \in Requests : /\ analyzing'[p] = IF p = q THEN None ELSE analyzing[p]
                            /\ promoting'[p] = IF p = q THEN None ELSE promoting[p]
    BY <1>1 DEF TypeOK
  <2> QED
    BY <1>1, <2>1, <2>2 DEF OwnIds, RequestId, TypeOK
<1>6. ReadStands'
  <2>1. \A p \in Requests : promoting'[p] \in {None, promoting[p]}
    BY <1>1 DEF TypeOK
  <2> QED
    BY <1>1, <2>1, ReadStandsStays
<1> QED
  BY <1>3, <1>4, <1>5, <1>6

LEMMA AnalyzeCommitKeeps ==
    ASSUME IInv, TypeOK', NEW q \in Requests, AnalyzeCommit(q)
    PROVE  IInv'
<1> USE DEF IInv
<1>0. PICK row \in Review \cup {None} : row = analyzing[q]
  BY DEF TypeOK
<1>1. /\ row # None /\ reviews' = reviews \cup {row} /\ tickets' = tickets \cup Minted({row})
      /\ analyzing' = [analyzing EXCEPT ![q] = None] /\ served' = served \cup {q}
      /\ UNCHANGED <<now, promoting, chunk, seen, knew>>
  BY <1>0 DEF AnalyzeCommit, batch
<1>2. row \in Pending /\ row.id = RequestId(q) /\ row \in Review /\ promoting[q] = None
  BY <1>0, <1>1, PoolType DEF OwnIds
<1>3. Pending' = Pending \ {row} /\ Pool' = Pool
  <2>1. Pending' = Pending \ {row}
    BY <1>0, <1>1, AskedPending
  <2> QED
    BY <1>1, <1>2, <2>1 DEF Pool
<1>4. Tables'
  BY <1>1, <1>2, <1>3, CommitRows
<1>5. RunOnce'
  BY <1>1, <1>3, RunOnceStays
<1>6. \A t \in Minted({row}) : t.id = row.id /\ t.review = row.id
  BY <1>2, MintedFits
<1>7. OwnIds'
  <2>1. \A id : Drawn(id) => Drawn(id)'
    BY <1>1 DEF Drawn
  <2>2. Drawn(row.id)'
    BY <1>1, <1>2, RequestIds DEF Drawn
  <2>3. \A p \in Requests : analyzing'[p] = IF p = q THEN None ELSE analyzing[p]
    BY <1>1 DEF TypeOK
  <2>4. \A p \in Requests : analyzing'[p] # None =>
            analyzing'[p].id = <<p, 0>> /\ promoting'[p] = None
    BY <1>1, <2>3 DEF OwnIds, RequestId
  <2>5. \A p \in served' : analyzing'[p] = None /\ promoting'[p] = None
    BY <1>1, <1>2, <2>3 DEF OwnIds, TypeOK
  <2> QED
    BY <1>1, <1>6, <2>1, <2>2, <2>4, <2>5 DEF OwnIds, RequestId
<1>8. ReadStands'
  <2>1. \A p \in Requests : promoting[p] # None => promoting[p].id # row.id
    BY <1>2 DEF ReadStands, Tables, Unique, Pool
  <2> QED
    BY <1>1, <1>6, <2>1, ReadStandsStays
<1> QED
  BY <1>4, <1>5, <1>7, <1>8

LEMMA PromoteReadKeeps ==
    ASSUME IInv, TypeOK', NEW q \in Requests, PromoteRead(q)
    PROVE  IInv'
<1> USE DEF IInv
<1>1. PICK r \in reviews : r.ticket = None /\ promoting' = [promoting EXCEPT ![q] = r]
  BY DEF PromoteRead
<1>2. /\ q \notin served /\ analyzing[q] = None /\ promoting[q] = None
      /\ knew' = knew \cup {<<RequestId(q), t.id>> : t \in tickets}
      /\ UNCHANGED <<now, reviews, tickets, analyzing, served, chunk, seen>>
  BY DEF PromoteRead, New, Knows, batch
<1>3. Pending' = Pending /\ Pool' = Pool
  BY <1>2 DEF Pending, Pool, Rows, Asked
<1>4. /\ \A s \in Pool : s.id # RequestId(q)
      /\ \A t \in tickets : t.id # RequestId(q)
  BY <1>2, FreshRequest
<1>5. \A p \in knew' : p \in knew \/ \E t \in tickets : p = <<RequestId(q), t.id>>
  BY <1>2
<1>6. Tables'
  <2>1. Unique' /\ Fits' /\ MintIsOwn' /\ LinksAgree'
    BY <1>2, <1>3 DEF Tables, Unique, Fits, MintIsOwn, LinksAgree
  <2>2. Apart'
    <3>1. \A s \in Pool, u \in reviews : <<s.id, u.id>> \in knew' => <<s.id, u.id>> \in knew
      BY <1>4, <1>5
    <3> QED
      BY <1>2, <1>3, <3>1 DEF Tables, Apart
  <2>3. KnownStored'
    BY <1>2, <1>5 DEF Tables, KnownStored
  <2>4. PromotedOnce'
    <3>1. \A t, u \in tickets : <<t.id, u.id>> \in knew' => <<t.id, u.id>> \in knew
      BY <1>4, <1>5
    <3> QED
      BY <1>2, <3>1 DEF Tables, PromotedOnce
  <2> QED
    BY <2>1, <2>2, <2>3, <2>4 DEF Tables
<1>7. RunOnce'
  BY <1>2, <1>3, RunOnceStays
<1>8. \A p \in Requests : promoting'[p] = IF p = q THEN r ELSE promoting[p]
  BY <1>1 DEF TypeOK
<1>9. OwnIds'
  <2>1. \A id : Drawn(id) => Drawn(id)'
    BY <1>2 DEF Drawn
  <2>2. \A p \in Requests : analyzing'[p] # None =>
            analyzing'[p].id = <<p, 0>> /\ promoting'[p] = None
    BY <1>2, <1>8 DEF OwnIds, RequestId
  <2>3. \A p \in served' : analyzing'[p] = None /\ promoting'[p] = None
    BY <1>2, <1>8 DEF OwnIds, TypeOK
  <2> QED
    BY <1>2, <2>1, <2>2, <2>3 DEF OwnIds, RequestId
<1>10. ReadStands'
  <2> SUFFICES ASSUME NEW p \in Requests, promoting'[p] # None
               PROVE  /\ promoting'[p].kind \in {"copy", "skipped"} /\ promoting'[p].ticket = None
                      /\ \E s \in reviews' : /\ s.id = promoting'[p].id
                                             /\ s.text = promoting'[p].text
                                             /\ s.kind = promoting'[p].kind
                      /\ \A t \in tickets' :
                             t.review = promoting'[p].id => <<RequestId(p), t.id>> \notin knew'
    BY DEF ReadStands, RequestId
  <2>1. CASE p = q
    <3>1. r \in Pool /\ r \in Review /\ r.kind \in {"copy", "skipped"}
      BY <1>1, PoolType DEF Tables, Fits, Pool, TypeOK, Review
    <3>2. \A t \in tickets : t.review # r.id
      BY <1>1 DEF Tables, LinksAgree, Unique, Pool
    <3> QED
      BY <1>1, <1>2, <1>8, <2>1, <3>1, <3>2
  <2>2. CASE p # q
    <3>1. promoting'[p] = promoting[p] /\ RequestId(p) # RequestId(q)
      BY <1>8, <2>2, RequestIds
    <3>2. \A t \in tickets : <<RequestId(p), t.id>> \in knew' => <<RequestId(p), t.id>> \in knew
      BY <1>5, <3>1
    <3> QED
      BY <1>2, <3>1, <3>2 DEF ReadStands
  <2> QED
    BY <2>1, <2>2
<1> QED
  BY <1>6, <1>7, <1>9, <1>10

\* A promotion changes the ticket of one review, p, and nothing else of any row.
Promotion(q, p, id, t0) ==
    /\ p = promoting[q] /\ id = RequestId(q)
    /\ t0.id = id /\ t0.review = p.id /\ t0.text = p.text
    /\ tickets' = tickets \cup {t0}
    /\ \A s \in reviews' : \E r \in reviews :
           /\ s.id = r.id /\ s.text = r.text /\ s.kind = r.kind /\ s.at = r.at
           /\ IF r.id = p.id THEN s.ticket = id ELSE s = r
    /\ \A r \in reviews : \E s \in reviews' :
           /\ s.id = r.id /\ s.text = r.text /\ s.kind = r.kind /\ s.at = r.at
           /\ IF r.id = p.id THEN s.ticket = id ELSE s = r
    /\ \A r, s \in reviews' : r.id = s.id => r = s
    /\ promoting' = [promoting EXCEPT ![q] = None] /\ served' = served \cup {q}
    /\ UNCHANGED <<now, analyzing, chunk, seen, knew>>

LEMMA PromoteCommits ==
    ASSUME IInv, NEW q \in Requests, PromoteCommit(q)
    PROVE  \E p \in Review, id \in Ids, t0 \in Ticket : Promotion(q, p, id, t0)
<1> DEFINE p == promoting[q]
           id == RequestId(q)
           t0 == [id |-> id, review |-> p.id, text |-> p.text]
           new(r) == IF r.id = p.id THEN [r EXCEPT !.ticket = id] ELSE r
<1>1. p \in Review /\ id \in Ids /\ t0 \in Ticket
  BY RequestIds DEF IInv, TypeOK, PromoteCommit, Review, Ticket
<1>2. /\ tickets' = tickets \cup {t0} /\ reviews' = {new(r) : r \in reviews}
      /\ promoting' = [promoting EXCEPT ![q] = None] /\ served' = served \cup {q}
      /\ UNCHANGED <<now, analyzing, chunk, seen, knew>>
  BY DEF PromoteCommit, batch
<1>3. \A r \in reviews :
          /\ new(r).id = r.id /\ new(r).text = r.text /\ new(r).kind = r.kind
          /\ new(r).at = r.at
          /\ IF r.id = p.id THEN new(r).ticket = id ELSE new(r) = r
  BY DEF IInv, TypeOK, Review
<1>4. \A r, s \in reviews : r.id = s.id => r = s
  BY DEF IInv, Tables, Unique, Pool
<1>5. t0.id = id /\ t0.review = p.id /\ t0.text = p.text
  OBVIOUS
<1> HIDE DEF new, p, id, t0
<1>6. \A r, s \in reviews' : r.id = s.id => r = s
  BY <1>2, <1>3, <1>4
<1>7. \A s \in reviews' : \E r \in reviews : s = new(r)
  BY <1>2
<1>8. \A r \in reviews : \E s \in reviews' : s = new(r)
  BY <1>2
<1>9. \A s \in reviews' : \E r \in reviews :
          /\ s.id = r.id /\ s.text = r.text /\ s.kind = r.kind /\ s.at = r.at
          /\ IF r.id = p.id THEN s.ticket = id ELSE s = r
  BY <1>3, <1>7
<1>10. \A r \in reviews : \E s \in reviews' :
          /\ s.id = r.id /\ s.text = r.text /\ s.kind = r.kind /\ s.at = r.at
          /\ IF r.id = p.id THEN s.ticket = id ELSE s = r
  BY <1>3, <1>8
<1>11. p = promoting[q] /\ id = RequestId(q)
  BY DEF p, id
<1>12. Promotion(q, p, id, t0)
  BY <1>2, <1>5, <1>6, <1>9, <1>10, <1>11 DEF Promotion
<1> QED
  BY <1>1, <1>12

LEMMA PromoteTables ==
    ASSUME IInv, TypeOK', NEW q \in Requests, PromoteCommit(q)
    PROVE  Tables'
<1> USE DEF IInv
<1>0. PICK p \in Review, id \in Ids, t0 \in Ticket : Promotion(q, p, id, t0)
  BY PromoteCommits
<1>1. /\ p = promoting[q] /\ id = RequestId(q)
      /\ t0.id = id /\ t0.review = p.id /\ t0.text = p.text
      /\ tickets' = tickets \cup {t0}
      /\ \A s \in reviews' : \E r \in reviews :
             /\ s.id = r.id /\ s.text = r.text /\ s.kind = r.kind /\ s.at = r.at
             /\ IF r.id = p.id THEN s.ticket = id ELSE s = r
      /\ \A r \in reviews : \E s \in reviews' :
             /\ s.id = r.id /\ s.text = r.text /\ s.kind = r.kind /\ s.at = r.at
             /\ IF r.id = p.id THEN s.ticket = id ELSE s = r
      /\ \A r, s \in reviews' : r.id = s.id => r = s
      /\ UNCHANGED <<now, analyzing, chunk, knew>>
  BY <1>0 DEF Promotion
<1>2. p # None /\ id # None
  BY <1>1, Constants
<1>3. /\ p.kind \in {"copy", "skipped"}
      /\ \E s \in reviews : s.id = p.id /\ s.text = p.text /\ s.kind = p.kind
      /\ \A t \in tickets : t.review = p.id => <<id, t.id>> \notin knew
  BY <1>1, <1>2 DEF ReadStands
<1>4. \A r \in reviews : r.id = p.id => r.kind \in {"copy", "skipped"} /\ r.text = p.text
  BY <1>3 DEF Tables, Unique, Pool
<1>5. /\ \A r \in Pool : r.id # id
      /\ \A t \in tickets : t.id # id
  <2>1. analyzing[q] = None /\ q \notin served
    BY <1>1, <1>2 DEF OwnIds
  <2> QED
    BY <1>1, <2>1, FreshRequest
<1>6. Pending' = Pending /\ reviews \subseteq Pool
  BY <1>1 DEF Pending, Rows, Asked, Pool
<1>7. Unique'
  <2>1. \A r \in Pending : \A s \in reviews : r.id # s.id
    BY DEF Tables, Unique, Pool
  <2>2. \A r \in Pending : \A s \in reviews' : r.id # s.id
    BY <1>1, <2>1
  <2>3. \A r, s \in Pool' : r.id = s.id => r = s
    BY <1>1, <1>6, <2>2 DEF Tables, Unique, Pool
  <2>4. \A r \in Pending : \A t \in tickets' : t.id # r.id
    BY <1>1, <1>5 DEF Tables, Unique, Pool
  <2> QED
    BY <1>6, <2>2, <2>3, <2>4 DEF Unique
<1>8. Fits'
  <2>1. \A s \in reviews' : /\ s.at <= now
                            /\ s.kind = "created" => s.ticket = s.id
                            /\ s.kind = "dedup" => s.ticket # None
    BY <1>1, <1>4, <1>6 DEF Tables, Fits
  <2>2. \A r \in Pending : r.kind = "dedup" =>
            \E t \in tickets' : t.id = r.ticket /\ t.text = r.text
    BY <1>1 DEF Tables, Fits
  <2> QED
    BY <1>1, <1>6, <2>1, <2>2 DEF Tables, Fits, Pool
<1>9. Apart'
  <2>1. \A r \in Pool' : \E a \in Pool : r.id = a.id /\ r.text = a.text /\ r.kind = a.kind
                                         /\ r.at = a.at
    BY <1>1, <1>6 DEF Pool
  <2>2. \A s \in reviews' : \E b \in reviews :
            s.id = b.id /\ s.text = b.text /\ s.kind = b.kind /\ s.at = b.at
    BY <1>1
  <2> QED
    BY <1>1, <2>1, <2>2 DEF Tables, Apart
<1>10. KnownStored'
  BY <1>1 DEF Tables, KnownStored
<1>11. MintIsOwn'
  BY <1>1, <1>3, <1>5, <1>6 DEF Tables, MintIsOwn
<1>12. LinksAgree'
  <2>1. ASSUME NEW t \in tickets'
        PROVE  \E r \in reviews' : /\ r.id = t.review /\ r.text = t.text
                                   /\ r.ticket # None /\ r.kind # "dedup"
    <3>1. CASE t \in tickets
      <4>1. PICK r \in reviews : r.id = t.review /\ r.text = t.text
                                 /\ r.ticket # None /\ r.kind # "dedup"
        BY <3>1 DEF Tables, LinksAgree
      <4> QED
        BY <1>1, <1>2, <4>1
    <3>2. CASE t = t0
      BY <1>1, <1>2, <1>3, <3>2
    <3> QED
      BY <1>1, <3>1, <3>2
  <2>2. ASSUME NEW s \in reviews', s.ticket # None
        PROVE  \E t \in tickets' : /\ t.id = s.ticket /\ t.text = s.text
                                   /\ s.kind # "dedup" => t.review = s.id
    <3>1. PICK r \in reviews :
              /\ s.id = r.id /\ s.text = r.text /\ s.kind = r.kind
              /\ IF r.id = p.id THEN s.ticket = id ELSE s = r
      BY <1>1
    <3>2. CASE r.id = p.id
      BY <1>1, <1>4, <3>1, <3>2
    <3>3. CASE r.id # p.id
      BY <1>1, <2>2, <3>1, <3>3 DEF Tables, LinksAgree
    <3> QED
      BY <3>2, <3>3
  <2> QED
    BY <2>1, <2>2 DEF LinksAgree
<1>13. PromotedOnce'
  <2>1. ASSUME NEW t \in tickets, t.review = p.id
        PROVE  t.id # t.review /\ <<id, t.id>> \notin knew
    BY <1>3, <2>1 DEF Tables, MintIsOwn
  <2>2. \A x \in knew : x[2] # id
    BY <1>5 DEF Tables, KnownStored
  <2>3. p.id # id
    BY <1>3, <1>5, <1>6
  <2> QED
    BY <1>1, <2>1, <2>2, <2>3 DEF Tables, PromotedOnce
<1> QED
  BY <1>7, <1>8, <1>9, <1>10, <1>11, <1>12, <1>13 DEF Tables

LEMMA PromoteCommitKeeps ==
    ASSUME IInv, TypeOK', NEW q \in Requests, PromoteCommit(q)
    PROVE  IInv'
<1> USE DEF IInv
<1>1. PICK p \in Review, id \in Ids, t0 \in Ticket : Promotion(q, p, id, t0)
  BY PromoteCommits
<1>2. /\ p # None /\ id[1] = q /\ analyzing[q] = None /\ q \notin served
      /\ \A t \in tickets : t.id # id
  <2>1. p = promoting[q] /\ p # None /\ id = RequestId(q)
    BY <1>1, Constants DEF Promotion
  <2>2. analyzing[q] = None /\ q \notin served
    BY <2>1 DEF OwnIds
  <2> QED
    BY <2>1, <2>2, RequestIds, FreshRequest
<1>3. Pending' = Pending
  BY <1>1 DEF Promotion, Pending, Rows, Asked
<1>4. RunOnce'
  <2>1. \A r \in Pool' : \E s \in Pool : r.id = s.id /\ r.text = s.text /\ r.kind = s.kind
    BY <1>1, <1>3 DEF Promotion, Pool
  <2>2. UNCHANGED seen
    BY <1>1 DEF Promotion
  <2> QED
    BY <2>1, <2>2, RunOnceStays
<1>5. OwnIds'
  <2>1. \A i : Drawn(i) => Drawn(i)'
    BY <1>1 DEF Drawn, Promotion
  <2>2. Drawn(id)'
    BY <1>1, <1>2 DEF Drawn, Promotion
  <2>3. /\ \A r \in reviews' : Drawn(r.id)'
        /\ \A t \in tickets' : Drawn(t.id)'
    BY <1>1, <2>1, <2>2 DEF OwnIds, Promotion
  <2>4. \A u \in Requests : promoting'[u] = IF u = q THEN None ELSE promoting[u]
    BY <1>1 DEF TypeOK, Promotion
  <2>5. \A u \in Requests : analyzing'[u] # None =>
            analyzing'[u].id = <<u, 0>> /\ promoting'[u] = None
    BY <1>1, <2>4 DEF OwnIds, RequestId, Promotion
  <2>6. \A u \in served' : analyzing'[u] = None /\ promoting'[u] = None
    BY <1>1, <1>2, <2>4 DEF OwnIds, TypeOK, Promotion
  <2>7. \A t \in Tasks : \A r \in chunk'[t].rows : r.id[1] = t /\ r.id[2] <= chunk'[t].row
    BY <1>1 DEF OwnIds, Promotion
  <2> QED
    BY <2>3, <2>5, <2>6, <2>7 DEF OwnIds, RequestId
<1>6. ReadStands'
  <2>1. \A u \in Requests : promoting'[u] \in {None, promoting[u]}
    BY <1>1 DEF TypeOK, Promotion
  <2>2. \A x \in knew : x[2] # id
    BY <1>2 DEF Tables, KnownStored
  <2>3. tickets' = tickets \cup {t0} /\ t0.id = id /\ UNCHANGED knew
    BY <1>1 DEF Promotion
  <2>4. \A s \in reviews : \E r \in reviews' : r.id = s.id /\ r.text = s.text /\ r.kind = s.kind
    BY <1>1 DEF Promotion
  <2> QED
    BY <2>1, <2>2, <2>3, <2>4, ReadStandsStays
<1> QED
  BY <1>4, <1>5, <1>6, PromoteTables

LEMMA BatchRowKeeps ==
    ASSUME IInv, TypeOK', NEW t \in Tasks, BatchRow(t)
    PROVE  IInv'
<1> USE DEF IInv
<1>1. PICK text \in Texts, id \in Ids, x \in Chunk : Turn(t, text, id, x)
  BY RowTurns
<1>2. /\ id = <<t, chunk[t].row + 1>> /\ chunk' = [chunk EXCEPT ![t] = x]
      /\ x.row = chunk[t].row + 1 /\ id[1] = t /\ id[2] = x.row
      /\ seen' = [seen EXCEPT ![t[1]] = @ \cup {text}]
      /\ UNCHANGED <<now, reviews, tickets, analyzing, promoting, served>>
  BY <1>1 DEF Turn
<1>3. t[1] \in Runs /\ chunk[t].row \in Nat
  BY Constants DEF TypeOK, Chunk
<1>4. \A u \in Tasks : chunk'[u] = IF u = t THEN x ELSE chunk[u]
  BY <1>2 DEF TypeOK
<1>5. \A n \in Runs : seen[n] \subseteq seen'[n]
  BY <1>2, <1>3 DEF TypeOK
<1>6. /\ \A r \in Pool : r.id # id
      /\ \A u \in tickets : u.id # id
  BY <1>2, FreshRow
<1>7. \A i \in Ids : Drawn(i) => Drawn(i)'
  <2>1. \A u \in Tasks : chunk[u].row \in Nat
    BY DEF TypeOK, Chunk
  <2>2. \A u \in Tasks : chunk[u].row <= chunk'[u].row
    BY <1>2, <1>3, <1>4, <2>1
  <2>3. served \subseteq served'
    BY <1>2
  <2> QED
    BY <2>2, <2>3, DrawnStays
<1>8. CASE x.rows = chunk[t].rows /\ knew' = knew
  <2>1. Pending' = Pending /\ Pool' = Pool
    BY <1>2, <1>8, ChunkPending DEF Pool
  <2>2. Tables'
    BY <1>2, <1>8, <2>1, DropRows DEF TypeOK
  <2>3. RunOnce'
    BY <1>5, <2>1, RunOnceStays
  <2>4. \A u \in Tasks : \A r \in chunk'[u].rows : r.id[1] = u /\ r.id[2] <= chunk'[u].row
    BY <1>2, <1>3, <1>4, <1>8 DEF OwnIds, TypeOK, Chunk, Review, Ids
  <2>5. OwnIds'
    BY <1>2, <1>7, <2>4, PoolType DEF OwnIds, RequestId, TypeOK
  <2>6. ReadStands'
    BY <1>2, <1>8, ReadStandsStays
  <2> QED
    BY <2>2, <2>3, <2>5, <2>6
<1>9. ASSUME NEW row \in Review, row.id = id, row.text = text,
             x.rows = chunk[t].rows \cup {row}, Sound(row, reviews \cup chunk[t].rows),
             row.kind = "copy" <=> text \in seen[t[1]]
      PROVE  IInv'
  <2>1. Pending' = Pending \cup {row} /\ Pool' = Pool \cup {row}
    <3>1. chunk' = [chunk EXCEPT ![t] = x] /\ UNCHANGED <<analyzing, reviews>>
      BY <1>2
    <3>2. Pending' = Pending \cup {row}
      BY <1>9, <3>1, ChunkPending
    <3> QED
      BY <3>1, <3>2 DEF Pool
  <2>2. row.kind # "copy" => \A r \in Pool : SameRun(r.id[1], t) => r.text # text
    BY <1>9 DEF RunOnce, SameRun
  <2>3. Sound(row, reviews)
    <3>1. \A r \in chunk[t].rows : r \in Pool /\ SameRun(r.id[1], t)
      BY PoolType DEF OwnIds, SameRun
    <3>2. row.kind = "dedup" => \A r \in chunk[t].rows : r.text # row.text
      BY <1>9, <2>2, <3>1
    <3> QED
      BY <1>9, <3>2 DEF Sound
  <2>4. Tables'
    BY <1>2, <1>6, <1>9, <2>1, <2>3, AddRow
  <2>5. RunOnce'
    <3>1. \A r \in Pool' : r.id[1] \in Tasks => r.text \in seen'[r.id[1][1]]
      BY <1>2, <1>3, <1>5, <1>9, <2>1, Constants DEF RunOnce, TypeOK
    <3>2. \A r, s \in Pool' :
              SameRun(r.id[1], s.id[1]) /\ r.text = s.text /\ r.kind # "copy" /\ s.kind # "copy"
              => r.id = s.id
      BY <1>2, <1>9, <2>1, <2>2 DEF RunOnce, SameRun
    <3> QED
      BY <3>1, <3>2 DEF RunOnce, SameRun
  <2>6. \A u \in Tasks : \A r \in chunk'[u].rows : r.id[1] = u /\ r.id[2] <= chunk'[u].row
    <3>1. \A r \in chunk[t].rows : r.id[1] = t /\ r.id[2] <= chunk[t].row /\ r.id[2] \in Nat
      <4>1. \A r \in chunk[t].rows : r \in Review
        BY DEF TypeOK, Chunk
      <4>2. \A r \in Review : r.id[2] \in Nat
        BY DEF Review, Ids
      <4> QED
        BY <4>1, <4>2 DEF OwnIds
    <3> QED
      BY <1>2, <1>3, <1>4, <1>9, <3>1 DEF OwnIds
  <2>7. OwnIds'
    BY <1>2, <1>7, <2>6, PoolType DEF OwnIds, RequestId, TypeOK
  <2>8. ReadStands'
    <3>1. \A y \in knew' : y \in knew \/ \E u \in tickets : y = <<id, u.id>>
      BY <1>9 DEF Sound, Knows
    <3>2. \A p \in Requests : RequestId(p) # id
      BY <1>2, RequestIds, Constants
    <3> QED
      BY <1>2, <3>1, <3>2, ReadStandsStays
  <2> QED
    BY <2>4, <2>5, <2>7, <2>8
<1> QED
  BY <1>1, <1>8, <1>9 DEF Turn

LEMMA BatchCommitKeeps ==
    ASSUME IInv, TypeOK', NEW t \in Tasks, BatchCommit(t)
    PROVE  IInv'
<1> USE DEF IInv
<1>1. PICK rows \in SUBSET Review, x \in Chunk :
          /\ rows = chunk[t].rows /\ x.rows = {} /\ x.row = chunk[t].row
          /\ chunk' = [chunk EXCEPT ![t] = x]
          /\ reviews' = reviews \cup rows /\ tickets' = tickets \cup Minted(rows)
          /\ UNCHANGED <<now, analyzing, promoting, served, seen, knew>>
  <2> DEFINE x == [chunk[t] EXCEPT !.pc = "committed", !.rows = {}, !.bad = {}]
  <2>1. chunk[t] \in Chunk /\ chunk[t].rows \in SUBSET Review
    BY DEF TypeOK, Chunk
  <2>2. x \in Chunk /\ x.row = chunk[t].row
    BY <2>1, ChunkMoves DEF TypeOK
  <2>3. x.rows = {}
    BY <2>1 DEF Chunk
  <2>4. /\ chunk' = [chunk EXCEPT ![t] = x]
        /\ reviews' = reviews \cup chunk[t].rows
        /\ tickets' = tickets \cup Minted(chunk[t].rows)
        /\ UNCHANGED <<now, analyzing, promoting, served, seen, knew>>
    BY DEF BatchCommit, Step
  <2> HIDE DEF x
  <2> QED
    BY <2>1, <2>2, <2>3, <2>4
<1>2. rows \subseteq Pending
  BY <1>1, PoolType
<1>3. Pending' = Pending \ rows /\ Pool' = Pool
  <2>1. Pending' = Pending \ rows
    BY <1>1, ChunkPending
  <2> QED
    BY <1>1, <1>2, <2>1 DEF Pool
<1>4. Tables'
  BY <1>1, <1>2, <1>3, CommitRows
<1>5. RunOnce'
  BY <1>1, <1>3, RunOnceStays
<1>6. \A u \in Minted(rows) : \E r \in rows : u.id = r.id /\ u.review = r.id
  BY <1>1, MintedFits
<1>7. \A u \in Tasks : chunk'[u] = IF u = t THEN x ELSE chunk[u]
  BY <1>1 DEF TypeOK
<1>8. OwnIds'
  <2>1. \A i : Drawn(i) => Drawn(i)'
    BY <1>1, <1>7 DEF Drawn
  <2>2. \A r \in rows : Drawn(r.id)
    BY <1>1 DEF OwnIds, Drawn
  <2>3. /\ \A r \in reviews' : Drawn(r.id)'
        /\ \A u \in tickets' : Drawn(u.id)'
    BY <1>1, <1>6, <2>1, <2>2 DEF OwnIds
  <2>4. \A u \in Tasks : \A r \in chunk'[u].rows : r.id[1] = u /\ r.id[2] <= chunk'[u].row
    BY <1>1, <1>7 DEF OwnIds
  <2> QED
    BY <1>1, <2>3, <2>4 DEF OwnIds, RequestId
<1>9. ReadStands'
  <2>1. \A p \in Requests : promoting[p] # None => \A r \in rows : promoting[p].id # r.id
    BY <1>2 DEF ReadStands, Tables, Unique, Pool
  <2> QED
    BY <1>1, <1>6, <2>1, ReadStandsStays
<1> QED
  BY <1>4, <1>5, <1>8, <1>9

\* A failed chunk, or a process that dies, drops rows; progress leaves them.
LEMMA ChunkQuiet ==
    ASSUME TypeOK, NEW t \in Tasks, ProgressRead(t) \/ ProgressWrite(t) \/ ChunkFails(t)
    PROVE  /\ \A u \in Tasks : /\ chunk'[u].rows \subseteq chunk[u].rows
                               /\ chunk'[u].row = chunk[u].row
           /\ UNCHANGED <<now, reviews, tickets, analyzing, promoting, served, knew, seen>>
<1>1. chunk[t] \in Chunk
  BY DEF TypeOK
<1>2. CASE ProgressRead(t)
  <2>1. chunk' = [chunk EXCEPT ![t] = [chunk[t] EXCEPT !.pc = "progress", !.saw = ckpt]]
    BY <1>2 DEF ProgressRead, Step
  <2> QED
    BY <1>1, <1>2, <2>1 DEF ProgressRead, TypeOK, Chunk
<1>3. CASE ProgressWrite(t)
  <2>1. chunk' = [chunk EXCEPT ![t] = [chunk[t] EXCEPT !.pc = "done", !.saw = 0]]
    BY <1>3 DEF ProgressWrite, Step
  <2> QED
    BY <1>1, <1>3, <2>1 DEF ProgressWrite, TypeOK, Chunk
<1>4. CASE ChunkFails(t)
  <2>1. chunk' = [chunk EXCEPT ![t] = RolledBack(chunk[t])]
    BY <1>4 DEF ChunkFails, Step
  <2>2. RolledBack(chunk[t]).rows = {} /\ RolledBack(chunk[t]).row = chunk[t].row
    BY <1>1 DEF RolledBack, Chunk
  <2> QED
    BY <1>4, <2>1, <2>2 DEF ChunkFails, TypeOK
<1> QED
  BY <1>2, <1>3, <1>4

\* What the end of a run makes of the chunks.
LEMMA RunEnded ==
    ASSUME TypeOK, RunEnds
    PROVE  /\ \A u \in Tasks : \/ chunk'[u] = chunk[u]
                               \/ /\ Open(u) /\ chunk'[u] = RolledBack(chunk[u])
                                  /\ \A text \in Originals(chunk[u]) : <<u[1], text>> \in undone'
           /\ \A y \in undone' \ undone : \E u \in Tasks :
                  u[1] = y[1] /\ Open(u) /\ chunk'[u] = RolledBack(chunk[u])
           /\ undone \subseteq undone'
           /\ \A n \in going' : n \in going \/ n = run + 1
           /\ run' = run + 1 /\ run \in Nat
           /\ from' = [from EXCEPT ![run + 1] = ckpt]
           /\ UNCHANGED <<now, reviews, tickets, analyzing, promoting, served, seen, failed, knew>>
<1>1. PICK live \in Survivors :
          LET dying == {t \in Tasks : t[1] \notin live /\ Open(t)}
          IN  /\ chunk' = [t \in Tasks |-> IF t \in dying THEN RolledBack(chunk[t]) ELSE chunk[t]]
              /\ undone' = undone \cup
                     UNION {{<<t[1], text>> : text \in Originals(chunk[t])} : t \in dying}
              /\ going' = live \cup {run + 1}
  BY DEF RunEnds, NextRun
<1> DEFINE dying == {t \in Tasks : t[1] \notin live /\ Open(t)}
<1>2. \A u \in Tasks : IF u \in dying THEN chunk'[u] = RolledBack(chunk[u]) ELSE chunk'[u] = chunk[u]
  BY <1>1
<1>3. \A y : y \in undone' <=>
          y \in undone \/ \E u \in dying : \E text \in Originals(chunk[u]) : y = <<u[1], text>>
  BY <1>1
<1>4. \A u \in dying : u \in Tasks /\ Open(u)
  OBVIOUS
<1>5. live \subseteq going
  BY <1>1 DEF Survivors
<1>6. /\ run' = run + 1 /\ run \in Nat /\ from' = [from EXCEPT ![run + 1] = ckpt]
      /\ going' = live \cup {run + 1}
      /\ UNCHANGED <<now, reviews, tickets, analyzing, promoting, served, seen, failed, knew>>
  BY <1>1, Constants DEF RunEnds, NextRun, TypeOK, Runs
<1> HIDE DEF dying
<1> QED
  BY <1>2, <1>3, <1>4, <1>5, <1>6

LEMMA StepKeeps == IInv /\ [Next]_vars => IInv'
<1> SUFFICES ASSUME IInv, [Next]_vars PROVE IInv'
  OBVIOUS
<1>1. TypeOK' /\ TypeOK /\ now \in Nat
  BY TypeStep DEF IInv, TypeOK
<1>2. CASE Tick
  BY <1>1, <1>2, QuietKeeps DEF Tick, batch
<1>3. ASSUME NEW q \in Requests,
             \/ AnalyzeDecide(q) \/ AnalyzeCommit(q) \/ PromoteRead(q)
             \/ PromoteCommit(q) \/ RequestFails(q)
      PROVE  IInv'
  BY <1>1, <1>3, AnalyzeDecideKeeps, AnalyzeCommitKeeps, PromoteReadKeeps,
     PromoteCommitKeeps, RequestFailsKeeps
<1>4. ASSUME NEW t \in Tasks, BatchRow(t) \/ BatchCommit(t)
      PROVE  IInv'
  BY <1>1, <1>4, BatchRowKeeps, BatchCommitKeeps
<1>5. ASSUME NEW t \in Tasks, ProgressRead(t) \/ ProgressWrite(t) \/ ChunkFails(t)
      PROVE  IInv'
  BY <1>1, <1>5, ChunkQuiet, QuietKeeps
<1>6. CASE RunEnds
  <2>1. \A u \in Tasks : /\ chunk'[u].rows \subseteq chunk[u].rows
                         /\ chunk'[u].row = chunk[u].row
    <3>1. \A u \in Tasks : /\ RolledBack(chunk[u]).rows = {}
                           /\ RolledBack(chunk[u]).row = chunk[u].row
      BY <1>1 DEF TypeOK, Chunk, RolledBack
    <3> QED
      BY <1>1, <1>6, <3>1, RunEnded
  <2> QED
    BY <1>1, <1>6, <2>1, RunEnded, QuietKeeps
<1>7. CASE UNCHANGED vars
  BY <1>1, <1>7, QuietKeeps DEF vars, batch
<1> QED
  BY <1>2, <1>3, <1>4, <1>5, <1>6, <1>7 DEF Next

\* The inductive invariant holds throughout.
THEOREM Inductive == Spec => []IInv
BY InitHolds, StepKeeps, PTL DEF Spec

\* The variables keep their types.
THEOREM TypeCorrect == Spec => []TypeOK
<1>1. IInv => TypeOK
  BY DEF IInv
<1>2. QED
  BY <1>1, Inductive, PTL

\* Reviews and tickets point at each other, however requests, promotions and
\* chunks, serial or parallel, interleave and fail.
THEOREM LinksStand == Spec => []LinksAgree
<1>1. IInv => LinksAgree
  BY DEF IInv, Tables
<1>2. QED
  BY <1>1, Inductive, PTL

\* A second ticket for a text within the window is minted only by two that
\* overlap, of different runs if both are the batch's.
THEOREM MintsOnce == Spec => []MintedOnce
<1>1. IInv => MintedOnce
  <2> SUFFICES ASSUME IInv, NEW r \in reviews, NEW s \in reviews,
                      r.kind = "created", s.kind = "created",
                      r.id # s.id, r.text = s.text, r.at <= s.at, s.at <= r.at + Window
               PROVE  /\ <<r.id, s.id>> \notin knew /\ <<s.id, r.id>> \notin knew
                      /\ ~ SameRun(r.id[1], s.id[1])
    BY DEF MintedOnce
  <2>1. r \in Pool /\ s \in Pool /\ r.at \in Nat /\ s.at \in Nat
    BY PoolType DEF IInv
  <2>2. <<r.id, s.id>> \notin knew
    BY <2>1, Constants DEF IInv, Tables, Apart
  <2>3. <<s.id, r.id>> \notin knew
    BY <2>1, Constants DEF IInv, Tables, Apart
  <2> QED
    BY <2>1, <2>2, <2>3 DEF IInv, RunOnce
<1>2. QED
  BY <1>1, Inductive, PTL

\* A review is given two tickets only by promotions that overlap.
THEOREM PromotesOnce == Spec => []PromotedOnce
<1>1. IInv => PromotedOnce
  BY DEF IInv, Tables
<1>2. QED
  BY <1>1, Inductive, PTL

\* A linked review keeps its ticket but for a promotion that had read it before.
THEOREM LinkKept == Spec => LinksStay
<1> DEFINE Kept == \A r \in reviews : r.ticket # None =>
           \E s \in reviews' :
               /\ s.id = r.id
               /\ \/ s.ticket = r.ticket
                  \/ \E q \in Requests : /\ promoting[q] # None
                                         /\ promoting[q].id = r.id
                                         /\ promoting[q].ticket = None
<1>1. IInv /\ [Next]_vars => [Kept]_vars
  <2> SUFFICES ASSUME IInv, Next PROVE Kept
    BY DEF vars
  <2>1. CASE reviews \subseteq reviews'
    BY <2>1
  <2>2. ASSUME NEW q \in Requests, PromoteCommit(q) PROVE Kept
    <3>1. promoting[q] # None /\ promoting[q].ticket = None
      BY <2>2 DEF IInv, ReadStands, PromoteCommit
    <3>2. \A r \in reviews : \E s \in reviews' :
              s.id = r.id /\ (s = r \/ promoting[q].id = r.id)
      <4>1. PICK p \in Review, id \in Ids, t0 \in Ticket : Promotion(q, p, id, t0)
        BY <2>2, PromoteCommits
      <4> QED
        BY <4>1 DEF Promotion
    <3>3. QED
      BY <3>1, <3>2
  <2>3. QED
    BY <2>1, <2>2 DEF Next, Tick, AnalyzeDecide, AnalyzeCommit, PromoteRead, RequestFails,
                      BatchRow, BatchCommit, ProgressRead, ProgressWrite, ChunkFails,
                      RunEnds, NextRun
<1>2. QED
  BY <1>1, Inductive, PTL DEF Spec, LinksStay
-----------------------------------------------------------------------------
(* Copies.                                                                 *)

\* The batch has stored a row of its own for the text, or its error.
Stored(text) ==
    text \in failed \/ \E r \in reviews : r.id[1] \in Tasks /\ r.text = text /\ r.kind # "copy"

\* A run has met a text: that, or one of its chunks holds the original, or a
\* rollback took it.
Met(n, text) ==
    \/ Stored(text)
    \/ <<n, text>> \in undone
    \/ \E t \in Tasks : t[1] = n /\ text \in Originals(chunk[t])

CopyInv ==
    /\ \A n \in Runs : \A text \in seen[n] : Met(n, text)
    /\ \A c \in Pool : c.kind = "copy" => c.id[1] \in Tasks
    /\ \A c \in reviews : c.kind = "copy" => Parallel \/ Stored(c.text)

\* The serial loop comes to a chunk when those before it are done, so that one
\* at most is at work, and none once a rollback has taken a text.
InOrder ==
    /\ \A n \in going : n <= run
    /\ \A t \in Tasks : chunk[t].pc # "idle" =>
           /\ t[1] <= run /\ from[t[1]] < t[2]
           /\ \A k \in Chunks : from[t[1]] < k /\ k < t[2] =>
                  Parallel \/ chunk[<<t[1], k>>].pc = "done"
    /\ \A t \in Tasks : chunk[t].pc # "rows" => Originals(chunk[t]) = {}
    /\ \A y \in undone : \E t \in Tasks : t[1] = y[1] /\ chunk[t].pc = "lost"

\* What a step may make of a chunk.
Moved(u) ==
    \/ chunk'[u] = chunk[u]
    \/ /\ Open(u) \/ Ready(u)
       /\ chunk'[u].pc # "idle"
       /\ chunk'[u].pc # "rows" => Originals(chunk'[u]) = {}

LEMMA Emptied ==
    \A c \in Chunk : /\ RolledBack(c).pc = "lost" /\ RolledBack(c).rows = {}
                     /\ RolledBack(c).bad = {} /\ Originals(RolledBack(c)) = {}
<1>1. \A c \in Chunk : /\ RolledBack(c).pc = "lost" /\ RolledBack(c).rows = {}
                       /\ RolledBack(c).bad = {}
  BY DEF Chunk, RolledBack
<1> QED
  BY <1>1 DEF Originals

\* The steps of the batch, for the order of its chunks.
LEMMA ChunksMove ==
    ASSUME TypeOK, InOrder, [Next]_vars
    PROVE  /\ \A u \in Tasks : Moved(u)
           /\ \A y \in undone' \ undone : \E u \in Tasks : u[1] = y[1] /\ chunk'[u].pc = "lost"
           /\ \/ UNCHANGED <<run, going, from>>
              \/ /\ run' = run + 1 /\ from' = [from EXCEPT ![run + 1] = ckpt]
                 /\ \A n \in going' : n \in going \/ n = run + 1
<1>1. ASSUME UNCHANGED batch
      PROVE  UNCHANGED <<chunk, undone, run, going, from>>
  BY <1>1 DEF batch
<1>2. ASSUME NEW t \in Tasks, NEW x, chunk' = [chunk EXCEPT ![t] = x],
             Open(t) \/ Ready(t), x.pc # "idle", x.pc # "rows" => Originals(x) = {}
      PROVE  \A u \in Tasks : Moved(u)
  BY <1>2 DEF Moved, TypeOK
<1>3. ASSUME NEW t \in Tasks, BatchRow(t)
      PROVE  (\A u \in Tasks : Moved(u)) /\ UNCHANGED <<undone, run, going, from>>
  <2>1. PICK text \in Texts, id \in Ids, x \in Chunk : Turn(t, text, id, x)
    BY <1>3, RowTurns
  <2>2. Open(t) \/ Ready(t)
    BY <1>3 DEF BatchRow, Open
  <2>3. /\ x.pc = "rows" /\ chunk' = [chunk EXCEPT ![t] = x]
        /\ UNCHANGED <<undone, run, going, from>>
    BY <2>1 DEF Turn
  <2> QED
    BY <1>2, <2>2, <2>3
<1>4. ASSUME NEW t \in Tasks, BatchCommit(t) \/ ProgressRead(t) \/ ProgressWrite(t)
      PROVE  (\A u \in Tasks : Moved(u)) /\ UNCHANGED <<undone, run, going, from>>
  <2>1. chunk[t] \in Chunk /\ Open(t)
    BY <1>4 DEF TypeOK, BatchCommit, ProgressRead, ProgressWrite, Open
  <2>2. CASE BatchCommit(t)
    <3> DEFINE x == [chunk[t] EXCEPT !.pc = "committed", !.rows = {}, !.bad = {}]
    <3>1. x.pc = "committed" /\ x.rows = {} /\ x.bad = {}
      BY <2>1 DEF Chunk
    <3>2. chunk' = [chunk EXCEPT ![t] = x] /\ UNCHANGED <<undone, run, going, from>>
      BY <2>2 DEF BatchCommit, Step
    <3> HIDE DEF x
    <3>3. Originals(x) = {}
      BY <3>1 DEF Originals
    <3> QED
      BY <1>2, <2>1, <3>1, <3>2, <3>3
  <2>3. CASE ProgressRead(t)
    <3> DEFINE x == [chunk[t] EXCEPT !.pc = "progress", !.saw = ckpt]
    <3>1. x.pc = "progress" /\ x.rows = chunk[t].rows /\ x.bad = chunk[t].bad
      BY <2>1 DEF Chunk
    <3>2. chunk' = [chunk EXCEPT ![t] = x] /\ UNCHANGED <<undone, run, going, from>>
      BY <2>3 DEF ProgressRead, Step
    <3>3. Originals(chunk[t]) = {}
      BY <2>3 DEF ProgressRead, InOrder
    <3> HIDE DEF x
    <3>4. Originals(x) = {}
      BY <3>1, <3>3 DEF Originals
    <3> QED
      BY <1>2, <2>1, <3>1, <3>2, <3>4
  <2>4. CASE ProgressWrite(t)
    <3> DEFINE x == [chunk[t] EXCEPT !.pc = "done", !.saw = 0]
    <3>1. x.pc = "done" /\ x.rows = chunk[t].rows /\ x.bad = chunk[t].bad
      BY <2>1 DEF Chunk
    <3>2. chunk' = [chunk EXCEPT ![t] = x] /\ UNCHANGED <<undone, run, going, from>>
      BY <2>4 DEF ProgressWrite, Step
    <3>3. Originals(chunk[t]) = {}
      BY <2>4 DEF ProgressWrite, InOrder
    <3> HIDE DEF x
    <3>4. Originals(x) = {}
      BY <3>1, <3>3 DEF Originals
    <3> QED
      BY <1>2, <2>1, <3>1, <3>2, <3>4
  <2> QED
    BY <1>4, <2>2, <2>3, <2>4
<1>5. ASSUME NEW t \in Tasks, ChunkFails(t)
      PROVE  /\ \A u \in Tasks : Moved(u)
             /\ \A y \in undone' \ undone : \E u \in Tasks : u[1] = y[1] /\ chunk'[u].pc = "lost"
             /\ UNCHANGED <<run, going, from>>
  <2>1. RolledBack(chunk[t]).pc = "lost" /\ Originals(RolledBack(chunk[t])) = {}
    BY Emptied DEF TypeOK
  <2>2. /\ chunk' = [chunk EXCEPT ![t] = RolledBack(chunk[t])] /\ UNCHANGED <<run, going, from>>
        /\ Open(t) \/ Ready(t)
        /\ undone' = undone \cup {<<t[1], text>> : text \in Originals(chunk[t])}
    BY <1>5 DEF ChunkFails, Step
  <2>3. chunk'[t].pc = "lost"
    BY <2>1, <2>2 DEF TypeOK
  <2>4. \A y \in undone' \ undone : y[1] = t[1]
    BY <2>2
  <2> QED
    BY <1>2, <2>1, <2>2, <2>3, <2>4
<1>6. CASE RunEnds
  <2>1. \A u \in Tasks : RolledBack(chunk[u]).pc = "lost" /\ Originals(RolledBack(chunk[u])) = {}
    BY Emptied DEF TypeOK
  <2> QED
    BY <1>6, <2>1, RunEnded DEF Moved
<1>7. CASE Tick \/ UNCHANGED vars \/ \E q \in Requests :
              \/ AnalyzeDecide(q) \/ AnalyzeCommit(q) \/ PromoteRead(q)
              \/ PromoteCommit(q) \/ RequestFails(q)
  <2>1. UNCHANGED batch
    BY <1>7 DEF Tick, vars, AnalyzeDecide, AnalyzeCommit, PromoteRead, PromoteCommit, RequestFails
  <2> QED
    BY <1>1, <2>1 DEF Moved
<1> QED
  BY <1>3, <1>4, <1>5, <1>6, <1>7 DEF Next

LEMMA OrderStep == TypeOK /\ TypeOK' /\ InOrder /\ [Next]_vars => InOrder'
<1> SUFFICES ASSUME TypeOK, TypeOK', InOrder, [Next]_vars PROVE InOrder'
  OBVIOUS
<1>1. /\ \A u \in Tasks : Moved(u)
      /\ \A y \in undone' \ undone : \E u \in Tasks : u[1] = y[1] /\ chunk'[u].pc = "lost"
      /\ \/ UNCHANGED <<run, going, from>>
         \/ /\ run' = run + 1 /\ from' = [from EXCEPT ![run + 1] = ckpt]
            /\ \A n \in going' : n \in going \/ n = run + 1
  BY ChunksMove
<1>2. run \in Nat /\ \A n \in Runs : n \in Nat
  BY Constants DEF TypeOK, Runs
<1>3. \A n \in Runs : n <= run => from'[n] = from[n] /\ n <= run'
  BY <1>1, <1>2 DEF TypeOK
<1>4. \A n \in going' : n <= run'
  <2>1. \A n \in going : n \in Nat /\ n <= run
    BY <1>2 DEF InOrder, TypeOK
  <2> QED
    BY <1>1, <1>2, <2>1
<1>5. \A u \in Tasks : chunk[u].pc \in {"done", "lost"} => chunk'[u] = chunk[u]
  BY <1>1 DEF Moved, Open, Ready
<1>6. ASSUME NEW t \in Tasks, chunk'[t].pc # "idle"
      PROVE  /\ t[1] <= run' /\ from'[t[1]] < t[2]
             /\ \A k \in Chunks : from'[t[1]] < k /\ k < t[2] =>
                    Parallel \/ chunk'[<<t[1], k>>].pc = "done"
  <2>1. /\ t[1] <= run /\ from[t[1]] < t[2]
        /\ \A k \in Chunks : from[t[1]] < k /\ k < t[2] =>
               Parallel \/ chunk[<<t[1], k>>].pc = "done"
    <3>1. CASE chunk[t].pc # "idle"
      BY <3>1 DEF InOrder
    <3>2. CASE chunk[t].pc = "idle"
      <4>1. Ready(t)
        BY <1>1, <1>6, <3>2 DEF Moved, Open
      <4> QED
        BY <4>1 DEF Ready, InOrder
    <3> QED
      BY <3>1, <3>2
  <2>2. t[1] \in Runs
    BY Constants
  <2>3. from'[t[1]] = from[t[1]] /\ t[1] <= run'
    BY <1>3, <2>1, <2>2
  <2>4. \A k \in Chunks : <<t[1], k>> \in Tasks
    BY <2>2 DEF Tasks
  <2> QED
    BY <1>5, <2>1, <2>3, <2>4
<1>7. \A t \in Tasks : chunk'[t].pc # "rows" => Originals(chunk'[t]) = {}
  BY <1>1 DEF Moved, InOrder
<1>8. \A y \in undone' : \E t \in Tasks : t[1] = y[1] /\ chunk'[t].pc = "lost"
  <2>1. \A y \in undone : \E t \in Tasks : t[1] = y[1] /\ chunk'[t].pc = "lost"
    BY <1>5 DEF InOrder
  <2> QED
    BY <1>1, <2>1
<1>9. \A t \in Tasks : Originals(chunk[t])' = Originals(chunk'[t])
  BY DEF Originals
<1> QED
  BY <1>4, <1>6, <1>7, <1>8, <1>9 DEF InOrder

LEMMA OneAtATime ==
    ASSUME TypeOK, InOrder, ~ Parallel, NEW t \in Tasks, NEW u \in Tasks, u[1] = t[1],
           chunk[t].pc = "rows", chunk[u].pc \in {"rows", "lost"}
    PROVE  u = t
<1>1. /\ t[1] \in Runs /\ t[2] \in Chunks /\ u[2] \in Chunks
      /\ t = <<t[1], t[2]>> /\ u = <<t[1], u[2]>>
  BY Constants
<1>2. ~ t[2] < u[2] /\ ~ u[2] < t[2]
  BY <1>1 DEF InOrder
<1>3. t[2] = u[2]
  BY <1>1, <1>2 DEF Chunks
<1> QED
  BY <1>1, <1>3

\* The steps of requests and of the clock: they store no copy, and take no
\* row away.
LEMMA RequestCopies ==
    ASSUME IInv, CopyInv, UNCHANGED batch,
           \A r \in Pool' :
               r.kind = "copy" => \E s \in Pool : s.id = r.id /\ s.kind = "copy",
           \A r \in reviews' : r.kind = "copy" =>
               \/ r.id[1] \notin Tasks
               \/ \E s \in reviews : s.kind = "copy" /\ s.text = r.text,
           \A r \in reviews : \E s \in reviews' :
               s.id = r.id /\ s.text = r.text /\ s.kind = r.kind
    PROVE  CopyInv'
<1>1. UNCHANGED <<seen, failed, undone, chunk>>
  BY DEF batch
<1>2. \A text : Stored(text) => Stored(text)'
  BY <1>1 DEF Stored
<1>3. \A t \in Tasks : Originals(chunk[t])' = Originals(chunk[t])
  BY <1>1 DEF Originals
<1>4. \A n, text : Met(n, text) => Met(n, text)'
  BY <1>1, <1>2, <1>3 DEF Met
<1>5. \A c \in Pool' : c.kind = "copy" => c.id[1] \in Tasks
  BY DEF CopyInv
<1>6. \A c \in reviews' : c.kind = "copy" => Parallel \/ Stored(c.text)'
  BY <1>2, <1>5 DEF CopyInv, Pool
<1> QED
  BY <1>1, <1>4, <1>5, <1>6 DEF CopyInv

\* A step of the batch that stores no row: what a chunk holds it still holds,
\* or a rollback has taken it.
LEMMA HeldCopies ==
    ASSUME CopyInv, Pool' \subseteq Pool, UNCHANGED <<reviews, failed, seen>>,
           undone \subseteq undone',
           \A t \in Tasks : \A text \in Originals(chunk[t]) :
               text \in Originals(chunk'[t]) \/ <<t[1], text>> \in undone'
    PROVE  CopyInv'
<1>1. \A text : Stored(text) => Stored(text)'
  BY DEF Stored
<1>2. \A t \in Tasks : Originals(chunk[t])' = Originals(chunk'[t])
  BY DEF Originals
<1>3. \A n, text : Met(n, text) => Met(n, text)'
  BY <1>1, <1>2 DEF Met
<1> QED
  BY <1>1, <1>3 DEF CopyInv

LEMMA RowCopies ==
    ASSUME IInv, IInv', CopyInv, NEW t \in Tasks, BatchRow(t)
    PROVE  CopyInv'
<1>1. PICK text \in Texts, id \in Ids, x \in Chunk : Turn(t, text, id, x)
  BY RowTurns DEF IInv
<1>2. /\ chunk' = [chunk EXCEPT ![t] = x] /\ seen' = [seen EXCEPT ![t[1]] = @ \cup {text}]
      /\ id[1] = t /\ UNCHANGED <<reviews, failed, undone, analyzing>>
  BY <1>1 DEF Turn
<1>3. \A u \in Tasks : chunk'[u] = IF u = t THEN x ELSE chunk[u]
  BY <1>2 DEF IInv, TypeOK
<1>4. chunk[t].rows \subseteq x.rows /\ chunk[t].bad \subseteq x.bad
  BY <1>1 DEF Turn
<1>5. \A u \in Tasks : Originals(chunk[u])' = Originals(chunk'[u])
  BY DEF Originals
<1>6. \A u \in Tasks : Originals(chunk[u]) \subseteq Originals(chunk'[u])
  BY <1>3, <1>4 DEF Originals
<1>7. \A v : Stored(v) => Stored(v)'
  BY <1>2 DEF Stored
<1>8. \A n, v : Met(n, v) => Met(n, v)'
  <2>1. \A u \in Tasks : Originals(chunk[u]) \subseteq Originals(chunk[u])'
    BY <1>5, <1>6
  <2> QED
    BY <1>2, <1>7, <2>1 DEF Met
<1>9. Met(t[1], text)'
  <2>1. CASE text \in seen[t[1]]
    BY <1>8, <2>1, Constants DEF CopyInv
  <2>2. CASE text \notin seen[t[1]]
    <3>1. text \in Originals(x)
      BY <1>1, <2>2 DEF Turn, Originals
    <3>2. text \in Originals(chunk[t])'
      BY <1>3, <1>5, <3>1
    <3> QED
      BY <3>2 DEF Met
  <2> QED
    BY <2>1, <2>2
<1>10. \A n \in Runs : \A v \in seen'[n] : Met(n, v)'
  <2>1. \A n \in Runs : \A v \in seen'[n] : v \in seen[n] \/ (n = t[1] /\ v = text)
    BY <1>2 DEF IInv, TypeOK
  <2> QED
    BY <1>8, <1>9, <2>1 DEF CopyInv
<1>11. \A c \in Pool' : c.kind = "copy" => c.id[1] \in Tasks
  <2>1. \A c \in Pool' : c \in Pool \/ c.id = id
    <3>1. x.rows = chunk[t].rows \/ \E row \in Review : row.id = id /\ x.rows = chunk[t].rows \cup {row}
      BY <1>1 DEF Turn
    <3>2. IInv => TypeOK /\ OwnIds
      BY DEF IInv
    <3>3. CASE x.rows = chunk[t].rows
      <4>1. Pending' = Pending
        BY <1>2, <3>2, <3>3, ChunkPending
      <4> QED
        BY <1>2, <4>1 DEF Pool
    <3>4. CASE \E row \in Review : row.id = id /\ x.rows = chunk[t].rows \cup {row}
      <4>1. PICK row \in Review : row.id = id /\ x.rows = chunk[t].rows \cup {row}
        BY <3>4
      <4>2. Pending' = Pending \cup {row}
        BY <1>2, <3>2, <4>1, ChunkPending
      <4> QED
        BY <1>2, <4>1, <4>2 DEF Pool
    <3> QED
      BY <3>1, <3>3, <3>4
  <2> QED
    BY <1>2, <2>1 DEF CopyInv
<1> QED
  BY <1>2, <1>7, <1>10, <1>11 DEF CopyInv

LEMMA CommitCopies ==
    ASSUME IInv, IInv', InOrder, CopyInv, NEW t \in Tasks, BatchCommit(t)
    PROVE  CopyInv'
<1>1. chunk[t] \in Chunk /\ t[1] \in Runs /\ TypeOK /\ OwnIds
  BY Constants DEF IInv, TypeOK
<1>2. PICK x \in Chunk :
          /\ x.rows = {} /\ x.bad = {} /\ chunk' = [chunk EXCEPT ![t] = x]
          /\ reviews' = reviews \cup chunk[t].rows /\ failed' = failed \cup chunk[t].bad
          /\ chunk[t].pc = "rows" /\ UNCHANGED <<seen, undone, analyzing>>
  <2> DEFINE x == [chunk[t] EXCEPT !.pc = "committed", !.rows = {}, !.bad = {}]
  <2>1. x \in Chunk
    BY <1>1, ChunkMoves DEF TypeOK
  <2>2. x.rows = {} /\ x.bad = {}
    BY <1>1 DEF Chunk
  <2>3. /\ chunk' = [chunk EXCEPT ![t] = x] /\ chunk[t].pc = "rows"
        /\ reviews' = reviews \cup chunk[t].rows /\ failed' = failed \cup chunk[t].bad
        /\ UNCHANGED <<seen, undone, analyzing>>
    BY DEF BatchCommit, Step
  <2> HIDE DEF x
  <2> QED
    BY <2>1, <2>2, <2>3
<1>3. \A u \in Tasks : chunk'[u] = IF u = t THEN x ELSE chunk[u]
  BY <1>1, <1>2 DEF TypeOK
<1>4. \A v : Stored(v) => Stored(v)'
  BY <1>2 DEF Stored
<1>5. \A v \in Originals(chunk[t]) : Stored(v)'
  <2>1. \A r \in chunk[t].rows : r.id[1] \in Tasks /\ r \in reviews'
    BY <1>1, <1>2 DEF OwnIds
  <2> QED
    BY <1>2, <2>1 DEF Originals, Stored
<1>6. \A u \in Tasks : u # t => Originals(chunk[u])' = Originals(chunk[u])
  BY <1>3 DEF Originals
<1>7. \A n, v : Met(n, v) => Met(n, v)'
  BY <1>2, <1>4, <1>5, <1>6 DEF Met
<1>8. Pool' \subseteq Pool
  <2>1. Pending' = Pending \ chunk[t].rows
    BY <1>1, <1>2, ChunkPending
  <2> QED
    BY <1>1, <1>2, <2>1, PoolType DEF Pool
<1>9. ASSUME NEW c \in chunk[t].rows, c.kind = "copy", ~ Parallel
      PROVE  Stored(c.text)'
  <2>1. c \in Pool /\ c.id[1] = t
    BY <1>1, PoolType DEF OwnIds
  <2>2. Met(t[1], c.text)
    BY <1>1, <2>1 DEF IInv, RunOnce, CopyInv
  <2>3. <<t[1], c.text>> \notin undone
    <3> SUFFICES ASSUME <<t[1], c.text>> \in undone PROVE FALSE
      OBVIOUS
    <3>1. PICK u \in Tasks : u[1] = t[1] /\ chunk[u].pc = "lost"
      BY DEF InOrder
    <3> QED
      BY <1>1, <1>2, <1>9, <3>1, OneAtATime
  <2>4. \A u \in Tasks : u[1] = t[1] /\ c.text \in Originals(chunk[u]) => u = t
    BY <1>1, <1>2, <1>9, OneAtATime DEF InOrder
  <2> QED
    BY <1>4, <1>5, <2>2, <2>3, <2>4 DEF Met
<1> QED
  BY <1>2, <1>4, <1>7, <1>8, <1>9 DEF CopyInv

\* Its progress, and its rollbacks, one by one or of a whole run.
LEMMA LossCopies ==
    ASSUME IInv, CopyInv, InOrder,
           (\E t \in Tasks : ProgressRead(t) \/ ProgressWrite(t) \/ ChunkFails(t)) \/ RunEnds
    PROVE  CopyInv'
<1>1. TypeOK /\ \A t \in Tasks : chunk[t] \in Chunk
  BY DEF IInv, TypeOK
<1>2. ASSUME \A u \in Tasks : chunk'[u].rows \subseteq chunk[u].rows, UNCHANGED <<reviews, analyzing>>
      PROVE  Pool' \subseteq Pool
  <2>1. \A u \in Tasks : \A r \in chunk'[u].rows : r \in chunk[u].rows
    BY <1>2
  <2>2. Rows' \subseteq Rows
    BY <2>1 DEF Rows
  <2>3. Asked' = Asked
    BY <1>2 DEF Asked
  <2> QED
    BY <1>2, <2>2, <2>3 DEF Pending, Pool
<1>3. ASSUME NEW t \in Tasks, ProgressRead(t) \/ ProgressWrite(t) PROVE CopyInv'
  <2>1. Originals(chunk[t]) = {} /\ \A u \in Tasks : u # t => chunk'[u] = chunk[u]
    BY <1>1, <1>3 DEF ProgressRead, ProgressWrite, Step, InOrder, TypeOK
  <2>2. Pool' \subseteq Pool
    BY <1>1, <1>2, <1>3, ChunkQuiet
  <2>3. \A u \in Tasks : \A text \in Originals(chunk[u]) :
            text \in Originals(chunk'[u]) \/ <<u[1], text>> \in undone'
    BY <2>1
  <2>4. undone' = undone /\ UNCHANGED <<reviews, failed, seen>>
    BY <1>3 DEF ProgressRead, ProgressWrite
  <2> QED
    BY <2>2, <2>3, <2>4, HeldCopies
<1>4. ASSUME NEW t \in Tasks, ChunkFails(t) PROVE CopyInv'
  <2>1. /\ \A u \in Tasks : u # t => chunk'[u] = chunk[u]
        /\ undone' = undone \cup {<<t[1], text>> : text \in Originals(chunk[t])}
        /\ UNCHANGED <<reviews, failed, seen>>
    BY <1>1, <1>4 DEF ChunkFails, Step, TypeOK
  <2>2. Pool' \subseteq Pool
    BY <1>1, <1>2, <1>4, ChunkQuiet
  <2>3. \A u \in Tasks : \A text \in Originals(chunk[u]) :
            text \in Originals(chunk'[u]) \/ <<u[1], text>> \in undone'
    BY <2>1
  <2> QED
    BY <2>1, <2>2, <2>3, HeldCopies
<1>5. CASE RunEnds
  <2>1. \A u \in Tasks : \/ chunk'[u] = chunk[u]
                         \/ /\ chunk'[u] = RolledBack(chunk[u])
                            /\ \A text \in Originals(chunk[u]) : <<u[1], text>> \in undone'
    BY <1>1, <1>5, RunEnded
  <2>2. undone \subseteq undone' /\ UNCHANGED <<reviews, failed, seen, analyzing>>
    BY <1>1, <1>5, RunEnded
  <2>3. \A u \in Tasks : chunk'[u].rows \subseteq chunk[u].rows
    BY <1>1, <2>1, Emptied
  <2>4. \A u \in Tasks : \A text \in Originals(chunk[u]) :
            text \in Originals(chunk'[u]) \/ <<u[1], text>> \in undone'
    BY <2>1
  <2> QED
    BY <1>2, <2>2, <2>3, <2>4, HeldCopies
<1> QED
  BY <1>3, <1>4, <1>5

LEMMA CopiesStep == IInv /\ InOrder /\ CopyInv /\ [Next]_vars => CopyInv'
<1> SUFFICES ASSUME IInv, InOrder, CopyInv, [Next]_vars PROVE CopyInv'
  OBVIOUS
<1>1. IInv' /\ TypeOK
  BY StepKeeps DEF IInv
<1>2. CASE Tick \/ UNCHANGED vars
  <2>1. UNCHANGED <<reviews, analyzing, batch, chunk>>
    BY <1>2 DEF Tick, vars, batch
  <2>2. Pool' = Pool
    BY <2>1 DEF Pool, Pending, Rows, Asked
  <2> QED
    BY <2>1, <2>2, RequestCopies
<1>3. ASSUME NEW q \in Requests, AnalyzeDecide(q) PROVE CopyInv'
  <2>1. PICK text \in Texts : \E row \in Decided(RequestId(q), text, reviews) :
            analyzing' = [analyzing EXCEPT ![q] = row] /\ KnowsIfCreated(row)
    BY <1>3 DEF AnalyzeDecide
  <2>2. PICK row \in Decided(RequestId(q), text, reviews) :
            analyzing' = [analyzing EXCEPT ![q] = row] /\ KnowsIfCreated(row)
    BY <2>1
  <2>3. now \in Nat /\ reviews \in SUBSET Review
    BY <1>1 DEF TypeOK
  <2>4. row.kind # "copy" /\ row \in Review
    BY <2>2, <2>3, DecidedSound, RequestIds
  <2>5. UNCHANGED <<reviews, batch, chunk>> /\ analyzing[q] = None
    BY <1>3 DEF AnalyzeDecide, New, batch
  <2>6. Pool' = Pool \cup {row}
    <3>1. Pending' = Pending \cup {row}
      BY <1>1, <2>2, <2>4, <2>5, AskedPending, Constants DEF IInv
    <3> QED
      BY <2>5, <3>1 DEF Pool
  <2> QED
    BY <2>4, <2>5, <2>6, RequestCopies
<1>4. ASSUME NEW q \in Requests, AnalyzeCommit(q) PROVE CopyInv'
  <2>1. PICK row : row = analyzing[q]
    OBVIOUS
  <2>2. /\ reviews' = reviews \cup {row} /\ UNCHANGED <<batch, chunk>> /\ row # None
        /\ analyzing' = [analyzing EXCEPT ![q] = None]
    BY <1>4, <2>1 DEF AnalyzeCommit, batch
  <2>3. row \in Pool /\ row.id[1] = q /\ q \notin Tasks
    BY <1>1, <2>1, <2>2, PoolType, RequestIds, Constants DEF IInv, OwnIds, Pool
  <2>4. Pool' \subseteq Pool
    <3>1. Pending' \subseteq Pending
      BY <1>1, <2>2, AskedPending DEF IInv
    <3> QED
      BY <2>2, <2>3, <3>1 DEF Pool
  <2> QED
    BY <2>2, <2>3, <2>4, RequestCopies
<1>5. ASSUME NEW q \in Requests, PromoteRead(q) PROVE CopyInv'
  <2>1. UNCHANGED <<reviews, analyzing, batch, chunk>>
    BY <1>5 DEF PromoteRead, batch
  <2>2. Pool' = Pool
    BY <2>1 DEF Pool, Pending, Rows, Asked
  <2> QED
    BY <2>1, <2>2, RequestCopies
<1>6. ASSUME NEW q \in Requests, RequestFails(q) PROVE CopyInv'
  <2>1. UNCHANGED <<reviews, batch, chunk>> /\ analyzing' = [analyzing EXCEPT ![q] = None]
    BY <1>6 DEF RequestFails, batch
  <2>2. Pool' \subseteq Pool
    <3>1. Pending' \subseteq Pending
      BY <1>1, <2>1, AskedPending DEF IInv
    <3> QED
      BY <2>1, <3>1 DEF Pool
  <2> QED
    BY <2>1, <2>2, RequestCopies
<1>7. ASSUME NEW q \in Requests, PromoteCommit(q) PROVE CopyInv'
  <2>1. PICK p \in Review, id \in Ids, t0 \in Ticket : Promotion(q, p, id, t0)
    BY <1>7, PromoteCommits
  <2>2. UNCHANGED batch
    BY <1>7 DEF PromoteCommit
  <2>3. Pending' = Pending
    BY <2>1 DEF Promotion, Pending, Rows, Asked
  <2>4. \A s \in reviews' : \E r \in reviews : s.id = r.id /\ s.text = r.text /\ s.kind = r.kind
    BY <2>1 DEF Promotion
  <2>5. \A r \in reviews : \E s \in reviews' : s.id = r.id /\ s.text = r.text /\ s.kind = r.kind
    BY <2>1 DEF Promotion
  <2>6. \A r \in Pool' : r.kind = "copy" => \E s \in Pool : s.id = r.id /\ s.kind = "copy"
    BY <2>3, <2>4 DEF Pool
  <2> QED
    BY <2>2, <2>4, <2>5, <2>6, RequestCopies
<1>8. ASSUME NEW t \in Tasks, BatchRow(t) \/ BatchCommit(t) PROVE CopyInv'
  BY <1>1, <1>8, RowCopies, CommitCopies
<1>9. CASE (\E t \in Tasks : ProgressRead(t) \/ ProgressWrite(t) \/ ChunkFails(t)) \/ RunEnds
  BY <1>9, LossCopies
<1> QED
  BY <1>2, <1>3, <1>4, <1>5, <1>6, <1>7, <1>8, <1>9 DEF Next

\* A stored copy has an original of the same file, or its text is in the job's
\* error list; with parallel chunks it may be one whose original a chunk of its
\* own run has yet to commit, or has rolled back.
THEOREM CopiesAreCopies == Spec => []CopiesHaveOriginal
<1>1. Init => InOrder /\ CopyInv
  <2> SUFFICES ASSUME Init PROVE InOrder /\ CopyInv
    OBVIOUS
  <2>1. NoChunk.pc = "idle" /\ NoChunk.rows = {} /\ NoChunk.bad = {}
    BY DEF NoChunk
  <2>2. Originals(NoChunk) = {}
    BY <2>1 DEF Originals
  <2>3. Pool = {} /\ reviews = {}
    BY <2>1 DEF Init, Pool, Pending, Rows, Asked
  <2>4. run = 0 /\ going = {0} /\ undone = {} /\ \A t \in Tasks : chunk[t] = NoChunk
    BY DEF Init
  <2>5. InOrder
    BY <2>1, <2>2, <2>4 DEF InOrder
  <2>6. CopyInv
    BY <2>3 DEF Init, CopyInv
  <2> QED
    BY <2>5, <2>6
<1>2. IInv /\ CopyInv => CopiesHaveOriginal
  <2> SUFFICES ASSUME IInv, CopyInv, NEW c \in reviews, c.kind = "copy", ~ Stored(c.text)
               PROVE  /\ Parallel
                      /\ \/ <<c.id[1][1], c.text>> \in undone
                         \/ \E t \in Tasks : t[1] = c.id[1][1] /\ c.text \in Originals(chunk[t])
    BY DEF CopiesHaveOriginal, Stored
  <2>1. c.id[1] \in Tasks /\ c \in Pool
    BY DEF CopyInv, Pool
  <2>2. c.id[1][1] \in Runs /\ c.text \in seen[c.id[1][1]]
    BY <2>1, Constants DEF IInv, RunOnce
  <2> QED
    BY <2>2 DEF CopyInv, Met
<1>3. IInv /\ IInv' /\ InOrder /\ CopyInv /\ [Next]_vars => InOrder' /\ CopyInv'
  BY OrderStep, CopiesStep DEF IInv
<1> QED
  BY <1>1, <1>2, <1>3, Inductive, PTL DEF Spec
=============================================================================

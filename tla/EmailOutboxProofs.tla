------------------------- MODULE EmailOutboxProofs -------------------------
(***************************************************************************)
(* Theorems about EmailOutbox, for any tickets, any number of overlapping  *)
(* ticks and scans, and any number of crashes and failed commits.          *)
(***************************************************************************)
EXTENDS EmailOutbox, TLAPS

Row == [status : {"absent", "pending", "sent", "failed"}, attempts : 0..MaxAttempts]
Tick == [pc : {"idle", "next", "send", "sent", "failed"},
         ids : Seq(Rows), seen : 0..MaxAttempts]
Scan == [pc : {"idle", "check", "insert"}, hits : SUBSET Tickets]

\* A tick holds the row it works on, and has read it while it was pending.
Holds(x, rows, acc) ==
    /\ x.pc # "idle" => x.ids # <<>>
    /\ x.pc \in {"send", "sent", "failed"} =>
         /\ rows[Head(x.ids)].status # "absent"
         /\ x.seen < MaxAttempts
    /\ x.pc = "sent" => Head(x.ids) \in acc

TickInv == \A d \in Ticks : Holds(tick[d], outbox, accepted)

ScanInv == \A s \in Scans : scan[s].pc # "idle" => scan[s].hits # {}

RowInv ==
    \A id \in Rows :
        /\ Pending(id) => outbox[id].attempts < MaxAttempts
        /\ outbox[id].status = "absent" => tries[id] = 0
        /\ outbox[id].status = "sent" => id \in accepted

TicketInv ==
    \A t \in Tickets : ticket[t].state = "none" => outbox[t].status = "absent"

\* The SMTP exchange of a row is over and not recorded yet.
Tried(d, id) == tick[d].pc \in {"sent", "failed"} /\ Current(d) = id

\* A row no two ticks have worked on at once is worked on by one tick that
\* knows its attempts, and every exchange but the last is recorded or was
\* lost to a fault.
CleanRow(id) ==
    /\ \A d \in Ticks :
         Working(d, id) => Pending(id) /\ tick[d].seen = outbox[id].attempts
    /\ \A d, e \in Ticks : Working(d, id) /\ Working(e, id) => d = e
    /\ outbox[id].status = "sent" => outbox[id].attempts < MaxAttempts
    /\ tries[id] <= outbox[id].attempts + faults + 1
    /\ tries[id] > outbox[id].attempts + faults =>
         outbox[id].status = "sent" \/ \E d \in Ticks : Tried(d, id)

CleanInv == \A id \in Rows \ contested : CleanRow(id)

IInv == TypeOK /\ TickInv /\ ScanInv /\ RowInv /\ TicketInv /\ CleanInv
-----------------------------------------------------------------------------
LEMMA WithoutTyped ==
    ASSUME NEW q \in Seq(Rows), NEW id \in Rows
    PROVE  Without(q, id) \in Seq(Rows)
<1>1. CASE Contains(q, id)
  <2>1. PICK i \in 1..Len(q) : q[i] = id
    BY <1>1 DEF Contains
  <2> DEFINE i0 == CHOOSE j \in 1..Len(q) : q[j] = id
  <2>2. i0 \in 1..Len(q)
    BY <2>1
  <2> HIDE DEF i0
  <2>3. /\ SubSeq(q, 1, i0 - 1) \in Seq(Rows)
        /\ SubSeq(q, i0 + 1, Len(q)) \in Seq(Rows)
    BY <2>2
  <2>4. Without(q, id) = RemoveAt(q, i0)
    BY <1>1 DEF Without, i0
  <2> QED
    BY <2>3, <2>4 DEF RemoveAt
<1>2. CASE ~ Contains(q, id)
  BY <1>2 DEF Without
<1> QED
  BY <1>1, <1>2

LEMMA TailNonEmpty ==
    ASSUME NEW q \in Seq(Rows), Len(q) # 0, Len(q) # 1
    PROVE  Tail(q) \in Seq(Rows) /\ Tail(q) # <<>>
<1>1. q # <<>> /\ Len(q) \in Nat
  OBVIOUS
<1>2. Tail(q) \in Seq(Rows) /\ Len(Tail(q)) = Len(q) - 1
  BY <1>1
<1>3. Len(Tail(q)) # Len(<<>>)
  BY <1>1, <1>2
<1> QED
  BY <1>2, <1>3

LEMMA Blank ==
    /\ Absent \in Row /\ Queued \in Row
    /\ Absent.status = "absent" /\ Queued.status = "pending"
    /\ Absent.attempts = 0 /\ Queued.attempts = 0
    /\ NoTick \in Tick /\ NoTick.pc = "idle"
    /\ NoScan \in Scan /\ NoScan.pc = "idle" /\ NoScan.hits = {}
BY OutboxAssumption DEF Absent, Queued, NoTick, NoScan, Row, Tick, Scan

LEMMA AtNext ==
    ASSUME NEW q
    PROVE  [NoTick EXCEPT !.pc = "next", !.ids = q]
              = [pc |-> "next", ids |-> q, seen |-> 0]
<1> DEFINE v == [NoTick EXCEPT !.pc = "next"]
<1>1. v = [pc |-> "next", ids |-> <<>>, seen |-> 0]
  BY DEF NoTick
<1> HIDE DEF v
<1>2. [NoTick EXCEPT !.pc = "next", !.ids = q] = [v EXCEPT !.ids = q]
  BY Zenon DEF v
<1> QED
  BY <1>1, <1>2

\* A tick that goes on from a row is idle or before its next row.
LEMMA Advanced ==
    ASSUME tick \in [Ticks -> Tick], NEW d \in Ticks, tick[d].pc # "idle",
           tick[d].ids # <<>>, Advance(d)
    PROVE  /\ tick' \in [Ticks -> Tick]
           /\ tick'[d].pc \in {"idle", "next"}
           /\ tick'[d].pc # "idle" => tick'[d].ids # <<>>
           /\ \A e \in Ticks \ {d} : tick'[e] = tick[e]
<1> DEFINE w == IF Len(tick[d].ids) = 1 THEN NoTick
                ELSE [NoTick EXCEPT !.pc = "next", !.ids = Tail(tick[d].ids)]
<1>1. tick' = [tick EXCEPT ![d] = w]
  BY DEF Advance
<1>2. tick[d].ids \in Seq(Rows)
  BY DEF Tick
<1>3. Len(tick[d].ids) \in Nat /\ Len(tick[d].ids) # 0
  BY <1>2
<1>4. /\ w \in Tick
      /\ w.pc \in {"idle", "next"}
      /\ w.pc # "idle" => w.ids # <<>>
  <2>1. CASE Len(tick[d].ids) = 1
    BY <2>1, Blank
  <2>2. CASE Len(tick[d].ids) # 1
    <3>1. Tail(tick[d].ids) \in Seq(Rows) /\ Tail(tick[d].ids) # <<>>
      BY <1>2, <1>3, <2>2, TailNonEmpty
    <3>2. w = [pc |-> "next", ids |-> Tail(tick[d].ids), seen |-> 0]
      BY <2>2 DEF NoTick
    <3>3. 0 \in 0..MaxAttempts
      BY OutboxAssumption
    <3> HIDE DEF w
    <3> QED
      BY <3>1, <3>2, <3>3 DEF Tick
  <2> QED
    BY <2>1, <2>2
<1> HIDE DEF w
<1> QED
  BY <1>1, <1>4
-----------------------------------------------------------------------------
LEMMA Typing ==
    TypeOK <=> /\ outbox \in [Rows -> Row]
               /\ due \in Seq(Rows)
               /\ ticket \in [Tickets -> [state : {"none", "active", "other"},
                                          late : BOOLEAN]]
               /\ tick \in [Ticks -> Tick]
               /\ scan \in [Scans -> Scan]
               /\ tries \in [Rows -> 0..MaxTries]
               /\ accepted \subseteq Rows
               /\ contested \subseteq Rows
               /\ faults \in 0..MaxFaults
BY DEF TypeOK, Row, Tick, Scan

LEMMA TypingNext ==
    TypeOK' <=> /\ outbox' \in [Rows -> Row]
                /\ due' \in Seq(Rows)
                /\ ticket' \in [Tickets -> [state : {"none", "active", "other"},
                                            late : BOOLEAN]]
                /\ tick' \in [Ticks -> Tick]
                /\ scan' \in [Scans -> Scan]
                /\ tries' \in [Rows -> 0..MaxTries]
                /\ accepted' \subseteq Rows
                /\ contested' \subseteq Rows
                /\ faults' \in 0..MaxFaults
BY DEF TypeOK, Row, Tick, Scan

LEMMA InitInv == Init => IInv
<1> SUFFICES ASSUME Init PROVE IInv
  OBVIOUS
<1>1. /\ \A id \in Rows : outbox[id] = Absent /\ tries[id] = 0
      /\ \A d \in Ticks : tick[d] = NoTick
      /\ \A s \in Scans : scan[s] = NoScan
      /\ contested = {} /\ faults = 0 /\ MaxFaults \in Nat /\ MaxTries \in Nat
  BY OutboxAssumption DEF Init, MaxTries
<1>2. TypeOK
  <2>1. outbox \in [Rows -> Row] /\ tick \in [Ticks -> Tick] /\ scan \in [Scans -> Scan]
    BY Blank DEF Init
  <2>2. /\ due \in Seq(Rows)
        /\ ticket \in [Tickets -> [state : {"none", "active", "other"}, late : BOOLEAN]]
        /\ tries \in [Rows -> 0..MaxTries]
        /\ accepted \subseteq Rows /\ contested \subseteq Rows
        /\ faults \in 0..MaxFaults
    BY <1>1 DEF Init
  <2> QED
    BY <2>1, <2>2, Typing
<1>3. TickInv /\ ScanInv
  BY <1>1, Blank DEF TickInv, Holds, ScanInv
<1>4. RowInv
  BY <1>1, Blank DEF RowInv, Pending
<1>5. TicketInv
  BY <1>1, Blank DEF TicketInv, Rows
<1>6. CleanInv
  <2> SUFFICES ASSUME NEW id \in Rows PROVE CleanRow(id)
    BY DEF CleanInv
  <2>1. outbox[id] = Absent /\ tries[id] = 0 /\ \A d \in Ticks : ~ Working(d, id)
    BY <1>1, Blank DEF Working
  <2> QED
    BY <1>1, <2>1, Blank DEF CleanRow
<1> QED
  BY <1>2, <1>3, <1>4, <1>5, <1>6 DEF IInv

\* Ticks go on to a next row or end, and no mail row changes: what they had in
\* hand was recorded, not begun, or lost to the fault that is counted.
LEMMA TicksLeave ==
    ASSUME IInv, UNCHANGED <<outbox, tries, accepted, contested>>,
           \A e \in Ticks :
              \/ tick'[e] = tick[e]
              \/ /\ tick'[e].pc \in {"idle", "next"}
                 /\ tick'[e].pc # "idle" => tick'[e].ids # <<>>,
           \/ /\ faults' = faults
              /\ \A e \in Ticks : tick[e].pc \in {"sent", "failed"} => tick'[e] = tick[e]
           \/ faults' = faults + 1
    PROVE  TickInv' /\ RowInv' /\ CleanInv'
<1> USE DEF IInv
<1>1. TickInv'
  BY DEF TickInv, Holds
<1>2. RowInv'
  BY DEF RowInv, Pending
<1>3. CleanInv'
  <2> SUFFICES ASSUME NEW id \in Rows \ contested PROVE CleanRow(id)'
    BY DEF CleanInv
  <2>1. CleanRow(id)
    BY DEF CleanInv
  <2>2. \A d \in Ticks : Working(d, id)' => Working(d, id) /\ tick'[d] = tick[d]
    BY DEF Working, Current
  <2>3. /\ \A d \in Ticks :
             Working(d, id)' => Pending(id)' /\ tick'[d].seen = outbox'[id].attempts
        /\ \A d, e \in Ticks : Working(d, id)' /\ Working(e, id)' => d = e
        /\ outbox'[id].status = "sent" => outbox'[id].attempts < MaxAttempts
    BY <2>1, <2>2 DEF CleanRow, Pending
  <2>4. /\ tries[id] \in Nat /\ outbox[id].attempts \in Nat /\ faults \in Nat
    BY Typing, OutboxAssumption DEF Row, MaxTries
  <2>5. CASE faults' = faults + 1
    <3>1. /\ tries'[id] <= outbox'[id].attempts + faults' + 1
          /\ ~ tries'[id] > outbox'[id].attempts + faults'
      BY <2>1, <2>4, <2>5 DEF CleanRow
    <3> QED
      BY <2>3, <3>1 DEF CleanRow
  <2>6. CASE /\ faults' = faults
             /\ \A e \in Ticks : tick[e].pc \in {"sent", "failed"} => tick'[e] = tick[e]
    <3>1. \A d \in Ticks : Tried(d, id) => Tried(d, id)'
      BY <2>6 DEF Tried, Current
    <3>2. /\ tries'[id] <= outbox'[id].attempts + faults' + 1
          /\ tries'[id] > outbox'[id].attempts + faults' =>
               outbox'[id].status = "sent" \/ \E d \in Ticks : Tried(d, id)'
      BY <2>1, <2>6, <3>1 DEF CleanRow
    <3> QED
      BY <2>3, <3>2 DEF CleanRow
  <2> QED
    BY <2>5, <2>6
<1> QED
  BY <1>1, <1>2, <1>3

\* A new row disturbs no other, and no tick can hold it yet.
LEMMA Enqueued ==
    ASSUME IInv, NEW r \in Rows, outbox[r].status = "absent", Enqueue(r),
           UNCHANGED <<tick, faults>>
    PROVE  /\ outbox' \in [Rows -> Row] /\ due' \in Seq(Rows)
           /\ TickInv' /\ RowInv' /\ CleanInv'
<1> USE DEF IInv
<1>1. /\ outbox' = [outbox EXCEPT ![r] = Queued]
      /\ outbox \in [Rows -> Row] /\ due \in Seq(Rows)
      /\ tries' = tries /\ accepted' = accepted /\ contested' = contested
  BY Typing DEF Enqueue
<1>2. outbox' \in [Rows -> Row]
  BY <1>1, Blank
<1>3. due' \in Seq(Rows)
  BY <1>1 DEF Enqueue
<1>4. \A id \in Rows : outbox'[id] = IF id = r THEN Queued ELSE outbox[id]
  BY <1>1
<1>5. ASSUME NEW d \in Ticks, tick[d].pc \in {"send", "sent", "failed"}
      PROVE  Current(d) # r
  BY <1>5 DEF TickInv, Holds, Current
<1>6. TickInv'
  <2>1. ASSUME NEW d \in Ticks, tick[d].pc \in {"send", "sent", "failed"}
        PROVE  outbox'[Head(tick[d].ids)].status # "absent"
    BY <1>1, <1>5, <2>1 DEF TickInv, Holds, Current
  <2> QED
    BY <1>1, <2>1 DEF TickInv, Holds
<1>7. RowInv'
  BY <1>1, <1>4, Blank, OutboxAssumption DEF RowInv, Pending
<1>8. CleanInv'
  <2> SUFFICES ASSUME NEW id \in Rows \ contested PROVE CleanRow(id)'
    BY <1>1 DEF CleanInv
  <2>1. CASE id = r
    <3>1. outbox'[id] = Queued /\ tries'[id] = 0 /\ faults' \in Nat
      BY <1>1, <1>4, <2>1, Typing, OutboxAssumption DEF RowInv
    <3>2. \A d \in Ticks : ~ Working(d, id)'
      BY <1>5, <2>1 DEF Working, Current
    <3> QED
      BY <3>1, <3>2, Blank DEF CleanRow
  <2>2. CASE id # r
    <3>1. outbox'[id] = outbox[id] /\ tries'[id] = tries[id] /\ faults' = faults
      BY <1>1, <1>4, <2>2
    <3>2. CleanRow(id)
      BY DEF CleanInv
    <3> QED
      BY <3>1, <3>2 DEF CleanRow, Working, Pending, Tried, Current
  <2> QED
    BY <2>1, <2>2
<1> QED
  BY <1>2, <1>3, <1>6, <1>7, <1>8

\* The reading tick knows the attempts of its row; if another tick has the row
\* in hand, the row is contested from now on.
LEMMA ReadRowStep == ASSUME IInv, NEW d \in Ticks, ReadRow(d) PROVE IInv'
<1> USE DEF IInv
<1> DEFINE id == Current(d)
<1>1. /\ tick[d].pc = "next" /\ tick[d].ids # <<>> /\ tick[d] \in Tick
      /\ UNCHANGED <<outbox, due, ticket, scan, tries, accepted, faults>>
  BY Typing DEF ReadRow, TickInv, Holds
<1>2. id \in Rows
  <2>1. tick[d].ids \in Seq(Rows)
    BY <1>1 DEF Tick
  <2> QED
    BY <1>1, <2>1 DEF Current
<1>3. ScanInv' /\ TicketInv'
  BY <1>1 DEF ScanInv, TicketInv
<1>4. CASE ~ Pending(id)
  <2>1. Advance(d) /\ contested' = contested
    BY <1>4 DEF ReadRow, StillPending
  <2>2. /\ tick' \in [Ticks -> Tick]
        /\ tick'[d].pc \in {"idle", "next"}
        /\ tick'[d].pc # "idle" => tick'[d].ids # <<>>
        /\ \A e \in Ticks \ {d} : tick'[e] = tick[e]
    BY <1>1, <2>1, Typing, Advanced
  <2>3. TickInv' /\ RowInv' /\ CleanInv'
    BY <1>1, <2>1, <2>2, TicksLeave
  <2> QED
    BY <1>1, <1>3, <2>1, <2>2, <2>3, Typing, TypingNext
<1>5. CASE Pending(id)
  <2> DEFINE w == [tick[d] EXCEPT !.pc = "send", !.seen = outbox[id].attempts]
  <2>1. /\ tick' = [tick EXCEPT ![d] = w]
        /\ contested' = IF \E e \in Ticks \ {d} : Working(e, id)
                        THEN contested \cup {id} ELSE contested
    BY <1>5, Zenon DEF ReadRow, StillPending
  <2>2. w = [pc |-> "send", ids |-> tick[d].ids, seen |-> outbox[id].attempts]
    <3> DEFINE v == [tick[d] EXCEPT !.pc = "send"]
               n == outbox[id].attempts
    <3>1. v = [pc |-> "send", ids |-> tick[d].ids, seen |-> tick[d].seen]
      BY <1>1 DEF Tick
    <3> HIDE DEF v, n
    <3>2. w = [v EXCEPT !.seen = n]
      BY Zenon DEF v, n
    <3>3. [v EXCEPT !.seen = n] = [pc |-> "send", ids |-> tick[d].ids, seen |-> n]
      BY <3>1
    <3> QED
      BY <3>2, <3>3 DEF n
  <2>3. outbox[id] \in Row /\ outbox[id].attempts < MaxAttempts
    BY <1>2, <1>5, Typing DEF RowInv
  <2>4. outbox[id].attempts \in 0..MaxAttempts
    BY <2>3 DEF Row
  <2>5. w \in Tick
    BY <1>1, <2>2, <2>4 DEF Tick
  <2>6. /\ w.pc = "send" /\ w.ids = tick[d].ids /\ w.seen = outbox[id].attempts
    BY <2>2
  <2> HIDE DEF w
  <2>7. \A e \in Ticks : tick'[e] = IF e = d THEN w ELSE tick[e]
    BY <2>1, Typing
  <2>8. TypeOK'
    <3>1. tick' \in [Ticks -> Tick]
      BY <2>1, <2>5, Typing
    <3>2. contested' \subseteq Rows
      BY <1>2, <2>1, Typing
    <3> QED
      BY <1>1, <3>1, <3>2, Typing, TypingNext
  <2>9. TickInv'
    <3>1. Holds(w, outbox, accepted)
      BY <1>1, <1>5, <2>3, <2>6 DEF Holds, Pending, Current
    <3> QED
      BY <1>1, <2>7, <3>1 DEF TickInv
  <2>10. RowInv'
    BY <1>1 DEF RowInv, Pending
  <2>11. CleanInv'
    <3> SUFFICES ASSUME NEW r \in Rows \ contested' PROVE CleanRow(r)'
      BY DEF CleanInv
    <3>1. r \notin contested /\ CleanRow(r)
      BY <2>1 DEF CleanInv
    <3>2. \A e \in Ticks \ {d} : /\ Working(e, r)' <=> Working(e, r)
                                 /\ tick'[e].seen = tick[e].seen
      BY <2>7 DEF Working, Current
    <3>3. ~ Working(d, r) /\ (Working(d, r)' <=> r = id)
      BY <1>1, <2>6, <2>7 DEF Working, Current
    <3>4. \A e \in Ticks : Tried(e, r) => Tried(e, r)'
      BY <1>1, <2>7 DEF Tried, Current
    <3>5. r = id => \A e \in Ticks \ {d} : ~ Working(e, r)
      BY <2>1
    <3>6. /\ tries'[r] <= outbox'[r].attempts + faults' + 1
          /\ tries'[r] > outbox'[r].attempts + faults' =>
               outbox'[r].status = "sent" \/ \E e \in Ticks : Tried(e, r)'
          /\ outbox'[r].status = "sent" => outbox'[r].attempts < MaxAttempts
      BY <1>1, <3>1, <3>4 DEF CleanRow
    <3>7. \A e \in Ticks :
             Working(e, r)' => Pending(r)' /\ tick'[e].seen = outbox'[r].attempts
      <4>1. CASE r = id
        <5>1. \A e \in Ticks : Working(e, r)' => e = d
          BY <3>2, <3>5, <4>1
        <5>2. Pending(r)' /\ tick'[d].seen = outbox'[r].attempts
          BY <1>1, <1>5, <2>6, <2>7, <4>1 DEF Pending
        <5> QED
          BY <5>1, <5>2
      <4>2. CASE r # id
        BY <1>1, <3>1, <3>2, <3>3, <4>2 DEF CleanRow, Pending
      <4> QED
        BY <4>1, <4>2
    <3>8. \A e, g \in Ticks : Working(e, r)' /\ Working(g, r)' => e = g
      <4>1. CASE r = id
        BY <3>2, <3>5, <4>1
      <4>2. CASE r # id
        BY <3>1, <3>2, <3>3, <4>2 DEF CleanRow
      <4> QED
        BY <4>1, <4>2
    <3> QED
      BY <3>6, <3>7, <3>8 DEF CleanRow
  <2> QED
    BY <1>3, <2>8, <2>9, <2>10, <2>11
<1> QED
  BY <1>4, <1>5

\* An SMTP exchange ends: one more try, which only this tick can have made if
\* the row is not contested.
LEMMA ExchangeStep ==
    ASSUME IInv, NEW d \in Ticks, tick[d].pc = "send", NEW pc \in {"sent", "failed"},
           tick' = [tick EXCEPT ![d].pc = pc],
           tries' = CountTry(Current(d)),
           accepted' \in {accepted, accepted \cup {Current(d)}},
           pc = "sent" => Current(d) \in accepted',
           UNCHANGED <<outbox, due, ticket, scan, contested, faults>>
    PROVE  IInv'
<1> USE DEF IInv
<1> DEFINE id == Current(d)
           w == [tick[d] EXCEPT !.pc = pc]
<1>1. /\ tick[d] \in Tick /\ tick[d].ids # <<>>
  BY Typing DEF TickInv, Holds
<1>2. id \in Rows
  <2>1. tick[d].ids \in Seq(Rows)
    BY <1>1 DEF Tick
  <2> QED
    BY <1>1, <2>1 DEF Current
<1>3. tick' = [tick EXCEPT ![d] = w]
  BY Zenon
<1>4. /\ w \in Tick /\ w.pc = pc /\ w.ids = tick[d].ids /\ w.seen = tick[d].seen
  BY <1>1 DEF Tick
<1> HIDE DEF w
<1>5. \A e \in Ticks : tick'[e] = IF e = d THEN w ELSE tick[e]
  BY <1>3, Typing
<1>6. /\ tries \in [Rows -> 0..MaxTries] /\ MaxTries \in Nat
      /\ accepted \subseteq Rows /\ accepted \subseteq accepted'
  BY Typing, OutboxAssumption DEF MaxTries
<1>7. \A r \in Rows : /\ tries'[r] \in 0..MaxTries
                      /\ r # id => tries'[r] = tries[r]
                      /\ tries'[r] <= tries[r] + 1
  BY <1>2, <1>6 DEF CountTry
<1>8. TypeOK'
  <2>1. tick' \in [Ticks -> Tick]
    BY <1>3, <1>4, Typing
  <2>2. tries' \in [Rows -> 0..MaxTries]
    BY <1>6, <1>7 DEF CountTry
  <2>3. accepted' \subseteq Rows
    BY <1>2, <1>6
  <2> QED
    BY <2>1, <2>2, <2>3, Typing, TypingNext
<1>9. TickInv'
  <2>1. Holds(w, outbox, accepted')
    BY <1>4 DEF TickInv, Holds, Current
  <2>2. \A e \in Ticks \ {d} : Holds(tick[e], outbox, accepted')
    BY <1>6 DEF TickInv, Holds
  <2> QED
    BY <1>5, <2>1, <2>2 DEF TickInv
<1>10. ScanInv' /\ TicketInv'
  BY DEF ScanInv, TicketInv
<1>11. RowInv'
  <2>1. outbox[id].status # "absent"
    BY DEF TickInv, Holds, Current
  <2> QED
    BY <1>6, <1>7, <2>1 DEF RowInv, Pending
<1>12. CleanInv'
  <2> SUFFICES ASSUME NEW r \in Rows \ contested PROVE CleanRow(r)'
    BY DEF CleanInv
  <2>1. CleanRow(r)
    BY DEF CleanInv
  <2>2. \A e \in Ticks : /\ Working(e, r)' <=> Working(e, r)
                         /\ tick'[e].seen = tick[e].seen
    BY <1>4, <1>5 DEF Working, Current
  <2>3. \A e \in Ticks : Tried(e, r) => Tried(e, r)'
    BY <1>4, <1>5 DEF Tried, Current
  <2>4. /\ \A e \in Ticks :
             Working(e, r)' => Pending(r)' /\ tick'[e].seen = outbox'[r].attempts
        /\ \A e, g \in Ticks : Working(e, r)' /\ Working(g, r)' => e = g
        /\ outbox'[r].status = "sent" => outbox'[r].attempts < MaxAttempts
    BY <2>1, <2>2 DEF CleanRow, Pending
  <2>5. CASE r = id
    <3>1. Working(d, r) /\ Tried(d, r)'
      BY <1>4, <1>5, <2>5 DEF Working, Tried, Current
    <3>2. ~ outbox[r].status = "sent" /\ \A e \in Ticks : ~ Tried(e, r)
      <4>1. \A e \in Ticks : Tried(e, r) => Working(e, r)
        BY DEF Tried, Working
      <4> QED
        BY <2>1, <3>1, <4>1 DEF CleanRow, Pending, Tried
    <3>3. /\ tries[r] \in Nat /\ outbox[r].attempts \in Nat /\ faults \in Nat
          /\ tries'[r] \in Nat /\ tries'[r] <= tries[r] + 1
      BY <1>7, Typing, OutboxAssumption DEF Row, MaxTries
    <3>4. tries[r] <= outbox[r].attempts + faults
      BY <2>1, <3>2, <3>3 DEF CleanRow
    <3>5. tries'[r] <= outbox'[r].attempts + faults' + 1
      BY <3>3, <3>4
    <3> QED
      BY <2>4, <3>1, <3>5 DEF CleanRow
  <2>6. CASE r # id
    <3>1. tries'[r] = tries[r]
      BY <1>7, <2>6
    <3> QED
      BY <2>1, <2>3, <2>4, <3>1 DEF CleanRow
  <2> QED
    BY <2>5, <2>6
<1> QED
  BY <1>8, <1>9, <1>10, <1>11, <1>12

\* What a tick records of its row: sent, or one more attempt, which is the
\* last for a row given up.  Nobody else had an uncontested row in hand.
LEMMA RecordStep ==
    ASSUME IInv, NEW d \in Ticks, tick[d].pc \in {"sent", "failed"},
           NEW row \in Row,
           outbox' = [outbox EXCEPT ![Current(d)] = row],
           \/ /\ tick[d].pc = "sent"
              /\ row.status = "sent" /\ row.attempts = outbox[Current(d)].attempts
           \/ /\ tick[d].pc = "failed"
              /\ row.attempts = tick[d].seen + 1
              /\ \/ row.status = outbox[Current(d)].status /\ row.attempts < MaxAttempts
                 \/ row.status = "failed",
           due' = Without(due, Current(d)), Advance(d),
           UNCHANGED <<ticket, scan, tries, accepted, contested, faults>>
    PROVE  IInv'
<1> USE DEF IInv
<1> DEFINE id == Current(d)
<1>1. /\ tick[d] \in Tick /\ tick[d].ids # <<>>
      /\ outbox[id].status # "absent" /\ tick[d].seen < MaxAttempts
      /\ tick[d].pc = "sent" => id \in accepted
  BY Typing DEF TickInv, Holds, Current
<1>2. id \in Rows
  <2>1. tick[d].ids \in Seq(Rows)
    BY <1>1 DEF Tick
  <2> QED
    BY <1>1, <2>1 DEF Current
<1>3. /\ tick' \in [Ticks -> Tick]
      /\ tick'[d].pc \in {"idle", "next"}
      /\ tick'[d].pc # "idle" => tick'[d].ids # <<>>
      /\ \A e \in Ticks \ {d} : tick'[e] = tick[e]
  BY <1>1, Typing, Advanced
<1>4. /\ outbox \in [Rows -> Row]
      /\ outbox' \in [Rows -> Row]
      /\ \A r \in Rows : outbox'[r] = IF r = id THEN row ELSE outbox[r]
  BY Typing
<1>5. TypeOK'
  <2>1. due' \in Seq(Rows)
    BY <1>2, WithoutTyped, Typing
  <2> QED
    BY <1>3, <1>4, <2>1, Typing, TypingNext
<1>6. row.status # "absent"
  BY <1>1
<1>7. TickInv'
  <2> SUFFICES ASSUME NEW e \in Ticks PROVE Holds(tick[e], outbox, accepted)'
    BY DEF TickInv
  <2>1. CASE e = d
    BY <1>3, <2>1 DEF Holds
  <2>2. CASE e # d
    <3>1. tick'[e] = tick[e] /\ Holds(tick[e], outbox, accepted)
      BY <1>3, <2>2 DEF TickInv
    <3>2. tick[e].pc \in {"send", "sent", "failed"} =>
             outbox'[Head(tick[e].ids)].status # "absent"
      <4>1. CASE Head(tick[e].ids) = id
        BY <1>2, <1>4, <1>6, <4>1
      <4>2. CASE Head(tick[e].ids) # id
        BY <3>1, <4>2 DEF Holds
      <4> QED
        BY <4>1, <4>2
    <3> QED
      BY <3>1, <3>2 DEF Holds
  <2> QED
    BY <2>1, <2>2
<1>8. ScanInv'
  BY DEF ScanInv
<1>9. TicketInv'
  <2>1. \A t \in Tickets : t \in Rows
    BY DEF Rows
  <2> QED
    BY <1>1, <1>4, <2>1 DEF TicketInv
<1>10. RowInv'
  <2> SUFFICES ASSUME NEW r \in Rows
               PROVE  /\ outbox'[r].status = "pending" => outbox'[r].attempts < MaxAttempts
                      /\ outbox'[r].status = "absent" => tries[r] = 0
                      /\ outbox'[r].status = "sent" => r \in accepted
    BY DEF RowInv, Pending
  <2>1. CASE r = id
    <3>1. outbox'[r] = row
      BY <1>4, <2>1
    <3> QED
      BY <1>1, <1>6, <2>1, <3>1 DEF RowInv, Pending
  <2>2. CASE r # id
    BY <1>4, <2>2 DEF RowInv, Pending
  <2> QED
    BY <2>1, <2>2
<1>11. CleanInv'
  <2> SUFFICES ASSUME NEW r \in Rows \ contested PROVE CleanRow(r)'
    BY DEF CleanInv
  <2>1. CleanRow(r)
    BY DEF CleanInv
  <2>2. \A e \in Ticks : Working(e, r)' => e # d /\ Working(e, r) /\ tick'[e] = tick[e]
    BY <1>3 DEF Working, Current
  <2>3. CASE r = id
    <3>1. Working(d, r) /\ outbox'[r] = row
      BY <1>4, <2>3 DEF Working
    <3>2. \A e \in Ticks : ~ Working(e, r)'
      BY <2>1, <2>2, <3>1 DEF CleanRow
    <3>3. /\ Pending(r) /\ tick[d].seen = outbox[r].attempts
          /\ tries[r] <= outbox[r].attempts + faults + 1
      BY <2>1, <3>1 DEF CleanRow
    <3>4. outbox[r].attempts < MaxAttempts
      BY <3>3 DEF RowInv
    <3>5. /\ tries[r] \in Nat /\ outbox[r].attempts \in Nat /\ faults \in Nat
          /\ row.attempts \in Nat
      BY Typing, OutboxAssumption DEF Row, MaxTries
    <3>6. \/ row.status = "sent" /\ row.attempts = outbox[r].attempts
          \/ row.attempts = outbox[r].attempts + 1 /\ row.status # "sent"
      BY <2>3, <3>3 DEF Pending
    <3>7. /\ tries'[r] <= outbox'[r].attempts + faults' + 1
          /\ tries'[r] > outbox'[r].attempts + faults' => outbox'[r].status = "sent"
          /\ outbox'[r].status = "sent" => outbox'[r].attempts < MaxAttempts
      BY <3>1, <3>3, <3>4, <3>5, <3>6
    <3> QED
      BY <3>2, <3>7 DEF CleanRow
  <2>4. CASE r # id
    <3>1. outbox'[r] = outbox[r]
      BY <1>4, <2>4
    <3>2. \A e \in Ticks : Tried(e, r) => Tried(e, r)'
      BY <1>3, <2>4 DEF Tried, Current
    <3>3. \A e \in Ticks :
             Working(e, r)' => Pending(r)' /\ tick'[e].seen = outbox'[r].attempts
      BY <2>1, <2>2, <3>1 DEF CleanRow, Pending
    <3>4. \A e, g \in Ticks : Working(e, r)' /\ Working(g, r)' => e = g
      BY <2>1, <2>2 DEF CleanRow
    <3>5. /\ tries'[r] <= outbox'[r].attempts + faults' + 1
          /\ tries'[r] > outbox'[r].attempts + faults' =>
               outbox'[r].status = "sent" \/ \E e \in Ticks : Tried(e, r)'
          /\ outbox'[r].status = "sent" => outbox'[r].attempts < MaxAttempts
      BY <2>1, <3>1, <3>2 DEF CleanRow
    <3> QED
      BY <3>3, <3>4, <3>5 DEF CleanRow
  <2> QED
    BY <2>3, <2>4
<1> QED
  BY <1>5, <1>7, <1>8, <1>9, <1>10, <1>11

\* A scan goes on to its next hit or ends.
LEMMA NextHitTyped ==
    ASSUME scan \in [Scans -> Scan], ScanInv, NEW s \in Scans, NEW t, NextHit(s, t)
    PROVE  scan' \in [Scans -> Scan] /\ ScanInv'
<1> DEFINE rest == scan[s].hits \ {t}
           w == IF rest = {} THEN NoScan ELSE [pc |-> "check", hits |-> rest]
<1>1. scan' = [scan EXCEPT ![s] = w]
  BY DEF NextHit
<1>2. scan[s].hits \in SUBSET Tickets
  BY DEF Scan
<1>3. w \in Scan /\ (w.pc # "idle" => w.hits # {})
  BY <1>2, Blank DEF Scan
<1> HIDE DEF w
<1> QED
  BY <1>1, <1>3 DEF ScanInv
-----------------------------------------------------------------------------
LEMMA TickStepInv ==
    ASSUME IInv, NEW d \in Ticks, TickStep(d) \/ RecordRaises(d) PROVE IInv'
<1> USE DEF IInv
<1>1. CASE DispatchScan(d)
  <2> DEFINE n == IF Len(due) < Limit THEN Len(due) ELSE Limit
             q == SubSeq(due, 1, n)
             w == [NoTick EXCEPT !.pc = "next", !.ids = q]
  <2>1. /\ tick[d].pc = "idle" /\ due # <<>>
        /\ tick' = [tick EXCEPT ![d] = w]
        /\ UNCHANGED <<outbox, due, tries, accepted, contested, ticket, scan, faults>>
    BY <1>1 DEF DispatchScan, mailVars
  <2>2. due \in Seq(Rows) /\ Len(due) \in Nat /\ Len(due) # 0
    BY <2>1, Typing
  <2>3. n \in 1..Len(due)
    BY <2>2, OutboxAssumption
  <2> HIDE DEF n
  <2>4. q \in Seq(Rows) /\ Len(q) = n
    BY <2>2, <2>3
  <2>5. q # <<>>
    BY <2>3, <2>4
  <2> HIDE DEF q
  <2>6. w = [pc |-> "next", ids |-> q, seen |-> 0]
    BY AtNext
  <2> HIDE DEF w
  <2>7. w \in Tick /\ w.pc = "next" /\ w.ids # <<>>
    <3>1. 0 \in 0..MaxAttempts
      BY OutboxAssumption
    <3> QED
      BY <2>4, <2>5, <2>6, <3>1 DEF Tick
  <2>8. \A e \in Ticks : tick'[e] = IF e = d THEN w ELSE tick[e]
    BY <2>1, Typing
  <2>9. TypeOK'
    BY <2>1, <2>7, Typing, TypingNext
  <2>10. TickInv' /\ RowInv' /\ CleanInv'
    BY <2>1, <2>7, <2>8, TicksLeave
  <2> QED
    BY <2>1, <2>9, <2>10 DEF ScanInv, TicketInv
<1>2. CASE ReadRow(d)
  BY <1>2, ReadRowStep
<1>3. CASE SendAccepted(d)
  BY <1>3, ExchangeStep DEF SendAccepted
<1>4. CASE SendRaises(d)
  BY <1>4, ExchangeStep DEF SendRaises
<1>5. ASSUME tick[d].pc # "idle" PROVE Current(d) \in Rows
  <2>1. tick[d] \in Tick /\ tick[d].ids # <<>>
    BY <1>5, Typing DEF TickInv, Holds
  <2> QED
    BY <2>1 DEF Tick, Current
<1>6. CASE RecordSent(d)
  <2> DEFINE id == Current(d)
             row == [outbox[id] EXCEPT !.status = "sent"]
  <2>1. id \in Rows
    BY <1>5, <1>6 DEF RecordSent
  <2>2. outbox' = [outbox EXCEPT ![id] = row]
    BY <1>6, Zenon DEF RecordSent
  <2>3. /\ row \in Row /\ row.status = "sent" /\ row.attempts = outbox[id].attempts
    BY <2>1, Typing DEF Row
  <2> HIDE DEF row
  <2> QED
    BY <1>6, <2>2, <2>3, RecordStep DEF RecordSent
<1>7. CASE RecordFailure(d)
  <2> DEFINE id == Current(d)
             n == tick[d].seen + 1
             st == IF n >= MaxAttempts THEN "failed" ELSE outbox[id].status
             row == [status |-> st, attempts |-> n]
  <2>1. id \in Rows /\ outbox[id] \in Row
    BY <1>5, <1>7, Typing DEF RecordFailure
  <2>2. outbox' = [outbox EXCEPT ![id] = row]
    <3> DEFINE v == [outbox EXCEPT ![id] = [outbox[id] EXCEPT !.attempts = n]]
    <3>1. outbox' = [v EXCEPT ![id] = [v[id] EXCEPT
                       !.status = IF n >= MaxAttempts THEN "failed" ELSE @]]
      BY <1>7, Zenon DEF RecordFailure, AttemptsAfter
    <3>2. v[id] = [status |-> outbox[id].status, attempts |-> n]
      BY <2>1, Typing DEF Row
    <3>3. [v[id] EXCEPT !.status = IF n >= MaxAttempts THEN "failed" ELSE @] = row
      BY <3>2
    <3>4. outbox' = [v EXCEPT ![id] = row]
      BY <3>1, <3>3
    <3> QED
      BY <3>4, Typing
  <2>3. tick[d].pc = "failed" /\ tick[d].seen \in 0..MaxAttempts /\ tick[d].seen < MaxAttempts
    <3>1. tick[d].pc = "failed" /\ tick[d] \in Tick
      BY <1>7, Typing DEF RecordFailure
    <3> QED
      BY <3>1 DEF TickInv, Holds, Tick
  <2>4. /\ row \in Row /\ row.attempts = tick[d].seen + 1
        /\ \/ row.status = outbox[id].status /\ row.attempts < MaxAttempts
           \/ row.status = "failed"
    <3>1. n \in 0..MaxAttempts /\ (n >= MaxAttempts \/ n < MaxAttempts)
      BY <2>3, OutboxAssumption
    <3>2. st \in {"absent", "pending", "sent", "failed"}
      BY <2>1 DEF Row
    <3> QED
      BY <3>1, <3>2 DEF Row
  <2> HIDE DEF row
  <2> QED
    BY <1>7, <2>2, <2>3, <2>4, RecordStep DEF RecordFailure
<1>8. CASE RecordRaises(d)
  <2>1. /\ tick[d].pc \in {"sent", "failed"} /\ faults < MaxFaults
        /\ faults' = faults + 1 /\ Advance(d)
        /\ UNCHANGED <<outbox, due, tries, accepted, contested, ticket, scan>>
    BY <1>8 DEF RecordRaises, mailVars
  <2>2. tick[d].ids # <<>>
    BY <2>1 DEF TickInv, Holds
  <2>3. /\ tick' \in [Ticks -> Tick]
        /\ tick'[d].pc \in {"idle", "next"}
        /\ tick'[d].pc # "idle" => tick'[d].ids # <<>>
        /\ \A e \in Ticks \ {d} : tick'[e] = tick[e]
    BY <2>1, <2>2, Typing, Advanced
  <2>4. faults' \in 0..MaxFaults
    BY <2>1, Typing, OutboxAssumption
  <2>5. TypeOK'
    BY <2>1, <2>3, <2>4, Typing, TypingNext
  <2>6. TickInv' /\ RowInv' /\ CleanInv'
    BY <2>1, <2>3, TicksLeave
  <2> QED
    BY <2>1, <2>5, <2>6 DEF ScanInv, TicketInv
<1> QED
  BY <1>1, <1>2, <1>3, <1>4, <1>6, <1>7, <1>8 DEF TickStep

\* A step that leaves the mail and the ticks alone.
LEMMA MailUntouched ==
    ASSUME IInv, UNCHANGED <<outbox, tries, accepted, contested, tick, faults>>
    PROVE  TickInv' /\ RowInv' /\ CleanInv'
<1>1. \A e \in Ticks : tick'[e] = tick[e]
  OBVIOUS
<1> QED
  BY <1>1, TicksLeave

LEMMA ScanStepInv ==
    ASSUME IInv, NEW s \in Scans, ScanStep(s) \/ InsertRaises(s) PROVE IInv'
<1> USE DEF IInv
<1>1. CASE BreachScan(s)
  <2> DEFINE hits == {t \in Tickets : Overdue(t) /\ ~ BreachSeen(t)}
             w == [pc |-> "check", hits |-> hits]
  <2>1. /\ scan' = [scan EXCEPT ![s] = w] /\ w.pc = "check" /\ w.hits = hits
        /\ hits # {} /\ hits \subseteq Tickets
        /\ UNCHANGED <<outbox, due, tries, accepted, contested, ticket, tick, faults>>
    BY <1>1 DEF BreachScan, mailVars
  <2> HIDE DEF hits
  <2>2. w \in Scan
    BY <2>1 DEF Scan
  <2> HIDE DEF w
  <2>3. scan' \in [Scans -> Scan] /\ ScanInv'
    BY <2>1, <2>2, Typing DEF ScanInv
  <2> QED
    BY <2>1, <2>3, MailUntouched, Typing, TypingNext DEF TicketInv
<1>2. CASE BreachCheck(s)
  <2>1. UNCHANGED <<outbox, due, tries, accepted, contested, ticket, tick, faults>>
    BY <1>2 DEF BreachCheck, mailVars
  <2>2. scan' \in [Scans -> Scan] /\ ScanInv'
    <3>1. CASE NextHit(s, Chosen(s))
      BY <3>1, NextHitTyped, Typing
    <3>2. CASE scan' = [scan EXCEPT ![s].pc = "insert"]
      <4> DEFINE w == [scan[s] EXCEPT !.pc = "insert"]
      <4>1. scan' = [scan EXCEPT ![s] = w]
        BY <3>2, Zenon
      <4>2. scan[s] \in Scan /\ scan[s].pc = "check" /\ scan[s].hits # {}
        BY <1>2, Typing DEF BreachCheck, ScanInv
      <4>3. w \in Scan /\ w.hits # {}
        BY <4>2 DEF Scan
      <4> HIDE DEF w
      <4> QED
        BY <4>1, <4>3, Typing DEF ScanInv
    <3> QED
      BY <1>2, <3>1, <3>2 DEF BreachCheck
  <2> QED
    BY <2>1, <2>2, MailUntouched, Typing, TypingNext DEF TicketInv
<1>3. CASE BreachInsert(s)
  <2>1. PICK n \in 1..MaxBreaches :
           /\ \A k \in 1..MaxBreaches :
                 k < n <=> outbox[<<Chosen(s), k>>].status # "absent"
           /\ Enqueue(<<Chosen(s), n>>)
    BY <1>3 DEF BreachInsert
  <2> DEFINE r == <<Chosen(s), n>>
  <2>2. /\ scan[s] \in Scan /\ scan[s].hits # {} /\ NextHit(s, Chosen(s))
        /\ UNCHANGED <<ticket, tick, faults>>
    BY <1>3, Typing DEF BreachInsert, ScanInv
  <2>3. Chosen(s) \in Tickets
    BY <2>2 DEF Chosen, Scan
  <2>4. r \in Rows
    BY <2>3 DEF Rows
  <2>5. outbox[r].status = "absent"
    <3>1. ~ n < n
      BY OutboxAssumption
    <3> QED
      BY <2>1, <3>1
  <2>6. /\ outbox' \in [Rows -> Row] /\ due' \in Seq(Rows)
        /\ TickInv' /\ RowInv' /\ CleanInv'
    BY <2>1, <2>2, <2>4, <2>5, Enqueued
  <2>7. scan' \in [Scans -> Scan] /\ ScanInv'
    BY <2>2, NextHitTyped, Typing
  <2>8. TypeOK'
    BY <2>1, <2>2, <2>6, <2>7, Typing, TypingNext DEF Enqueue
  <2>9. TicketInv'
    <3> SUFFICES ASSUME NEW t \in Tickets, ticket[t].state = "none"
                 PROVE  outbox'[t].status = "absent"
      BY <2>2 DEF TicketInv
    <3>1. t # r /\ t \in Rows
      BY <2>3, OutboxAssumption DEF Rows
    <3>2. outbox'[t] = outbox[t]
      BY <2>1, <3>1, Typing DEF Enqueue
    <3> QED
      BY <3>2 DEF TicketInv
  <2> QED
    BY <2>6, <2>7, <2>8, <2>9
<1>4. CASE InsertRaises(s)
  <2>1. /\ UNCHANGED <<outbox, due, tries, accepted, contested, ticket, tick>>
        /\ faults < MaxFaults /\ faults' = faults + 1 /\ NextHit(s, Chosen(s))
    BY <1>4 DEF InsertRaises, mailVars
  <2>2. scan' \in [Scans -> Scan] /\ ScanInv'
    BY <2>1, NextHitTyped, Typing
  <2>3. faults' \in 0..MaxFaults
    BY <2>1, Typing, OutboxAssumption
  <2>4. TickInv' /\ RowInv' /\ CleanInv'
    <3>1. \A e \in Ticks : tick'[e] = tick[e]
      BY <2>1
    <3> QED
      BY <2>1, <3>1, TicksLeave
  <2> QED
    BY <2>1, <2>2, <2>3, <2>4, Typing, TypingNext DEF TicketInv
<1> QED
  BY <1>1, <1>2, <1>3, <1>4 DEF ScanStep

LEMMA Step == IInv /\ [Next]_vars => IInv'
<1> SUFFICES ASSUME IInv, [Next]_vars PROVE IInv'
  OBVIOUS
<1> USE DEF IInv
<1>1. ASSUME NEW id \in Rows, BackoffEnds(id) PROVE IInv'
  <2>1. /\ due' = Append(due, id)
        /\ UNCHANGED <<outbox, tries, accepted, contested, ticket, tick, scan, faults>>
    BY <1>1 DEF BackoffEnds
  <2>2. due' \in Seq(Rows)
    BY <2>1, Typing
  <2> QED
    BY <2>1, <2>2, MailUntouched, Typing, TypingNext DEF ScanInv, TicketInv
<1>2. ASSUME NEW d \in Ticks, TickStep(d) \/ RecordRaises(d) PROVE IInv'
  BY <1>2, TickStepInv
<1>3. ASSUME NEW t \in Tickets, TicketOpened(t) PROVE IInv'
  <2> DEFINE w == [ticket[t] EXCEPT !.state = "active"]
  <2>1. /\ ticket[t].state = "none" /\ ticket' = [ticket EXCEPT ![t] = w]
        /\ Enqueue(t) \/ UNCHANGED mailVars
        /\ UNCHANGED <<tick, scan, faults>>
    BY <1>3, Zenon DEF TicketOpened
  <2>2. /\ w \in [state : {"none", "active", "other"}, late : BOOLEAN]
        /\ w.state = "active"
    BY Typing
  <2> HIDE DEF w
  <2>3. /\ ticket' \in [Tickets -> [state : {"none", "active", "other"}, late : BOOLEAN]]
        /\ \A u \in Tickets : ticket'[u] = IF u = t THEN w ELSE ticket[u]
    BY <2>1, <2>2, Typing
  <2>4. CASE Enqueue(t)
    <3>1. t \in Rows /\ outbox[t].status = "absent"
      BY <2>1 DEF Rows, TicketInv
    <3>2. /\ outbox' \in [Rows -> Row] /\ due' \in Seq(Rows)
          /\ TickInv' /\ RowInv' /\ CleanInv'
      BY <2>1, <2>4, <3>1, Enqueued
    <3>3. TicketInv'
      <4>1. \A u \in Tickets \ {t} : outbox'[u] = outbox[u]
        BY <2>4, Typing DEF Enqueue, Rows
      <4> QED
        BY <2>2, <2>3, <4>1 DEF TicketInv
    <3> QED
      BY <2>1, <2>3, <2>4, <3>2, <3>3, Typing, TypingNext DEF Enqueue, ScanInv
  <2>5. CASE UNCHANGED mailVars
    <3>1. UNCHANGED <<outbox, due, tries, accepted, contested>>
      BY <2>5 DEF mailVars
    <3> QED
      BY <2>1, <2>2, <2>3, <3>1, MailUntouched, Typing, TypingNext DEF ScanInv, TicketInv
  <2> QED
    BY <2>1, <2>4, <2>5
<1>4. ASSUME NEW t \in Tickets, SlaPasses(t) \/ TicketMoves(t) PROVE IInv'
  <2>1. /\ ticket[t].state # "none"
        /\ UNCHANGED <<outbox, due, tries, accepted, contested, tick, scan, faults>>
    BY <1>4 DEF SlaPasses, TicketMoves, mailVars
  <2>2. PICK w \in [state : {"active", "other"}, late : BOOLEAN] :
           ticket' = [ticket EXCEPT ![t] = w]
    <3>1. ticket[t] \in [state : {"active", "other"}, late : BOOLEAN]
      BY <2>1, Typing
    <3>2. CASE SlaPasses(t)
      <4> DEFINE w == [ticket[t] EXCEPT !.late = TRUE]
      <4>1. ticket' = [ticket EXCEPT ![t] = w]
        BY <3>2, Zenon DEF SlaPasses
      <4>2. w \in [state : {"active", "other"}, late : BOOLEAN]
        BY <3>1
      <4> QED
        BY <4>1, <4>2
    <3>3. CASE TicketMoves(t)
      <4> DEFINE st == IF ticket[t].state = "active" THEN "other" ELSE "active"
                 w == [ticket[t] EXCEPT !.state = st]
      <4>1. ticket' = [ticket EXCEPT ![t] = w]
        BY <3>3, Zenon DEF TicketMoves
      <4>2. w \in [state : {"active", "other"}, late : BOOLEAN]
        BY <3>1
      <4> QED
        BY <4>1, <4>2
    <3> QED
      BY <1>4, <3>2, <3>3
  <2>3. /\ ticket' \in [Tickets -> [state : {"none", "active", "other"}, late : BOOLEAN]]
        /\ \A u \in Tickets : ticket'[u] = IF u = t THEN w ELSE ticket[u]
        /\ w.state # "none"
    BY <2>2, Typing
  <2> QED
    BY <2>1, <2>3, MailUntouched, Typing, TypingNext DEF ScanInv, TicketInv
<1>5. ASSUME NEW s \in Scans, ScanStep(s) \/ InsertRaises(s) PROVE IInv'
  BY <1>5, ScanStepInv
<1>6. CASE Crash
  <2>1. /\ faults < MaxFaults /\ faults' = faults + 1
        /\ tick' = [d \in Ticks |-> NoTick] /\ scan' = [s \in Scans |-> NoScan]
        /\ UNCHANGED <<outbox, due, tries, accepted, contested, ticket>>
    BY <1>6 DEF Crash, mailVars
  <2>2. /\ tick' \in [Ticks -> Tick] /\ scan' \in [Scans -> Scan] /\ ScanInv'
        /\ \A d \in Ticks : tick'[d].pc = "idle"
    BY <2>1, Blank DEF ScanInv
  <2>3. faults' \in 0..MaxFaults
    BY <2>1, Typing, OutboxAssumption
  <2>4. TickInv' /\ RowInv' /\ CleanInv'
    BY <2>1, <2>2, TicksLeave
  <2> QED
    BY <2>1, <2>2, <2>3, <2>4, Typing, TypingNext DEF TicketInv
<1>7. CASE UNCHANGED vars
  BY <1>7, MailUntouched, Typing, TypingNext DEF vars, ScanInv, TicketInv
<1> QED
  BY <1>1, <1>2, <1>3, <1>4, <1>5, <1>6, <1>7 DEF Next

LEMMA Inductive == Spec => []IInv
<1> QED
  BY InitInv, Step, PTL DEF Spec

\* Every reachable state of outbox, ticks and scans is well typed: in
\* particular no row is given more attempts than _MAX_ATTEMPTS.
THEOREM TypeCorrect == Spec => []TypeOK
<1>1. IInv => TypeOK
  BY DEF IInv
<1> QED
  BY <1>1, Inductive, PTL

\* Nothing is marked sent that the mail server did not accept, however many
\* ticks overlap (_dispatch_one).
THEOREM SentTruly == Spec => []SentWasAccepted
<1>1. IInv => SentWasAccepted
  BY DEF IInv, RowInv, SentWasAccepted
<1> QED
  BY <1>1, Inductive, PTL

\* A row that no two ticks worked on at once is tried at most _MAX_ATTEMPTS
\* times, and once more for every crash or failed commit (_dispatch_one).
THEOREM TriesBounded == Spec => []SendsBounded
<1>1. ASSUME IInv, NEW id \in Rows \ contested
      PROVE  tries[id] <= MaxAttempts + faults
  <2>1. CleanRow(id) /\ RowInv
    BY <1>1 DEF IInv, CleanInv
  <2>2. /\ tries[id] \in Nat /\ outbox[id].attempts \in Nat /\ faults \in Nat
        /\ outbox[id].attempts <= MaxAttempts /\ MaxAttempts \in Nat
    BY <1>1, Typing, OutboxAssumption DEF IInv, Row, MaxTries
  <2>3. CASE tries[id] > outbox[id].attempts + faults
    <3>1. outbox[id].status = "sent" \/ Pending(id)
      <4>1. ASSUME NEW d \in Ticks, Tried(d, id) PROVE Pending(id)
        BY <2>1, <4>1 DEF CleanRow, Tried, Working
      <4> QED
        BY <2>1, <2>3, <4>1 DEF CleanRow
    <3>2. outbox[id].attempts < MaxAttempts
      BY <2>1, <3>1 DEF CleanRow, RowInv
    <3> QED
      BY <2>1, <2>2, <3>2 DEF CleanRow
  <2>4. CASE ~ tries[id] > outbox[id].attempts + faults
    BY <2>2, <2>4
  <2> QED
    BY <2>3, <2>4
<1>2. IInv => SendsBounded
  BY <1>1 DEF SendsBounded
<1> QED
  BY <1>2, Inductive, PTL

\* A row that was sent or given up never changes again, unless two ticks
\* worked on it at once (_dispatch_one).
THEOREM FinalRowsStay == Spec => FinalStays
<1>1. ASSUME IInv, [Next]_vars, NEW id \in Rows \ contested',
             outbox[id].status \in {"sent", "failed"}
      PROVE  outbox'[id] = outbox[id]
  <2>0. outbox \in [Rows -> Row] /\ TickInv /\ CleanInv
    BY <1>1, Typing DEF IInv
  <2>1. ASSUME NEW r \in Rows, Enqueue(r), outbox[r].status = "absent"
        PROVE  outbox'[id] = outbox[id]
    BY <1>1, <2>0, <2>1 DEF Enqueue
  <2>2. ASSUME NEW t \in Tickets, TicketOpened(t) PROVE outbox'[id] = outbox[id]
    <3>1. t \in Rows /\ outbox[t].status = "absent"
      BY <1>1, <2>2 DEF TicketOpened, IInv, TicketInv, Rows
    <3> QED
      BY <2>1, <2>2, <3>1 DEF TicketOpened, mailVars
  <2>3. ASSUME NEW s \in Scans, BreachInsert(s) PROVE outbox'[id] = outbox[id]
    <3>1. PICK n \in 1..MaxBreaches :
             /\ \A k \in 1..MaxBreaches :
                   k < n <=> outbox[<<Chosen(s), k>>].status # "absent"
             /\ Enqueue(<<Chosen(s), n>>)
      BY <2>3 DEF BreachInsert
    <3>2. Chosen(s) \in Tickets
      BY <1>1, <2>3, Typing DEF BreachInsert, IInv, ScanInv, Chosen, Scan
    <3>3. <<Chosen(s), n>> \in Rows
      BY <3>2 DEF Rows
    <3>4. ~ n < n
      BY OutboxAssumption
    <3> QED
      BY <2>1, <3>1, <3>3, <3>4
  <2>4. ASSUME NEW d \in Ticks, RecordSent(d) \/ RecordFailure(d)
        PROVE  outbox'[id] = outbox[id]
    <3>1. contested' = contested /\ tick[d].pc \in {"sent", "failed"}
      BY <2>4 DEF RecordSent, RecordFailure
    <3>2. CleanRow(id)
      BY <2>0, <3>1 DEF CleanInv
    <3>3. Current(d) # id
      BY <1>1, <3>1, <3>2 DEF CleanRow, Working, Pending
    <3> QED
      BY <2>0, <2>4, <3>3 DEF RecordSent, RecordFailure
  <2>5. CASE outbox' = outbox
    BY <2>5
  <2> QED
    BY <1>1, <2>2, <2>3, <2>4, <2>5
    DEF Next, TickStep, ScanStep, BackoffEnds, DispatchScan, ReadRow, SendAccepted,
        SendRaises, RecordRaises, SlaPasses, TicketMoves, BreachScan, BreachCheck,
        InsertRaises, Crash, mailVars, vars
<1>2. IInv /\ [Next]_vars =>
         \A id \in Rows \ contested' :
            outbox[id].status \in {"sent", "failed"} => outbox'[id] = outbox[id]
  BY <1>1
<1> QED
  BY <1>2, Inductive, PTL DEF Spec, FinalStays
-----------------------------------------------------------------------------
\* A scan about to insert was told that no breach row exists, and alone it is
\* still right.
OneScanInv ==
    /\ OneBreachMailPerTicket
    /\ \A s \in Scans : scan[s].pc = "insert" => ~ BreachSeen(Chosen(s))

\* Rows come into being only by Enqueue, and never go.
LEMMA NewRows ==
    ASSUME IInv, [Next]_vars
    PROVE  \/ \A id \in Rows :
                 outbox'[id].status = "absent" <=> outbox[id].status = "absent"
           \/ \E t \in Tickets :
                 /\ UNCHANGED scan
                 /\ \A r \in Rows \ {t} : outbox'[r] = outbox[r]
           \/ \E s \in Scans : BreachInsert(s)
<1> DEFINE Same == \A id \in Rows :
                      outbox'[id].status = "absent" <=> outbox[id].status = "absent"
<1>0. outbox \in [Rows -> Row]
  BY Typing DEF IInv
<1>1. ASSUME NEW t \in Tickets, TicketOpened(t)
      PROVE  UNCHANGED scan /\ \A r \in Rows \ {t} : outbox'[r] = outbox[r]
  BY <1>0, <1>1 DEF TicketOpened, Enqueue, mailVars
<1>2. ASSUME NEW d \in Ticks, RecordSent(d) \/ RecordFailure(d) PROVE Same
  <2> DEFINE id == Current(d)
  <2>1. tick[d].pc \in {"sent", "failed"} /\ tick[d] \in Tick
    BY <1>2, Typing DEF RecordSent, RecordFailure, IInv
  <2>2. outbox[id].status # "absent" /\ tick[d].ids # <<>>
    BY <2>1 DEF IInv, TickInv, Holds, Current
  <2>3. id \in Rows
    BY <2>1, <2>2 DEF Tick, Current
  <2>4. \A r \in Rows \ {id} : outbox'[r] = outbox[r]
    BY <1>0, <1>2 DEF RecordSent, RecordFailure
  <2>5. outbox'[id].status # "absent"
    <3>1. CASE RecordSent(d)
      BY <1>0, <2>3, <3>1 DEF RecordSent, Row
    <3>2. CASE RecordFailure(d)
      <4> DEFINE n == AttemptsAfter(tick[d].seen)
                 v == [outbox EXCEPT ![id] = [outbox[id] EXCEPT !.attempts = n]]
                 st == IF n >= MaxAttempts THEN "failed" ELSE v[id].status
      <4>1. outbox' = [v EXCEPT ![id] = [v[id] EXCEPT !.status = st]]
        BY <3>2, Zenon DEF RecordFailure
      <4>2. v[id] = [status |-> outbox[id].status, attempts |-> n] /\ DOMAIN v = Rows
        BY <1>0, <2>3 DEF Row
      <4>3. st # "absent"
        BY <2>2, <4>2
      <4> HIDE DEF v, st
      <4> QED
        BY <2>3, <4>1, <4>2, <4>3
    <3> QED
      BY <1>2, <3>1, <3>2
  <2> QED
    BY <2>2, <2>4, <2>5
<1>3. \/ outbox' = outbox
      \/ \E t \in Tickets : TicketOpened(t)
      \/ \E d \in Ticks : RecordSent(d) \/ RecordFailure(d)
      \/ \E s \in Scans : BreachInsert(s)
  BY DEF Next, TickStep, ScanStep, BackoffEnds, DispatchScan, ReadRow, SendAccepted,
      SendRaises, RecordRaises, SlaPasses, TicketMoves, BreachScan, BreachCheck,
      InsertRaises, Crash, mailVars, vars
<1> QED
  BY <1>1, <1>2, <1>3

\* As long as breach scans do not overlap, a ticket gets one breach mail,
\* however often it comes back into the scan (module header of
\* email_outbox_worker); for overlapping scans this fails.
THEOREM OneBreachMail ==
    ASSUME \A s, q \in Scans : s = q
    PROVE  Spec => []OneBreachMailPerTicket
<1>1. Init => OneScanInv
  <2> SUFFICES ASSUME Init PROVE OneScanInv
    OBVIOUS
  <2>1. \A t \in Tickets : Breaches(t) \subseteq Rows
    BY DEF Breaches, Rows
  <2> QED
    BY <2>1, Blank DEF Init, OneScanInv, OneBreachMailPerTicket
<1>2. IInv /\ OneScanInv /\ [Next]_vars => OneScanInv'
  <2> SUFFICES ASSUME IInv, OneScanInv, [Next]_vars PROVE OneScanInv'
    OBVIOUS
  <2>1. \A t \in Tickets : Breaches(t) \subseteq Rows /\ \A u \in Tickets : u \notin Breaches(t)
    BY OutboxAssumption DEF Breaches, Rows
  <2>2. outbox \in [Rows -> Row] /\ scan \in [Scans -> Scan] /\ ScanInv
    BY Typing DEF IInv
  <2>3. ASSUME NEW s \in Scans, scan[s].pc # "idle" PROVE Chosen(s) \in Tickets
    BY <2>2, <2>3 DEF ScanInv, Chosen, Scan
  <2>4. ASSUME NEW s \in Scans, BreachInsert(s) PROVE OneScanInv'
    <3> DEFINE t == Chosen(s)
    <3>1. PICK n \in 1..MaxBreaches : Enqueue(<<t, n>>)
      BY <2>4 DEF BreachInsert
    <3>2. scan[s].pc = "insert" /\ NextHit(s, t) /\ t \in Tickets
      BY <2>3, <2>4 DEF BreachInsert
    <3>3. \A r \in Breaches(t) : outbox[r].status = "absent"
      BY <3>2 DEF OneScanInv, BreachSeen
    <3>4. <<t, n>> \in Rows
      BY <3>2 DEF Rows
    <3>5. \A r \in Rows : r # <<t, n>> => outbox'[r] = outbox[r]
      BY <2>2, <3>1 DEF Enqueue
    <3>6. OneBreachMailPerTicket'
      <4> SUFFICES ASSUME NEW u \in Tickets, NEW r \in Breaches(u), NEW q \in Breaches(u),
                          outbox'[r].status # "absent", outbox'[q].status # "absent"
                   PROVE  r = q
        BY DEF OneBreachMailPerTicket, Breaches
      <4>1. CASE u = t
        BY <2>1, <3>2, <3>3, <3>5, <4>1
      <4>2. CASE u # t
        <5>1. <<t, n>> \notin Breaches(u)
          BY <4>2 DEF Breaches
        <5>2. outbox'[r] = outbox[r] /\ outbox'[q] = outbox[q]
          BY <2>1, <3>5, <5>1
        <5> QED
          BY <5>2 DEF OneScanInv, OneBreachMailPerTicket
      <4> QED
        BY <4>1, <4>2
    <3>7. \A q \in Scans : scan'[q].pc # "insert"
      BY <2>2, <3>2 DEF NextHit, NoScan
    <3> QED
      BY <3>6, <3>7 DEF OneScanInv
  <2>5. ASSUME \A id \in Rows : outbox'[id].status = "absent" <=> outbox[id].status = "absent"
        PROVE  OneScanInv'
    <3>1. \A t \in Tickets : BreachSeen(t)' <=> BreachSeen(t)
      BY <2>1, <2>5 DEF BreachSeen, Breaches
    <3>2. OneBreachMailPerTicket'
      BY <2>1, <2>5 DEF OneScanInv, OneBreachMailPerTicket, Breaches
    <3>3. ASSUME NEW s \in Scans, scan'[s].pc = "insert" PROVE ~ BreachSeen(Chosen(s))'
      <4>1. CASE scan' = scan
        BY <2>3, <3>1, <3>3, <4>1 DEF OneScanInv, Chosen
      <4>2. CASE scan' # scan
        <5>1. BreachCheck(s)
          <6>1. ASSUME NEW q \in Scans, BreachScan(q) PROVE FALSE
            BY <2>2, <3>3, <6>1 DEF BreachScan
          <6>2. ASSUME NEW q \in Scans, BreachInsert(q) \/ InsertRaises(q) PROVE FALSE
            BY <2>2, <3>3, <6>2 DEF BreachInsert, InsertRaises, NextHit, NoScan
          <6>3. ASSUME Crash PROVE FALSE
            BY <3>3, <6>3 DEF Crash, NoScan
          <6> QED
            BY <4>2, <6>1, <6>2, <6>3
            DEF Next, TickStep, ScanStep, BackoffEnds, DispatchScan, ReadRow,
                SendAccepted, SendRaises, RecordSent, RecordFailure, RecordRaises,
                TicketOpened, SlaPasses, TicketMoves, vars
        <5>2. scan[s].pc = "check" /\ ~ BreachSeen(Chosen(s))
              /\ scan' = [scan EXCEPT ![s].pc = "insert"]
          BY <2>2, <3>3, <5>1 DEF BreachCheck, NextHit, NoScan
        <5>3. scan'[s].hits = scan[s].hits
          BY <2>2, <5>2
        <5>4. Chosen(s)' = Chosen(s) /\ Chosen(s) \in Tickets
          BY <2>3, <5>2, <5>3 DEF Chosen
        <5> QED
          BY <3>1, <5>2, <5>4
      <4> QED
        BY <4>1, <4>2
    <3> QED
      BY <3>2, <3>3 DEF OneScanInv
  <2>6. ASSUME NEW t \in Tickets, UNCHANGED scan,
               \A r \in Rows \ {t} : outbox'[r] = outbox[r]
        PROVE  OneScanInv'
    <3>1. \A u \in Tickets : \A r \in Breaches(u) : outbox'[r] = outbox[r]
      BY <2>1, <2>6
    <3>2. \A u \in Tickets : BreachSeen(u)' <=> BreachSeen(u)
      BY <3>1 DEF BreachSeen, Breaches
    <3>3. OneBreachMailPerTicket'
      BY <3>1 DEF OneScanInv, OneBreachMailPerTicket, Breaches
    <3>4. ASSUME NEW s \in Scans, scan'[s].pc = "insert" PROVE ~ BreachSeen(Chosen(s))'
      BY <2>3, <2>6, <3>2, <3>4 DEF OneScanInv, Chosen
    <3> QED
      BY <3>3, <3>4 DEF OneScanInv
  <2> QED
    BY <2>4, <2>5, <2>6, NewRows
<1>3. OneScanInv => OneBreachMailPerTicket
  BY DEF OneScanInv
<1> QED
  BY <1>1, <1>2, <1>3, Inductive, PTL DEF Spec
=============================================================================

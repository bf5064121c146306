--------------------------- MODULE DatabaseProofs ---------------------------
(***************************************************************************)
(* Proofs about what shares the database: the exports that hold pooled     *)
(* connections, for any number of exports and any capacity of the channels *)
(* and of the pool, then the transactions that refresh public_stats_mv,    *)
(* for any number of handlers and reports.                                 *)
(***************************************************************************)
EXTENDS ExportStream, StatsRefresh, TLAPS, FiniteSetTheorems, SequenceTheorems

(***************************************************************************)
(* Exports.                                                                *)
(***************************************************************************)
\* What Append does to the chunks of a channel.
LEMMA Appended ==
    ASSUME NEW s \in Seq(Chunk), NEW c \in Chunk
    PROVE  /\ Append(s, c) \in Seq(Chunk)
           /\ Len(Append(s, c)) = Len(s) + 1
           /\ DOMAIN Append(s, c) = 1..(Len(s) + 1)
           /\ DOMAIN s = 1..Len(s)
           /\ Len(s) \in Nat
           /\ \A k \in DOMAIN s : Append(s, c)[k] = s[k]
           /\ Append(s, c)[Len(s) + 1] = c
    OBVIOUS

\* The invariant holds before any request.
LEMMA InitIInv == Init => IInv
<1> SUFFICES ASSUME Init PROVE IInv
    OBVIOUS
<1> USE DEF Init
<1>1. Cardinality(held) = 0 /\ IsFiniteSet(held)
    BY FS_EmptySet
<1>2. TypeOK
    BY <1>1, SlotsAssumption, PoolAssumption, RowsAssumption DEF TypeOK, sending
<1>3. InOrder /\ Counted /\ Placed /\ Handled /\ Closed
    BY DEF InOrder, Counted, Placed, Handled, Closed
<1>4. QED
    BY <1>1, <1>2, <1>3 DEF IInv

(***************************************************************************)
(* Types and connections.                                                  *)
(***************************************************************************)
\* No step takes more connections than the pool has.
LEMMA PoolStep ==
    ASSUME TypeOK, IsFiniteSet(held), NEW e \in Export,
           \/ Acquire(e)
           \/ held' = held
           \/ held' = held \ {e}
    PROVE  IsFiniteSet(held') /\ Cardinality(held') <= PoolSize
<1>1. Cardinality(held) \in Nat /\ Cardinality(held) <= PoolSize
    BY FS_CardinalityType DEF TypeOK
<1>2. CASE Acquire(e)
    <2>1. held' = held \cup {e} /\ Cardinality(held) < PoolSize
        BY <1>2 DEF Acquire
    <2>2. /\ IsFiniteSet(held \cup {e})
          /\ Cardinality(held \cup {e})
                = IF e \in held THEN Cardinality(held) ELSE Cardinality(held) + 1
        BY FS_AddElement
    <2>3. Cardinality(held \cup {e}) <= PoolSize
        BY <1>1, <2>1, <2>2, PoolAssumption
    <2>4. QED
        BY <2>1, <2>2, <2>3
<1>3. CASE held' = held
    BY <1>1, <1>3
<1>4. CASE held' = held \ {e}
    <2>1. /\ IsFiniteSet(held \ {e})
          /\ Cardinality(held \ {e})
                = IF e \in held THEN Cardinality(held) - 1 ELSE Cardinality(held)
        BY FS_RemoveElement
    <2>2. Cardinality(held \ {e}) <= PoolSize
        BY <1>1, <2>1, PoolAssumption
    <2>3. QED
        BY <1>4, <2>1, <2>2
<1>5. QED
    BY <1>2, <1>3, <1>4

\* What is sent is a chunk.
LEMMA ChunkType ==
    ASSUME TypeOK, NEW e \in Export, pc[e] \in sending
    PROVE  NextChunk(e) \in Chunk
<1>1. fetched[e] \in 0..MaxRows /\ 0 \in 0..MaxRows
    BY RowsAssumption DEF TypeOK
<1>2. Comma(e) \in BOOLEAN
    BY DEF Comma
<1>3. QED
    BY <1>1, <1>2 DEF NextChunk, Chunk, sending

\* Where a task goes next.
LEMMA Places ==
    ASSUME NEW e \in Export
    PROVE  /\ Closing(e) \in {"tail", "end"}
           /\ kind[e] = "csv" <=> Closing(e) = "end"
           /\ OnError(e) \in {"error", "tail", "end"}
           /\ kind[e] = "public" <=> OnError(e) # "error"
           /\ kind[e] = "public" => OnError(e) = "tail"
    BY DEF Closing, OnError

\* Every step keeps the types, and the pool.
LEMMA TypeStep ==
    ASSUME TypeOK, IsFiniteSet(held), Counted, [Next]_vars
    PROVE  TypeOK' /\ IsFiniteSet(held')
<1> USE SlotsAssumption, PoolAssumption, RowsAssumption, NoneAssumption
<1>1. ASSUME NEW e \in Export, Request(e) \/ Refuse(e)
      PROVE  TypeOK' /\ IsFiniteSet(held')
    <2>1. held' = held
        BY <1>1 DEF Request, Refuse, Goto
    <2>2. IsFiniteSet(held') /\ Cardinality(held') <= PoolSize
        BY <2>1, PoolStep
    <2>3. QED
        BY <1>1, <2>1, <2>2 DEF TypeOK, Request, Refuse, Goto, sending
<1>2. ASSUME NEW e \in Export, Acquire(e)
      PROVE  TypeOK' /\ IsFiniteSet(held')
    <2>1. IsFiniteSet(held') /\ Cardinality(held') <= PoolSize
        BY <1>2, PoolStep
    <2>2. QED
        BY <1>2, <2>1 DEF TypeOK, Acquire, sending
<1>3. ASSUME NEW e \in Export, AcquireFails(e)
      PROVE  TypeOK' /\ IsFiniteSet(held')
    <2>1. held' = held \/ held' = held \ {e}
        BY <1>3 DEF AcquireFails, Goto
    <2>2. IsFiniteSet(held') /\ Cardinality(held') <= PoolSize
        BY <2>1, PoolStep
    <2>3. e \notin held
        BY <1>3 DEF TypeOK, AcquireFails
    <2>4. QED
        BY <1>3, <2>1, <2>2, <2>3, Places DEF TypeOK, AcquireFails, Goto, sending
<1>4. ASSUME NEW e \in Export, Fetch(e)
      PROVE  TypeOK' /\ IsFiniteSet(held')
    <2>1. held' = held
        BY <1>4 DEF Fetch, Goto
    <2>2. IsFiniteSet(held') /\ Cardinality(held') <= PoolSize
        BY <2>1, PoolStep
    <2>3. fetched[e] + 1 \in 0..MaxRows
        BY <1>4 DEF Fetch, TypeOK, Counted
    <2>4. QED
        BY <1>4, <2>1, <2>2, <2>3 DEF TypeOK, Fetch, Goto, sending
<1>5. ASSUME NEW e \in Export, RowsEnd(e) \/ FetchFails(e)
      PROVE  TypeOK' /\ IsFiniteSet(held')
    <2>1. held' = held \ {e}
        BY <1>5 DEF RowsEnd, FetchFails
    <2>2. IsFiniteSet(held') /\ Cardinality(held') <= PoolSize
        BY <2>1, PoolStep
    <2>3. QED
        BY <1>5, <2>1, <2>2, Places DEF TypeOK, RowsEnd, FetchFails, sending
<1>6. ASSUME NEW e \in Export, Send(e)
      PROVE  TypeOK' /\ IsFiniteSet(held')
    <2>1. held' = held \/ held' = held \ {e}
        BY <1>6 DEF Send, Goto
    <2>2. IsFiniteSet(held') /\ Cardinality(held') <= PoolSize
        BY <2>1, PoolStep
    <2>3. pc[e] \in sending /\ Len(sent[e]) < read[e] + Slots
        BY <1>6, LenProperties DEF Send, Full, TypeOK
    <2>4. NextChunk(e) \in Chunk /\ sent[e] \in Seq(Chunk)
        BY <2>3, ChunkType DEF TypeOK
    <2>5. /\ Append(sent[e], NextChunk(e)) \in Seq(Chunk)
          /\ Len(Append(sent[e], NextChunk(e))) = Len(sent[e]) + 1
          /\ Len(sent[e]) \in Nat
        BY <2>4, Appended
    <2>6. /\ sent' = [sent EXCEPT ![e] = Append(sent[e], NextChunk(e))]
          /\ read' = read
        BY <1>6 DEF Send
    <2>7. sent' \in [Export -> Seq(Chunk)]
        BY <2>5, <2>6 DEF TypeOK
    <2>8. \A f \in Export : /\ read'[f] <= Len(sent'[f])
                            /\ Len(sent'[f]) <= read'[f] + Slots
        <3> TAKE f \in Export
        <3>1. CASE f = e
            BY <2>3, <2>5, <2>6, <3>1 DEF TypeOK
        <3>2. CASE f # e
            BY <2>6, <3>2 DEF TypeOK
        <3>3. QED
            BY <3>1, <3>2
    <2>9. /\ pc' = [pc EXCEPT ![e] = AfterChunk(e)]
          /\ AfterChunk(e) \in {"acquire", "fetch", "tail", "end"}
          /\ AfterChunk(e) = "acquire" => pc[e] = "head"
          /\ AfterChunk(e) = "end" => held' = held \ {e}
        BY <1>6, <2>3, Places DEF Send, Goto, AfterChunk, sending
    <2>10. /\ pc' \in [Export -> sending \cup {"idle", "refused", "acquire", "fetch",
                                              "end"}]
           /\ held' \subseteq {f \in Export : pc'[f] \in {"fetch", "row", "tail"}}
        BY <2>1, <2>9 DEF TypeOK, sending
    <2>11. UNCHANGED <<kind, fetched, total, read, gone>>
        BY <1>6 DEF Send
    <2>12. QED
        BY <2>2, <2>7, <2>8, <2>10, <2>11 DEF TypeOK
<1>7. ASSUME NEW e \in Export, HangUp(e)
      PROVE  TypeOK' /\ IsFiniteSet(held')
    <2> DEFINE s == IF pc[e] \in {"row", "error"} THEN Closing(e) ELSE "end"
    <2>1. pc' = [pc EXCEPT ![e] = s] /\ held' = IF s = "end" THEN held \ {e} ELSE held
        BY <1>7 DEF HangUp, Goto
    <2>2. s \in {"tail", "end"}
        BY Places
    <2> HIDE DEF s
    <2>3. held' = held \/ held' = held \ {e}
        BY <2>1
    <2>4. IsFiniteSet(held') /\ Cardinality(held') <= PoolSize
        BY <2>3, PoolStep
    <2>5. QED
        BY <1>7, <2>1, <2>2, <2>3, <2>4 DEF TypeOK, HangUp, sending
<1>8. ASSUME NEW e \in Export, Read(e)
      PROVE  TypeOK' /\ IsFiniteSet(held')
    <2>1. held' = held
        BY <1>8 DEF Read
    <2>2. IsFiniteSet(held') /\ Cardinality(held') <= PoolSize
        BY <2>1, PoolStep
    <2>3. Len(sent[e]) \in Nat
        BY DEF TypeOK
    <2>4. QED
        BY <1>8, <2>1, <2>2, <2>3 DEF TypeOK, Read
<1>9. ASSUME NEW e \in Export, Leave(e)
      PROVE  TypeOK' /\ IsFiniteSet(held')
    <2>1. held' = held
        BY <1>9 DEF Leave
    <2>2. IsFiniteSet(held') /\ Cardinality(held') <= PoolSize
        BY <2>1, PoolStep
    <2>3. QED
        BY <1>9, <2>1, <2>2 DEF TypeOK, Leave
<1>10. CASE UNCHANGED vars
    BY <1>10 DEF TypeOK, vars
<1>11. QED
    BY <1>1, <1>2, <1>3, <1>4, <1>5, <1>6, <1>7, <1>8, <1>9, <1>10 DEF Next, Task

(***************************************************************************)
(* What the chunks say.                                                    *)
(***************************************************************************)
\* All the rows are out when the query is exhausted.
LEMMA ExhaustedIsComplete ==
    ASSUME IInv, NEW e \in Export, pc[e] = "fetch", fetched[e] = total[e]
    PROVE  Complete(e)
<1>1. /\ total[e] # None /\ total[e] \in Nat
      /\ Len(sent[e]) = total[e] + 1
      /\ sent[e] \in Seq(Chunk)
    BY RowsAssumption DEF IInv, Counted, TypeOK
<1>2. \A k \in 2..Len(sent[e]) : k \in DOMAIN sent[e] /\ sent[e][k].row = k - 1
    <2> TAKE k \in 2..Len(sent[e])
    <2>1. k \in DOMAIN sent[e] /\ sent[e][k] \in Chunk
        BY <1>1
    <2>2. sent[e][k].what \notin {"tail", "error", "head"}
        BY <2>1 DEF IInv, Placed, InOrder
    <2>3. sent[e][k].what = "row"
        BY <2>1, <2>2 DEF Chunk
    <2>4. QED
        BY <2>1, <2>3 DEF IInv, InOrder
<1>3. \A i \in 1..total[e] : \E k \in DOMAIN sent[e] : sent[e][k].row = i
    <2> TAKE i \in 1..total[e]
    <2>1. i + 1 \in 2..Len(sent[e]) /\ (i + 1) - 1 = i
        BY <1>1
    <2>2. i + 1 \in DOMAIN sent[e] /\ sent[e][i + 1].row = i
        BY <1>2, <2>1
    <2>3. QED
        BY <2>2
<1>4. QED
    BY <1>1, <1>3 DEF Complete

\* A step that sends nothing keeps what is said of the chunks.
LEMMA QuietStep ==
    ASSUME IInv, NEW e \in Export,
           \/ Request(e) \/ Refuse(e) \/ Acquire(e) \/ AcquireFails(e)
           \/ Fetch(e) \/ RowsEnd(e) \/ FetchFails(e) \/ HangUp(e)
           \/ Read(e) \/ Leave(e)
    PROVE  InOrder' /\ Counted' /\ Placed' /\ Handled' /\ Closed'
<1> USE RowsAssumption
<1>1. InOrder'
    BY DEF IInv, InOrder, Request, Refuse, Acquire, AcquireFails, Fetch, RowsEnd,
           FetchFails, HangUp, Read, Leave
<1>2. CASE Request(e) \/ Refuse(e)
    <2>1. /\ pc[e] = "idle" /\ pc' \in {[pc EXCEPT ![e] = "head"], [pc EXCEPT ![e] = "refused"]}
          /\ UNCHANGED <<kind, fetched, total, sent, gone>>
        BY <1>2 DEF Request, Refuse, Goto
    <2>2. pc'[e] \in {"head", "refused"} /\ \A f \in Export \ {e} : pc'[f] = pc[f]
        BY <2>1 DEF IInv, TypeOK
    <2>3. Counted' /\ Handled'
        BY <2>1, <2>2 DEF IInv, Counted, Handled
    <2>4. Placed'
        BY <2>1, <2>2 DEF IInv, Placed
    <2>5. Closed'
        BY <2>1, <2>2 DEF IInv, Closed, Complete
    <2>6. QED
        BY <1>1, <2>3, <2>4, <2>5
<1>3. CASE Acquire(e)
    <2>1. /\ pc[e] = "acquire" /\ pc' = [pc EXCEPT ![e] = "fetch"]
          /\ UNCHANGED <<kind, fetched, sent, gone>>
          /\ \A f \in Export \ {e} : total'[f] = total[f]
          /\ total'[e] \in 0..MaxRows
        BY <1>3 DEF Acquire, IInv, TypeOK
    <2>2. pc'[e] = "fetch" /\ \A f \in Export \ {e} : pc'[f] = pc[f]
        BY <2>1 DEF IInv, TypeOK
    <2>3. /\ Len(sent[e]) = 1 /\ fetched[e] = 0
          /\ total'[e] # None /\ total'[e] >= 0
        BY <2>1, NoneAssumption DEF IInv, Counted
    <2>4. Counted'
        <3> SUFFICES ASSUME NEW f \in Export PROVE Counted!(f)'
            BY DEF Counted
        <3>1. CASE f # e
            <4>1. pc'[f] = pc[f] /\ total'[f] = total[f] /\ Counted!(f)
                BY <2>1, <2>2, <3>1 DEF IInv, Counted
            <4>2. QED
                BY <2>1, <4>1
        <3>2. CASE f = e
            <4>1. /\ pc'[f] = "fetch" /\ fetched'[f] = 0 /\ Len(sent'[f]) = 0 + 1
                  /\ total'[f] # None /\ 0 <= total'[f]
                BY <2>1, <2>2, <2>3, <3>2
            <4>2. QED
                BY <4>1
        <3>3. QED
            BY <3>1, <3>2
    <2>5. Placed' /\ Handled'
        BY <2>1, <2>2 DEF IInv, Placed, Handled
    <2>6. Closed'
        BY <2>1, <2>2 DEF IInv, Closed, Complete
    <2>7. QED
        BY <1>1, <2>4, <2>5, <2>6
<1>4. CASE AcquireFails(e) \/ FetchFails(e)
    <2>1. /\ pc[e] \in {"acquire", "fetch"} /\ pc' = [pc EXCEPT ![e] = OnError(e)]
          /\ UNCHANGED <<kind, fetched, total, sent, gone>>
        BY <1>4 DEF AcquireFails, FetchFails, Goto
    <2>2. pc'[e] = OnError(e) /\ \A f \in Export \ {e} : pc'[f] = pc[f]
        BY <2>1 DEF IInv, TypeOK
    <2>3. \/ OnError(e) = "error" /\ kind[e] # "public"
          \/ OnError(e) = "tail" /\ kind[e] = "public"
        BY DEF OnError, Closing
    <2>4. Len(sent[e]) >= 1
        <3>1. fetched[e] \in Nat
            BY DEF IInv, TypeOK
        <3>2. QED
            BY <2>1, <3>1 DEF IInv, Counted
    <2>5. Counted' /\ Handled'
        BY <2>1, <2>2, <2>3, <2>4 DEF IInv, Counted, Handled
    <2>6. Placed'
        BY <2>1, <2>2 DEF IInv, Placed
    <2>7. Closed'
        BY <2>1, <2>2, <2>3 DEF IInv, Closed, Complete
    <2>8. QED
        BY <1>1, <2>5, <2>6, <2>7
<1>5. CASE Fetch(e)
    <2>1. /\ pc[e] = "fetch" /\ fetched[e] < total[e]
          /\ pc' = [pc EXCEPT ![e] = "row"]
          /\ fetched' = [fetched EXCEPT ![e] = @ + 1]
          /\ UNCHANGED <<kind, total, sent, gone>>
        BY <1>5 DEF Fetch, Goto
    <2>2. /\ pc'[e] = "row" /\ fetched'[e] = fetched[e] + 1
          /\ \A f \in Export \ {e} : pc'[f] = pc[f] /\ fetched'[f] = fetched[f]
        BY <2>1 DEF IInv, TypeOK
    <2>3. Counted' /\ Handled'
        BY <2>1, <2>2 DEF IInv, Counted, Handled, TypeOK
    <2>4. Placed'
        BY <2>1, <2>2 DEF IInv, Placed
    <2>5. Closed'
        BY <2>1, <2>2 DEF IInv, Closed, Complete
    <2>6. QED
        BY <1>1, <2>3, <2>4, <2>5
<1>6. CASE RowsEnd(e)
    <2>1. /\ pc[e] = "fetch" /\ fetched[e] = total[e]
          /\ pc' = [pc EXCEPT ![e] = Closing(e)]
          /\ UNCHANGED <<kind, fetched, total, sent, gone>>
        BY <1>6 DEF RowsEnd
    <2>2. pc'[e] = Closing(e) /\ \A f \in Export \ {e} : pc'[f] = pc[f]
        BY <2>1 DEF IInv, TypeOK
    <2>3. \/ Closing(e) = "end" /\ kind[e] = "csv"
          \/ Closing(e) = "tail" /\ kind[e] # "csv"
        BY DEF Closing
    <2>4. Counted' /\ Handled'
        BY <2>1, <2>2, <2>3 DEF IInv, Counted, Handled, TypeOK
    <2>5. Placed'
        BY <2>1, <2>2 DEF IInv, Placed
    <2>6. Complete(e)
        BY <2>1, ExhaustedIsComplete
    <2>7. Closed'
        BY <2>1, <2>2, <2>3, <2>6 DEF IInv, Closed, Complete
    <2>8. QED
        BY <1>1, <2>4, <2>5, <2>7
<1>7. CASE HangUp(e)
    <2> DEFINE s == IF pc[e] \in {"row", "error"} THEN Closing(e) ELSE "end"
    <2>1. /\ pc[e] \in sending /\ e \in gone
          /\ pc' = [pc EXCEPT ![e] = s]
          /\ UNCHANGED <<kind, fetched, total, sent, gone>>
        BY <1>7 DEF HangUp, Goto
    <2>2. /\ s \in {"tail", "end"}
          /\ s = "tail" => pc[e] \in {"row", "error"} /\ kind[e] # "csv"
          /\ pc[e] = "tail" => s = "end"
        BY Places
    <2> HIDE DEF s
    <2>3. pc'[e] = s /\ \A f \in Export \ {e} : pc'[f] = pc[f]
        BY <2>1 DEF IInv, TypeOK
    <2>4. Counted' /\ Handled'
        BY <2>1, <2>2, <2>3 DEF IInv, Counted, Handled, TypeOK
    <2>5. Placed'
        BY <2>1, <2>2, <2>3 DEF IInv, Placed, sending
    <2>6. Closed'
        BY <2>1, <2>2, <2>3 DEF IInv, Closed, Complete
    <2>7. QED
        BY <1>1, <2>4, <2>5, <2>6
<1>8. CASE Read(e) \/ Leave(e)
    BY <1>1, <1>8 DEF IInv, Counted, Placed, Handled, Closed, Complete, Read, Leave
<1>9. QED
    BY <1>2, <1>3, <1>4, <1>5, <1>6, <1>7, <1>8

\* What a sent chunk adds.
LEMMA SendStep ==
    ASSUME IInv, NEW e \in Export, Send(e)
    PROVE  InOrder' /\ Counted' /\ Placed' /\ Handled' /\ Closed'
<1> DEFINE c == NextChunk(e)
           n == Len(sent[e])
<1>1. /\ pc[e] \in sending /\ e \notin gone
      /\ sent' = [sent EXCEPT ![e] = Append(sent[e], c)]
      /\ pc' = [pc EXCEPT ![e] = AfterChunk(e)]
      /\ UNCHANGED <<kind, fetched, total, gone>>
    BY DEF Send, Goto
<1>2. c \in Chunk /\ sent[e] \in Seq(Chunk)
    BY <1>1, ChunkType DEF IInv, TypeOK
<1>3. /\ c.what = pc[e] /\ c.comma = Comma(e)
      /\ pc[e] = "row" => c.row = fetched[e]
    BY DEF NextChunk
<1>4. /\ n \in Nat
      /\ DOMAIN sent[e] = 1..n
      /\ sent'[e] = Append(sent[e], c)
      /\ DOMAIN sent'[e] = 1..(n + 1)
      /\ Len(sent'[e]) = n + 1
      /\ \A k \in 1..n : sent'[e][k] = sent[e][k]
      /\ sent'[e][n + 1] = c
    BY <1>1, <1>2, Appended DEF IInv, TypeOK
<1>5. \A f \in Export \ {e} : sent'[f] = sent[f] /\ pc'[f] = pc[f]
    BY <1>1 DEF IInv, TypeOK
<1>6. pc'[e] = AfterChunk(e)
    BY <1>1 DEF IInv, TypeOK
<1>7. /\ pc[e] = "head" => n = 0 /\ pc'[e] = "acquire" /\ fetched[e] = 0
      /\ pc[e] = "row" => n = fetched[e] /\ n >= 1 /\ pc'[e] = "fetch"
                          /\ total[e] # None /\ fetched[e] <= total[e]
      /\ pc[e] = "error" => n >= 1 /\ kind[e] # "public" /\ pc'[e] = Closing(e)
      /\ pc[e] = "tail" => n >= 1 /\ kind[e] # "csv" /\ pc'[e] = "end"
    BY <1>6 DEF IInv, Counted, Handled, AfterChunk
<1>8. pc[e] \in {"head", "row", "error", "tail"}
    BY <1>1 DEF sending
<1>9. \/ Closing(e) = "end" /\ kind[e] = "csv"
      \/ Closing(e) = "tail" /\ kind[e] # "csv"
    BY DEF Closing
<1> HIDE DEF c, n
<1>10. \A k \in 1..n : /\ sent[e][k].what # "tail"
                       /\ sent[e][k].what = "error" => pc[e] = "tail"
    BY <1>4, <1>8 DEF IInv, Placed
<1>11. fetched[e] \in Nat
    BY RowsAssumption DEF IInv, TypeOK
<1>12. InOrder'
    <2> SUFFICES ASSUME NEW f \in Export, NEW k \in DOMAIN sent'[f]
                 PROVE  /\ sent'[f][k].what = "head" <=> k = 1
                        /\ sent'[f][k].what = "row" => sent'[f][k].row = k - 1
                        /\ sent'[f][k].what = "tail" => k = Len(sent'[f])
        BY DEF InOrder
    <2>1. CASE f # e
        BY <1>5, <2>1 DEF IInv, InOrder
    <2>2. CASE f = e /\ k \in 1..n
        <3>1. sent'[f][k] = sent[e][k]
            BY <1>4, <2>2
        <3>2. QED
            BY <1>4, <1>10, <2>2, <3>1 DEF IInv, InOrder
    <2>3. CASE f = e /\ k = n + 1
        BY <1>3, <1>4, <1>7, <1>8, <1>11, <2>3
    <2>4. QED
        BY <1>4, <2>1, <2>2, <2>3
<1>13. Counted'
    <2> SUFFICES ASSUME NEW f \in Export PROVE Counted!(f)'
        BY DEF Counted
    <2>1. CASE f # e
        BY <1>1, <1>5, <2>1 DEF IInv, Counted
    <2>2. CASE f = e
        BY <1>1, <1>4, <1>7, <1>8, <1>9, <1>11, <2>2
    <2>3. QED
        BY <2>1, <2>2
<1>14. Handled'
    BY <1>1, <1>5, <1>7, <1>8, <1>9 DEF IInv, Handled
<1>15. Placed'
    <2> SUFFICES ASSUME NEW f \in Export, NEW k \in DOMAIN sent'[f]
                 PROVE  /\ sent'[f][k].what = "tail" => pc'[f] = "end"
                        /\ sent'[f][k].what = "error" => /\ pc'[f] \in {"tail", "end"}
                                                         /\ kind[f] # "public"
                        /\ sent'[f][k].what = "row" /\ kind[f] # "csv"
                              => (sent'[f][k].comma <=> k > 2)
        BY <1>1 DEF Placed
    <2>1. CASE f # e
        BY <1>5, <2>1 DEF IInv, Placed
    <2>2. CASE f = e /\ k \in 1..n
        <3>1. sent'[f][k] = sent[e][k]
            BY <1>4, <2>2
        <3>2. QED
            BY <1>4, <1>7, <1>10, <2>2, <3>1 DEF IInv, Placed
    <2>3. CASE f = e /\ k = n + 1
        <3>1. sent'[f][k] = c
            BY <1>4, <2>3
        <3>2. pc[e] = "row" /\ kind[e] # "csv" => (Comma(e) <=> k > 2)
            BY <1>4, <1>7, <1>11, <2>3 DEF Comma
        <3>3. QED
            BY <1>3, <1>7, <1>9, <2>3, <3>1, <3>2
    <2>4. QED
        BY <1>4, <2>1, <2>2, <2>3
<1>16. Closed'
    <2> SUFFICES ASSUME NEW f \in Export \ gone
                 PROVE  /\ pc'[f] \in {"tail", "end"} /\ kind[f] # "public" =>
                              \/ Complete(f)'
                              \/ \E k \in DOMAIN sent'[f] : sent'[f][k].what = "error"
                        /\ pc'[f] = "end" /\ kind[f] # "csv" =>
                              /\ Len(sent'[f]) >= 2
                              /\ sent'[f][Len(sent'[f])].what = "tail"
        BY <1>1 DEF Closed
    <2>1. CASE f # e
        BY <1>1, <1>5, <2>1 DEF IInv, Closed, Complete
    <2>2. CASE f = e
        <3>1. CASE pc[e] \in {"head", "row"}
            BY <1>7, <2>2, <3>1
        <3>2. CASE pc[e] = "error"
            <4>1. n + 1 \in DOMAIN sent'[e] /\ sent'[e][n + 1].what = "error"
                BY <1>3, <1>4, <3>2
            <4>2. QED
                BY <1>7, <1>9, <2>2, <3>2, <4>1
        <3>3. CASE pc[e] = "tail"
            <4>1. Len(sent'[e]) >= 2 /\ sent'[e][Len(sent'[e])].what = "tail"
                BY <1>3, <1>4, <1>7, <3>3
            <4>2. Complete(e) => Complete(e)'
                BY <1>1, <1>4 DEF Complete
            <4>3. (\E k \in DOMAIN sent[e] : sent[e][k].what = "error")
                  => \E k \in DOMAIN sent'[e] : sent'[e][k].what = "error"
                BY <1>4
            <4>4. QED
                BY <2>2, <3>3, <4>1, <4>2, <4>3 DEF IInv, Closed
        <3>4. QED
            BY <1>8, <3>1, <3>2, <3>3
    <2>3. QED
        BY <2>1, <2>2
<1>17. QED
    BY <1>12, <1>13, <1>14, <1>15, <1>16

\* Every step keeps the invariant.
LEMMA NextIInv == IInv /\ [Next]_vars => IInv'
<1> SUFFICES ASSUME IInv, [Next]_vars PROVE IInv'
    OBVIOUS
<1>1. TypeOK' /\ IsFiniteSet(held')
    BY TypeStep DEF IInv
<1>2. InOrder' /\ Counted' /\ Placed' /\ Handled' /\ Closed'
    <2>1. CASE UNCHANGED vars
        BY <2>1 DEF IInv, InOrder, Counted, Placed, Handled, Closed, Complete, vars
    <2>2. CASE Next
        BY <2>2, QuietStep, SendStep DEF Next, Task
    <2>3. QED
        BY <2>1, <2>2
<1>3. QED
    BY <1>1, <1>2 DEF IInv

\* The invariant holds always.
LEMMA Invariant == Spec => []IInv
<1>1. QED
    BY InitIInv, NextIInv, PTL DEF Spec

(***************************************************************************)
(* The theorems.                                                           *)
(***************************************************************************)
\* Types; no more chunks wait than a channel holds, no more connections are
\* out than the pool has, and no task that is over keeps one.
THEOREM TypeCorrect == Spec => []TypeOK
<1>1. IInv => TypeOK
    BY DEF IInv
<1>2. QED
    BY <1>1, Invariant, PTL

\* Every row arrives once, in the order of the query.
THEOREM Ordered == Spec => []InOrder
<1>1. IInv => InOrder
    BY DEF IInv
<1>2. QED
    BY <1>1, Invariant, PTL

\* An admin export that was received in full lacks no row, or says so.
THEOREM CutMarked == Spec => []CutIsMarked
<1>1. IInv => CutIsMarked
    BY DEF IInv, Closed, CutIsMarked, Received
<1>2. QED
    BY <1>1, Invariant, PTL

\* A public export that was received in full is a feature collection.
THEOREM PublicValid == Spec => []PublicParses
<1>1. ASSUME IInv, NEW e \in Export, Received(e), kind[e] = "public"
      PROVE  Parses(e)
    <2> DEFINE n == Len(sent[e])
    <2>1. n \in Nat /\ DOMAIN sent[e] = 1..n /\ \A k \in 1..n : sent[e][k] \in Chunk
        BY <1>1 DEF IInv, TypeOK
    <2>2. n >= 2 /\ sent[e][n].what = "tail"
        BY <1>1 DEF IInv, Closed, Received
    <2>3. sent[e][1].what = "head"
        BY <1>1, <2>1, <2>2 DEF IInv, InOrder
    <2>4. \A k \in 2..(n - 1) : sent[e][k].comma <=> k > 2
        <3> TAKE k \in 2..(n - 1)
        <3>1. k \in DOMAIN sent[e] /\ k # 1 /\ k # n /\ sent[e][k] \in Chunk
            BY <2>1
        <3>2. sent[e][k].what \notin {"head", "tail"}
            BY <1>1, <3>1 DEF IInv, InOrder
        <3>3. sent[e][k].what # "error"
            BY <1>1, <3>1 DEF IInv, Placed
        <3>4. sent[e][k].what = "row"
            BY <3>1, <3>2, <3>3 DEF Chunk
        <3>5. QED
            BY <1>1, <3>1, <3>4 DEF IInv, Placed
    <2>5. QED
        BY <2>2, <2>3, <2>4 DEF Parses
<1>2. IInv => PublicParses
    BY <1>1 DEF PublicParses
<1>3. QED
    BY <1>2, Invariant, PTL

(***************************************************************************)
(* The view and its transactions.  StatsIInv is the inductive invariant:   *)
(* locks are exclusive and each is explained by the statement that took    *)
(* it, links are acyclic, and a snapshot taken alone is what will be       *)
(* committed.                                                              *)
(***************************************************************************)
\* The modes of a row lock.
LockMode == {"update", "delete", "share"}

\* What a statement is about, and where it may stand.
StatementsFit ==
    \A p \in Proc :
        /\ stage[p] # "idle" => row[p] \in Report
        /\ stage[p] # "idle" /\ p # Job => value[p] \in Status \cup {"gone"}
        /\ stage[p] # "idle" /\ p = Job =>
              /\ value[p] = "linked" /\ parent[p] \in Report /\ parent[p] # row[p]
              /\ rows[row[p]] # "unborn"
        /\ stage[p] \in {"idle", "row"} => ~hit[p]
        /\ stage[p] = "cascade" => p # Job /\ hit[p] /\ value[p] = "gone"
        /\ stage[p] = "parent" => p = Job /\ hit[p]
        /\ stage[p] = "count" => p = Job

\* Nobody shares a row that somebody writes.
LocksExclude ==
    \A p, q \in Proc, r \in Report, m, n \in LockMode :
        <<p, r, m>> \in locks /\ <<q, r, n>> \in locks /\ p # q => ~Conflict(m, n)

\* A statement that found its row holds it, and the job keeps its parent from deletion.
RowsHeld ==
    /\ \A p \in Proc : hit[p] => <<p, row[p], Mode(p)>> \in locks
    /\ hit[Job] => row[Job] \in Live
    /\ hit[Job] /\ stage[Job] # "parent" =>
          /\ parent[Job] \in Live
          /\ <<Job, parent[Job], "share">> \in locks

\* A lock belongs to a statement past its row: it is of that row, of the parent, or
\* of a duplicate that a deletion has to clear.
LocksExplained ==
    \A p \in Proc, r \in Report, m \in LockMode : <<p, r, m>> \in locks =>
        /\ stage[p] \notin {"idle", "row"}
        /\ p # Job => /\ hit[p]
                      /\ \/ r = row[p] /\ m = Mode(p)
                         \/ value[p] = "gone" /\ m = "update" /\ dupOf[r] = row[p]
        /\ p = Job => \/ r = row[p] /\ m = "update"
                      \/ r = parent[p] /\ m # "delete" /\ stage[p] # "parent"

\* Neither report of the job's statement becomes a duplicate before the job makes one.
JobUnlinked == stage[Job] # "idle" => dupOf[row[Job]] = Null /\ dupOf[parent[Job]] = Null

\* Duplicates never lead back to themselves.
LinksAcyclic == \A S \in SUBSET Report : S # {} => \E r \in S : dupOf[r] \notin S

\* Who holds the view only waits for a row if it is the job.
ViewHeld == viewLock # Null => stage[viewLock] \in {"count", "commit"}

\* Whoever met no one is the only one there is.
MetOrAlone == met \in {{}, active} /\ (met = {} => \A p, q \in active : p = q)

\* The snapshot of a handler that met no one shows what its commit makes of the rows.
SnapshotTaken ==
    met = {} => \A t \in Txn : stage[t] \in {"view", "commit"} =>
                                   snapshot[t] = Seen(Written(t, hit[t]))

StatsIInv ==
    /\ StatsTypeOK /\ StatementsFit
    /\ LocksExclude /\ RowsHeld /\ LocksExplained /\ JobUnlinked
    /\ LinksAcyclic /\ ViewHeld
    /\ MetOrAlone /\ SnapshotTaken
    /\ IsFiniteSet(active)

-----------------------------------------------------------------------------
\* The job is no handler, and nobody is not a process.
LEMMA ProcFacts ==
    /\ Job \in Proc /\ Null \notin Proc
    /\ \A t \in Txn : t \in Proc /\ t # Job
    /\ \A p \in Proc : p # Job => p \in Txn
PROOF
  BY ProcAssumption, NullAssumption DEF Proc

\* Conflicts of modes are mutual, and whatever is written cannot be deleted.
LEMMA ConflictFacts ==
    /\ \A m, n \in LockMode : Conflict(m, n) <=> Conflict(n, m)
    /\ \A m \in LockMode : Conflict("delete", m)
    /\ Conflict("update", "update") /\ ~Conflict("share", "update")
PROOF
  BY DEF Conflict, LockMode

\* The mode of a statement.
LEMMA ModeFacts ==
    \A p \in Proc : /\ Mode(p) \in {"update", "delete"} /\ Mode(p) \in LockMode
                    /\ Mode(p) = "delete" <=> value[p] = "gone"
PROOF
  BY DEF Mode, LockMode

\* Who holds a row against p has a lock on it that conflicts.
LEMMA HoldersFacts ==
    ASSUME locks \subseteq Proc \X Report \X LockMode, NEW p, NEW r \in Report, NEW mode
    PROVE  /\ \A q \in Holders(p, r, mode) :
                 /\ q \in Proc /\ q # p
                 /\ \E m \in LockMode : <<q, r, m>> \in locks /\ Conflict(m, mode)
           /\ \A q \in Proc, m \in LockMode :
                 <<q, r, m>> \in locks /\ q # p /\ Conflict(m, mode) => q \in Holders(p, r, mode)
PROOF
  <1>1. ASSUME NEW q \in Holders(p, r, mode)
        PROVE  /\ q \in Proc /\ q # p
               /\ \E m \in LockMode : <<q, r, m>> \in locks /\ Conflict(m, mode)
    <2>1. PICK l \in locks : l[1] # p /\ l[2] = r /\ Conflict(l[3], mode) /\ q = l[1]
      BY DEF Holders
    <2>2. l = <<l[1], l[2], l[3]>> /\ l[1] \in Proc /\ l[3] \in LockMode
      BY <2>1
    <2> QED BY <2>1, <2>2
  <1>2. ASSUME NEW q \in Proc, NEW m \in LockMode,
               <<q, r, m>> \in locks, q # p, Conflict(m, mode)
        PROVE  q \in Holders(p, r, mode)
    BY <1>2 DEF Holders
  <1> QED BY <1>1, <1>2

\* A lock that nobody stands against keeps the locks exclusive.
LEMMA NewLockExcludes ==
    ASSUME StatsIInv, NEW p \in Proc, NEW r \in Report, NEW m \in LockMode,
           Holders(p, r, m) = {}, locks' = locks \cup {<<p, r, m>>}
    PROVE  LocksExclude'
PROOF
  <1>1. locks \subseteq Proc \X Report \X LockMode /\ LocksExclude
    BY DEF StatsIInv, StatsTypeOK, LockMode
  <1>2. \A q \in Proc, n \in LockMode : <<q, r, n>> \in locks /\ q # p => ~Conflict(n, m)
    BY <1>1, HoldersFacts
  <1>3. ASSUME NEW a \in Proc, NEW b \in Proc, NEW x \in Report,
               NEW k \in LockMode, NEW n \in LockMode,
               <<a, x, k>> \in locks', <<b, x, n>> \in locks', a # b
        PROVE  ~Conflict(k, n)
    <2>1. CASE <<a, x, k>> \in locks /\ <<b, x, n>> \in locks
      BY <1>1, <1>3, <2>1 DEF LocksExclude
    <2>2. CASE <<a, x, k>> = <<p, r, m>> /\ <<b, x, n>> \in locks
      BY <1>2, <1>3, <2>2, ConflictFacts
    <2>3. CASE <<b, x, n>> = <<p, r, m>> /\ <<a, x, k>> \in locks
      BY <1>2, <1>3, <2>3
    <2> QED BY <1>3, <2>1, <2>2, <2>3
  <1> QED BY <1>3 DEF LocksExclude

\* The database before its first request.
LEMMA StatsStarts == StatsInit => StatsIInv
PROOF
  <1> SUFFICES ASSUME StatsInit PROVE StatsIInv
    OBVIOUS
  <1> USE DEF StatsInit
  <1>1. active = {}
    BY DEF active
  <1>2. StatsTypeOK
    BY <1>1 DEF StatsTypeOK, Live
  <1>3. StatementsFit /\ LocksExclude /\ RowsHeld /\ LocksExplained
    BY ProcFacts DEF StatementsFit, LocksExclude, RowsHeld, LocksExplained
  <1>4. JobUnlinked /\ ViewHeld /\ MetOrAlone /\ SnapshotTaken
    BY <1>1, ProcFacts DEF JobUnlinked, ViewHeld, MetOrAlone, SnapshotTaken
  <1>5. LinksAcyclic
    BY NullAssumption DEF LinksAcyclic
  <1>6. IsFiniteSet(active)
    BY <1>1, FS_EmptySet
  <1> QED BY <1>2, <1>3, <1>4, <1>5, <1>6 DEF StatsIInv

\* Nothing that leaves the rows and the links alone disturbs the foreign key or closes
\* a circle.
LEMMA TableFrame ==
    ASSUME StatsIInv, UNCHANGED <<rows, dupOf>>
    PROVE  /\ LinksAcyclic' /\ Live' = Live
           /\ rows' \in [Report -> Status \cup {"unborn", "gone"}]
           /\ dupOf' \in [Report -> Report \cup {Null}]
           /\ (\A r \in Report : dupOf[r] # Null => {r, dupOf[r]} \subseteq Live)'
PROOF
  <1>1. Live' = Live
    BY DEF Live
  <1> QED BY <1>1 DEF StatsIInv, StatsTypeOK, LinksAcyclic

\* A statement that begins holds nothing yet, and is alone or makes everybody meet.
LEMMA BeginKeeps ==
    ASSUME StatsIInv, NEW p \in Proc, NEW r \in Report, NEW s, NEW v, Begin(p, r, s, v),
           p # Job => v \in Status \cup {"gone"} /\ s = Null,
           p = Job => /\ v = "linked" /\ s \in Report /\ s # r /\ r \in Live
                      /\ dupOf[r] = Null /\ dupOf[s] = Null
    PROVE  StatsIInv'
PROOF
  <1> USE DEF Begin, table
  <1>t. /\ StatsTypeOK /\ StatementsFit /\ LocksExclude /\ RowsHeld /\ LocksExplained
        /\ JobUnlinked /\ ViewHeld /\ MetOrAlone /\ SnapshotTaken /\ IsFiniteSet(active)
    BY DEF StatsIInv
  <1>1. /\ stage[p] = "idle" /\ ~hit[p]
        /\ stage' \in [Proc -> {"idle", "row", "cascade", "parent", "view", "count", "commit"}]
        /\ stage'[p] = "row" /\ \A q \in Proc : q # p => stage'[q] = stage[q]
    BY <1>t DEF StatsTypeOK, StatementsFit
  <1>2. /\ row' \in [Proc -> Report \cup {Null}]
        /\ row'[p] = r /\ \A q \in Proc : q # p => row'[q] = row[q]
    BY <1>t DEF StatsTypeOK
  <1>3. /\ parent' \in [Proc -> Report \cup {Null}]
        /\ parent'[p] = s /\ \A q \in Proc : q # p => parent'[q] = parent[q]
    BY <1>t DEF StatsTypeOK
  <1>4. /\ value' \in [Proc -> Status \cup {Null, "gone", "linked"}]
        /\ value'[p] = v /\ \A q \in Proc : q # p => value'[q] = value[q]
    BY <1>t DEF StatsTypeOK
  <1>5. /\ LinksAcyclic' /\ Live' = Live
        /\ (\A x \in Report : dupOf[x] # Null => {x, dupOf[x]} \subseteq Live)'
    BY TableFrame
  <1>6. active' = active \cup {p}
    BY <1>1 DEF active
  <1>7. IsFiniteSet(active')
    BY <1>6, <1>t, FS_AddElement
  <1>8. MetOrAlone'
    BY <1>6 DEF MetOrAlone
  <1>9. StatsTypeOK'
    BY <1>t, <1>1, <1>2, <1>3, <1>4, <1>5, <1>6 DEF StatsTypeOK
  <1>10. StatementsFit'
    <2>1. p = Job => rows[r] # "unborn"
      BY StatusAssumption DEF Live
    <2> QED BY <1>t, <1>1, <1>2, <1>3, <1>4, <2>1 DEF StatementsFit
  <1>11. \A q \in Proc : q # p => Mode(q)' = Mode(q)
    BY <1>4 DEF Mode
  <1>12. LocksExclude'
    BY <1>t DEF LocksExclude
  <1>13. \A x \in Report, m \in LockMode : <<p, x, m>> \notin locks
    BY <1>t, <1>1 DEF LocksExplained
  <1>14. RowsHeld'
    <2>1. \A q \in Proc : hit[q] => q # p
      BY <1>1
    <2> QED BY <1>t, <1>1, <1>2, <1>3, <1>5, <1>11, <2>1, ProcFacts DEF RowsHeld
  <1>15. LocksExplained'
    BY <1>t, <1>1, <1>2, <1>3, <1>4, <1>11, <1>13 DEF LocksExplained
  <1>16. JobUnlinked'
    BY <1>t, <1>1, <1>2, <1>3, ProcFacts DEF JobUnlinked
  <1>17. ViewHeld'
    BY <1>t, <1>1, ProcFacts DEF ViewHeld, StatsTypeOK
  <1>18. SnapshotTaken'
    <2> SUFFICES ASSUME met' = {}, NEW t \in Txn, stage'[t] \in {"view", "commit"} PROVE FALSE
      BY DEF SnapshotTaken
    <2>1. active = {} /\ t \in Proc
      BY <1>6, ProcFacts
    <2> QED BY <1>1, <2>1 DEF active
  <1> QED
    BY <1>5, <1>7, <1>8, <1>9, <1>10, <1>12, <1>14, <1>15, <1>16, <1>17, <1>18 DEF StatsIInv

\* The end of a transaction, committed or not, as far as the others are concerned.
LEMMA EndedKeeps ==
    ASSUME StatsIInv, NEW p \in Proc, Ended(p), stage[p] # "idle",
           rows' \in [Report -> Status \cup {"unborn", "gone"}],
           dupOf' \in [Report -> Report \cup {Null}],
           \A x \in Report : dupOf'[x] # Null => {x, dupOf'[x]} \subseteq Live',
           counted' \subseteq Report \X Status,
           LinksAcyclic',
           \A x \in Report : rows[x] # "unborn" => rows'[x] # "unborn",
           p # Job /\ hit[Job] => row[Job] \in Live',
           p # Job /\ hit[Job] /\ stage[Job] # "parent" => parent[Job] \in Live',
           p # Job /\ stage[Job] # "idle" => dupOf'[row[Job]] = Null /\ dupOf'[parent[Job]] = Null,
           \A q \in Proc, x \in Report :
              q # p /\ q # Job /\ hit[q] /\ value[q] = "gone" /\ <<q, x, "update">> \in locks
                 /\ dupOf[x] = row[q] => dupOf'[x] = row[q]
    PROVE  StatsIInv'
PROOF
  <1> USE DEF Ended
  <1>t. /\ StatsTypeOK /\ StatementsFit /\ LocksExclude /\ RowsHeld /\ LocksExplained
        /\ JobUnlinked /\ ViewHeld /\ MetOrAlone /\ SnapshotTaken /\ IsFiniteSet(active)
    BY DEF StatsIInv
  <1>1. /\ stage' \in [Proc -> {"idle", "row", "cascade", "parent", "view", "count", "commit"}]
        /\ stage'[p] = "idle" /\ \A q \in Proc : q # p => stage'[q] = stage[q]
    BY <1>t DEF StatsTypeOK
  <1>2. /\ row' \in [Proc -> Report \cup {Null}]
        /\ row'[p] = Null /\ \A q \in Proc : q # p => row'[q] = row[q]
    BY <1>t DEF StatsTypeOK
  <1>3. /\ parent' \in [Proc -> Report \cup {Null}]
        /\ parent'[p] = Null /\ \A q \in Proc : q # p => parent'[q] = parent[q]
    BY <1>t DEF StatsTypeOK
  <1>4. /\ value' \in [Proc -> Status \cup {Null, "gone", "linked"}]
        /\ value'[p] = Null /\ \A q \in Proc : q # p => value'[q] = value[q]
    BY <1>t DEF StatsTypeOK
  <1>5. /\ hit' \in [Proc -> BOOLEAN]
        /\ hit'[p] = FALSE /\ \A q \in Proc : q # p => hit'[q] = hit[q]
    BY <1>t DEF StatsTypeOK
  <1>6. /\ locks' \subseteq locks
        /\ \A q \in Proc, x \in Report, m \in LockMode :
              <<q, x, m>> \in locks' <=> <<q, x, m>> \in locks /\ q # p
    OBVIOUS
  <1>7. /\ snapshot' \in [Proc -> SUBSET (Report \X Status)]
        /\ \A q \in Proc : q # p => snapshot'[q] = snapshot[q]
    BY <1>t DEF StatsTypeOK
  <1>8. viewLock' \in Proc \cup {Null} /\ (viewLock' # Null => viewLock' = viewLock /\ viewLock # p)
    BY <1>t, ProcFacts DEF StatsTypeOK
  <1>9. active' = active \ {p} /\ p \in active
    BY <1>1 DEF active
  <1>10. MetOrAlone'
    BY <1>9, <1>t DEF MetOrAlone
  <1>11. IsFiniteSet(active')
    BY <1>9, <1>t, FS_RemoveElement
  <1>12. StatsTypeOK'
    <2>1. met' \subseteq active'
      BY <1>9, <1>t DEF StatsTypeOK
    <2>2. locks' \subseteq Proc \X Report \X {"update", "delete", "share"}
      BY <1>6, <1>t DEF StatsTypeOK
    <2> QED BY <1>1, <1>2, <1>3, <1>4, <1>5, <1>7, <1>8, <2>1, <2>2 DEF StatsTypeOK
  <1>13. StatementsFit'
    BY <1>t, <1>1, <1>2, <1>3, <1>4, <1>5 DEF StatementsFit
  <1>14. \A q \in Proc : q # p => Mode(q)' = Mode(q)
    BY <1>4 DEF Mode
  <1>15. LocksExclude'
    BY <1>6, <1>t DEF LocksExclude
  <1>16. RowsHeld'
    <2>1. ASSUME NEW q \in Proc, hit'[q] PROVE <<q, row[q], Mode(q)>>' \in locks'
      <3>1. q # p /\ hit[q] /\ stage[q] # "idle"
        BY <2>1, <1>5, <1>t DEF StatementsFit
      <3>2. row[q] \in Report /\ Mode(q) \in LockMode
        BY <3>1, <1>t, ModeFacts DEF StatementsFit
      <3> QED BY <3>1, <3>2, <1>2, <1>6, <1>14, <1>t DEF RowsHeld
    <2>2. ASSUME hit'[Job]
          PROVE  /\ row'[Job] \in Live'
                 /\ stage'[Job] # "parent" => /\ parent'[Job] \in Live'
                                              /\ <<Job, parent'[Job], "share">> \in locks'
      <3>1. Job # p /\ hit[Job] /\ stage[Job] # "idle" /\ stage'[Job] = stage[Job]
            /\ row'[Job] = row[Job] /\ parent'[Job] = parent[Job]
        BY <2>2, <1>1, <1>2, <1>3, <1>5, <1>t, ProcFacts DEF StatementsFit
      <3>2. parent[Job] \in Report /\ "share" \in LockMode
        BY <3>1, <1>t, ProcFacts DEF StatementsFit, LockMode
      <3> QED BY <3>1, <3>2, <1>6, <1>t, ProcFacts DEF RowsHeld
    <2> QED BY <2>1, <2>2 DEF RowsHeld
  <1>17. LocksExplained'
    <2> SUFFICES ASSUME NEW q \in Proc, NEW x \in Report, NEW m \in LockMode, <<q, x, m>> \in locks'
                 PROVE  /\ stage'[q] \notin {"idle", "row"}
                        /\ q # Job => /\ hit'[q]
                                      /\ \/ x = row'[q] /\ m = Mode(q)'
                                         \/ value'[q] = "gone" /\ m = "update" /\ dupOf'[x] = row'[q]
                        /\ q = Job => \/ x = row'[q] /\ m = "update"
                                      \/ x = parent'[q] /\ m # "delete" /\ stage'[q] # "parent"
      BY DEF LocksExplained
    <2>1. <<q, x, m>> \in locks /\ q # p
      BY <1>6
    <2> QED BY <2>1, <1>1, <1>2, <1>3, <1>4, <1>5, <1>14, <1>t DEF LocksExplained
  <1>18. JobUnlinked'
    BY <1>1, <1>2, <1>3, ProcFacts DEF JobUnlinked
  <1>19. ViewHeld'
    BY <1>8, <1>1, <1>t, ProcFacts DEF ViewHeld, StatsTypeOK
  <1>20. SnapshotTaken'
    <2> SUFFICES ASSUME met' = {}, NEW t \in Txn, stage'[t] \in {"view", "commit"} PROVE FALSE
      BY DEF SnapshotTaken
    <2>1. active' = {}
      BY <1>9, <1>t DEF MetOrAlone
    <2>2. t \in active'
      BY <1>1, ProcFacts DEF active
    <2> QED BY <2>1, <2>2
  <1> QED
    BY <1>10, <1>11, <1>12, <1>13, <1>15, <1>16, <1>17, <1>18, <1>19, <1>20 DEF StatsIInv

\* A rollback leaves the table as it was.
LEMMA RollbackKeeps ==
    ASSUME StatsIInv, NEW p \in Proc, Rollback(p)
    PROVE  StatsIInv'
PROOF
  <1> USE DEF Rollback, table
  <1>1. /\ LinksAcyclic' /\ Live' = Live
        /\ rows' \in [Report -> Status \cup {"unborn", "gone"}]
        /\ dupOf' \in [Report -> Report \cup {Null}]
        /\ \A r \in Report : dupOf'[r] # Null => {r, dupOf'[r]} \subseteq Live'
    BY TableFrame
  <1>2. /\ counted' \subseteq Report \X Status
        /\ hit[Job] => row[Job] \in Live'
        /\ hit[Job] /\ stage[Job] # "parent" => parent[Job] \in Live'
        /\ stage[Job] # "idle" => dupOf'[row[Job]] = Null /\ dupOf'[parent[Job]] = Null
    BY <1>1 DEF StatsIInv, StatsTypeOK, RowsHeld, JobUnlinked
  <1>3. stage[p] # "idle" /\ Ended(p) /\ rows' = rows /\ dupOf' = dupOf
    OBVIOUS
  <1>4. \A x \in Report : rows[x] # "unborn" => rows'[x] # "unborn"
    BY <1>3
  <1>5. \A q \in Proc, x \in Report :
           q # p /\ q # Job /\ hit[q] /\ value[q] = "gone" /\ <<q, x, "update">> \in locks
              /\ dupOf[x] = row[q] => dupOf'[x] = row[q]
    BY <1>3
  <1> HIDE DEF Rollback, table
  <1> QED BY <1>1, <1>2, <1>3, <1>4, <1>5, EndedKeeps, Zenon

\* What a commit makes of the rows: only the row of a handler that found it changes.
LEMMA WrittenFacts ==
    ASSUME StatsIInv, NEW p \in Proc, NEW found \in BOOLEAN, stage[p] # "idle"
    PROVE  LET f == Written(p, found)
           IN  /\ f \in [Report -> Status \cup {"unborn", "gone"}]
               /\ \A x \in Report : x # row[p] => f[x] = rows[x]
               /\ found /\ p # Job => f[row[p]] = value[p]
               /\ ~found \/ p = Job => f = rows
               /\ \A x \in Report : rows[x] # "unborn" => f[x] # "unborn"
PROOF
  <1>1. /\ rows \in [Report -> Status \cup {"unborn", "gone"}]
        /\ row[p] \in Report
        /\ p # Job => value[p] \in Status \cup {"gone"}
    BY DEF StatsIInv, StatsTypeOK, StatementsFit
  <1>2. value[p] \in Status \cup {"gone"} => value[p] # "unborn"
    BY StatusAssumption
  <1>3. CASE found /\ p # Job
    <2>1. Written(p, found) = [rows EXCEPT ![row[p]] = value[p]]
      BY <1>3 DEF Written
    <2> QED BY <1>1, <1>2, <1>3, <2>1
  <1>4. CASE ~(found /\ p # Job)
    <2>1. Written(p, found) = rows
      BY <1>4 DEF Written
    <2> QED BY <1>1, <1>4, <2>1
  <1> QED BY <1>3, <1>4

\* While a handler that found its row commits, the job's report is not that row, and
\* its parent is not deleted.
LEMMA JobRowsKept ==
    ASSUME StatsIInv, NEW p \in Proc, p # Job, hit[p], hit[Job]
    PROVE  /\ row[p] # row[Job]
           /\ stage[Job] # "parent" /\ row[p] = parent[Job] => value[p] # "gone"
PROOF
  <1>1. /\ LocksExclude
        /\ <<p, row[p], Mode(p)>> \in locks /\ <<Job, row[Job], Mode(Job)>> \in locks
        /\ stage[Job] # "parent" => <<Job, parent[Job], "share">> \in locks
    BY ProcFacts DEF StatsIInv, RowsHeld
  <1>2. stage[p] # "idle" /\ stage[Job] # "idle" /\ value[Job] = "linked"
        /\ row[p] \in Report /\ row[Job] \in Report /\ parent[Job] \in Report
    BY ProcFacts DEF StatsIInv, StatementsFit
  <1>3. Mode(Job) = "update" /\ Mode(p) \in {"update", "delete"} /\ "share" \in LockMode
        /\ Mode(p) \in LockMode /\ Mode(Job) \in LockMode
    BY <1>2, ModeFacts, ProcFacts DEF Mode, LockMode
  <1>4. row[p] # row[Job]
    <2>1. Conflict(Mode(p), Mode(Job))
      BY <1>3, ConflictFacts
    <2> QED BY <1>1, <1>2, <1>3, <2>1, ProcFacts DEF LocksExclude
  <1>5. ASSUME stage[Job] # "parent", row[p] = parent[Job], value[p] = "gone" PROVE FALSE
    <2>1. Mode(p) = "delete" /\ Conflict(Mode(p), "share")
      BY <1>3, <1>5, ModeFacts, ConflictFacts
    <2> QED BY <1>1, <1>2, <1>3, <1>5, <2>1, ProcFacts DEF LocksExclude
  <1> QED BY <1>4, <1>5

\* A duplicate that a deletion holds to clear it is nobody else's to touch.
LEMMA OrphansKept ==
    ASSUME StatsIInv, NEW p \in Proc, hit[p], NEW q \in Proc, q # p, q # Job, hit[q],
           value[q] = "gone", NEW x \in Report, <<q, x, "update">> \in locks, dupOf[x] = row[q]
    PROVE  /\ x # row[p]
           /\ p # Job /\ value[p] = "gone" => dupOf[x] # row[p]
PROOF
  <1>1. /\ LocksExclude
        /\ <<p, row[p], Mode(p)>> \in locks /\ <<q, row[q], Mode(q)>> \in locks
    BY DEF StatsIInv, RowsHeld
  <1>2. stage[p] # "idle" /\ stage[q] # "idle" /\ row[p] \in Report /\ row[q] \in Report
    BY DEF StatsIInv, StatementsFit
  <1>3. Mode(p) \in {"update", "delete"} /\ Mode(q) = "delete" /\ "update" \in LockMode
        /\ Mode(p) \in LockMode /\ Mode(q) \in LockMode
    BY ModeFacts DEF LockMode
  <1>4. x # row[p]
    <2>1. Conflict(Mode(p), "update")
      BY <1>3, ConflictFacts, ModeFacts DEF LockMode
    <2> QED BY <1>1, <1>2, <1>3, <2>1 DEF LocksExclude
  <1>5. row[p] # row[q]
    <2>1. Conflict(Mode(p), Mode(q))
      BY <1>3, ConflictFacts
    <2> QED BY <1>1, <1>2, <1>3, <2>1 DEF LocksExclude
  <1> QED BY <1>4, <1>5

\* What a commit makes of the links: the job adds one between two reports that had none,
\* a deletion clears those of its row.
LEMMA DupOfFacts ==
    ASSUME StatsIInv, NEW p \in Proc, stage[p] = "commit"
    PROVE  LET f == DupOfWritten(p)
           IN  /\ f \in [Report -> Report \cup {Null}]
               /\ p # Job => /\ \A x \in Report : f[x] \in {dupOf[x], Null}
                             /\ hit[p] /\ value[p] = "gone" =>
                                   \A x \in Report : x = row[p] \/ dupOf[x] = row[p] => f[x] = Null
                             /\ \A x \in Report : f[x] # dupOf[x] =>
                                   hit[p] /\ value[p] = "gone" /\ (x = row[p] \/ dupOf[x] = row[p])
               /\ p = Job => /\ \A x \in Report : x # row[Job] \/ ~hit[Job] => f[x] = dupOf[x]
                             /\ hit[Job] => f[row[Job]] = parent[Job]
PROOF
  <1>1. /\ dupOf \in [Report -> Report \cup {Null}]
        /\ row[p] \in Report
        /\ p = Job => parent[p] \in Report
    BY DEF StatsIInv, StatsTypeOK, StatementsFit
  <1>2. CASE ~hit[p]
    <2>1. DupOfWritten(p) = dupOf
      BY <1>2 DEF DupOfWritten
    <2> QED BY <1>1, <1>2, <2>1
  <1>3. CASE hit[p] /\ p = Job
    <2>1. DupOfWritten(p) = [dupOf EXCEPT ![row[p]] = parent[p]]
      BY <1>3 DEF DupOfWritten
    <2> QED BY <1>1, <1>3, <2>1
  <1>4. CASE hit[p] /\ p # Job /\ value[p] # "gone"
    <2>1. DupOfWritten(p) = dupOf
      BY <1>4 DEF DupOfWritten
    <2> QED BY <1>1, <1>4, <2>1
  <1>5. CASE hit[p] /\ p # Job /\ value[p] = "gone"
    <2>1. DupOfWritten(p) = [c \in Report |-> IF c = row[p] \/ dupOf[c] = row[p]
                                              THEN Null ELSE dupOf[c]]
      BY <1>5 DEF DupOfWritten
    <2> QED BY <1>1, <1>5, <2>1
  <1> QED BY <1>2, <1>3, <1>4, <1>5

\* A commit keeps the foreign key and the order of the links, and takes nothing from
\* under the others.
LEMMA CommitKeeps ==
    ASSUME StatsIInv, NEW p \in Proc, Commit(p)
    PROVE  StatsIInv'
PROOF
  <1>t. /\ StatsTypeOK /\ StatementsFit /\ RowsHeld /\ JobUnlinked /\ LinksAcyclic
    BY DEF StatsIInv
  <1>1. /\ stage[p] = "commit" /\ Ended(p)
        /\ rows' = Written(p, hit[p]) /\ dupOf' = DupOfWritten(p)
        /\ counted' \in {counted, snapshot[p]}
    BY DEF Commit
  <1>2. stage[p] # "idle" /\ hit[p] \in BOOLEAN
    BY <1>1, <1>t DEF StatsTypeOK
  <1>3. /\ rows' \in [Report -> Status \cup {"unborn", "gone"}]
        /\ \A x \in Report : x # row[p] => rows'[x] = rows[x]
        /\ hit[p] /\ p # Job => rows'[row[p]] = value[p]
        /\ ~hit[p] \/ p = Job => rows' = rows
        /\ \A x \in Report : rows[x] # "unborn" => rows'[x] # "unborn"
    BY <1>1, <1>2, WrittenFacts
  <1>4. /\ dupOf' \in [Report -> Report \cup {Null}]
        /\ p # Job => /\ \A x \in Report : dupOf'[x] \in {dupOf[x], Null}
                      /\ hit[p] /\ value[p] = "gone" =>
                            \A x \in Report : x = row[p] \/ dupOf[x] = row[p] => dupOf'[x] = Null
                      /\ \A x \in Report : dupOf'[x] # dupOf[x] =>
                            hit[p] /\ value[p] = "gone" /\ (x = row[p] \/ dupOf[x] = row[p])
        /\ p = Job => /\ \A x \in Report : x # row[Job] \/ ~hit[Job] => dupOf'[x] = dupOf[x]
                      /\ hit[Job] => dupOf'[row[Job]] = parent[Job]
    BY <1>1, DupOfFacts
  <1>5. row[p] \in Report /\ (p # Job => value[p] \in Status \cup {"gone"})
        /\ (p = Job => parent[p] \in Report /\ parent[p] # row[p])
    BY <1>2, <1>t DEF StatementsFit
  <1>6. /\ Live \subseteq Report /\ Live' \subseteq Report
        /\ \A x \in Live : x # row[p] => x \in Live'
        /\ p # Job /\ hit[p] /\ value[p] # "gone" => row[p] \in Live'
        /\ ~hit[p] \/ p = Job => Live' = Live
    BY <1>3, <1>5 DEF Live
  <1>7. counted' \subseteq Report \X Status
    BY <1>1, <1>t DEF StatsTypeOK
  <1>8. \A x \in Report : dupOf'[x] # Null => {x, dupOf'[x]} \subseteq Live'
    <2> SUFFICES ASSUME NEW x \in Report, dupOf'[x] # Null PROVE x \in Live' /\ dupOf'[x] \in Live'
      OBVIOUS
    <2>1. dupOf[x] # Null => x \in Live /\ dupOf[x] \in Live
      BY <1>t DEF StatsTypeOK
    <2>2. CASE p = Job
      <3>1. CASE x = row[Job] /\ hit[Job]
        <4>1. row[Job] \in Live /\ parent[Job] \in Live
          BY <3>1, <2>2, <1>1, <1>t DEF RowsHeld
        <4> QED BY <4>1, <3>1, <2>2, <1>4, <1>6
      <3>2. CASE ~(x = row[Job] /\ hit[Job])
        BY <3>2, <2>1, <2>2, <1>4, <1>6
      <3> QED BY <3>1, <3>2
    <2>3. CASE p # Job
      <3>1. dupOf'[x] = dupOf[x] /\ x \in Live /\ dupOf[x] \in Live
        BY <2>1, <2>3, <1>4
      <3>2. CASE hit[p] /\ value[p] = "gone"
        <4>1. x # row[p] /\ dupOf[x] # row[p]
          BY <2>3, <3>2, <1>4
        <4> QED BY <3>1, <4>1, <1>6
      <3>3. CASE ~(hit[p] /\ value[p] = "gone")
        BY <3>1, <3>3, <2>3, <1>6
      <3> QED BY <3>2, <3>3
    <2> QED BY <2>2, <2>3
  <1>9. LinksAcyclic'
    <2> SUFFICES ASSUME NEW S \in SUBSET Report, S # {} PROVE \E r \in S : dupOf'[r] \notin S
      BY DEF LinksAcyclic
    <2>1. PICK r \in S : dupOf[r] \notin S
      BY <1>t DEF LinksAcyclic
    <2>2. Null \notin S
      BY NullAssumption
    <2>3. CASE p # Job
      BY <2>1, <2>2, <2>3, <1>4
    <2>4. CASE p = Job /\ ~hit[Job]
      BY <2>1, <2>4, <1>4
    <2>5. CASE p = Job /\ hit[Job]
      <3>1. dupOf[parent[Job]] = Null /\ dupOf'[parent[Job]] = Null
        BY <2>5, <1>2, <1>4, <1>5, <1>t DEF JobUnlinked
      <3>2. CASE parent[Job] \in S
        BY <3>1, <3>2, <2>2
      <3>3. CASE parent[Job] \notin S
        BY <3>3, <2>1, <2>5, <1>4
      <3> QED BY <3>2, <3>3
    <2> QED BY <2>3, <2>4, <2>5
  <1>10. ASSUME p # Job, hit[Job]
         PROVE  /\ row[Job] \in Live'
                /\ stage[Job] # "parent" => parent[Job] \in Live'
    <2>1. row[Job] \in Live /\ (stage[Job] # "parent" => parent[Job] \in Live)
      BY <1>10, <1>t DEF RowsHeld
    <2>2. CASE hit[p]
      <3>1. /\ row[p] # row[Job]
            /\ stage[Job] # "parent" /\ row[p] = parent[Job] => value[p] # "gone"
        BY <2>2, <1>10, JobRowsKept
      <3> QED BY <2>1, <2>2, <3>1, <1>6, <1>10
    <2>3. CASE ~hit[p]
      BY <2>1, <2>3, <1>6
    <2> QED BY <2>2, <2>3
  <1>11. ASSUME p # Job, stage[Job] # "idle"
         PROVE  dupOf'[row[Job]] = Null /\ dupOf'[parent[Job]] = Null
    <2>1. row[Job] \in Report /\ parent[Job] \in Report
      BY <1>11, <1>t, ProcFacts DEF StatementsFit
    <2> QED BY <2>1, <1>4, <1>11, <1>t DEF JobUnlinked
  <1>12. ASSUME NEW q \in Proc, NEW x \in Report, q # p, q # Job, hit[q], value[q] = "gone",
                <<q, x, "update">> \in locks, dupOf[x] = row[q]
         PROVE  dupOf'[x] = row[q]
    <2>1. CASE hit[p]
      <3>1. x # row[p] /\ (p # Job /\ value[p] = "gone" => dupOf[x] # row[p])
        BY <2>1, <1>12, OrphansKept
      <3> QED BY <3>1, <1>4, <1>12
    <2>2. CASE ~hit[p]
      BY <2>2, <1>4, <1>12
    <2> QED BY <2>1, <2>2
  <1>13. /\ (p # Job /\ hit[Job] => row[Job] \in Live')
         /\ (p # Job /\ hit[Job] /\ stage[Job] # "parent" => parent[Job] \in Live')
         /\ (p # Job /\ stage[Job] # "idle" => dupOf'[row[Job]] = Null /\ dupOf'[parent[Job]] = Null)
    BY <1>10, <1>11
  <1>14. \A q \in Proc, x \in Report :
            q # p /\ q # Job /\ hit[q] /\ value[q] = "gone" /\ <<q, x, "update">> \in locks
               /\ dupOf[x] = row[q] => dupOf'[x] = row[q]
    BY <1>12
  <1> QED BY <1>1, <1>2, <1>3, <1>4, <1>7, <1>8, <1>9, <1>13, <1>14, EndedKeeps, Zenon

\* A statement of p that goes on to s: it finds its row or not (h), has its snapshot
\* taken (sn) and takes the locks L, which nobody stands against.
GoesOn(p, s, h, sn, L) ==
    /\ stage[p] # "idle" /\ UNCHANGED <<table, request, met>>
    /\ s \in {"cascade", "parent", "view", "count", "commit"}
    /\ stage' = [stage EXCEPT ![p] = s]
    /\ h \in BOOLEAN /\ hit' = [hit EXCEPT ![p] = h] /\ (hit[p] => h)
    /\ sn \in SUBSET (Report \X Status) /\ snapshot' = [snapshot EXCEPT ![p] = sn]
    /\ L \in SUBSET ({p} \X Report \X LockMode) /\ locks' = locks \cup L
    /\ LocksExclude' /\ viewLock' \in Proc \cup {Null} /\ ViewHeld'
    /\ s = "cascade" => p # Job /\ h /\ value[p] = "gone"
    /\ s = "parent" => p = Job /\ h /\ stage[p] = "row"
    /\ s = "count" => p = Job
    /\ h => <<p, row[p], Mode(p)>> \in locks'
    /\ p = Job /\ h => row[Job] \in Live
    /\ p = Job /\ h /\ s # "parent" =>
          parent[Job] \in Live /\ <<Job, parent[Job], "share">> \in locks'
    /\ \A x \in Report, m \in LockMode : <<p, x, m>> \in L =>
          /\ p # Job => /\ h
                        /\ \/ x = row[p] /\ m = Mode(p)
                           \/ value[p] = "gone" /\ m = "update" /\ dupOf[x] = row[p]
          /\ p = Job => \/ x = row[p] /\ m = "update"
                        \/ x = parent[p] /\ m # "delete" /\ s # "parent"
    /\ met = {} /\ p # Job /\ s \in {"view", "commit"} => sn = Seen(Written(p, h))

\* Going on keeps the invariant.
LEMMA StepKeeps ==
    ASSUME StatsIInv, NEW p \in Proc, NEW s, NEW h, NEW sn, NEW L, GoesOn(p, s, h, sn, L)
    PROVE  StatsIInv'
PROOF
  <1> USE DEF table, request, GoesOn
  <1>t. /\ StatsTypeOK /\ StatementsFit /\ LocksExclude /\ RowsHeld /\ LocksExplained
        /\ JobUnlinked /\ ViewHeld /\ MetOrAlone /\ SnapshotTaken /\ IsFiniteSet(active)
    BY DEF StatsIInv
  <1>1. /\ stage' \in [Proc -> {"idle", "row", "cascade", "parent", "view", "count", "commit"}]
        /\ stage'[p] = s /\ \A q \in Proc : q # p => stage'[q] = stage[q]
    BY <1>t DEF StatsTypeOK
  <1>2. /\ hit' \in [Proc -> BOOLEAN]
        /\ hit'[p] = h /\ \A q \in Proc : q # p => hit'[q] = hit[q]
    BY <1>t DEF StatsTypeOK
  <1>3. /\ snapshot' \in [Proc -> SUBSET (Report \X Status)]
        /\ snapshot'[p] = sn /\ \A q \in Proc : q # p => snapshot'[q] = snapshot[q]
    BY <1>t DEF StatsTypeOK
  <1>4. /\ LinksAcyclic' /\ Live' = Live
        /\ (\A x \in Report : dupOf[x] # Null => {x, dupOf[x]} \subseteq Live)'
    BY TableFrame
  <1>5. active' = active
    BY <1>1 DEF active
  <1>6. /\ locks' \subseteq Proc \X Report \X LockMode
        /\ \A q \in Proc, x \in Report, m \in LockMode :
              q # p => (<<q, x, m>> \in locks' <=> <<q, x, m>> \in locks)
    BY <1>t DEF StatsTypeOK, LockMode
  <1>7. \A q : Mode(q)' = Mode(q)
    BY DEF Mode
  <1>8. StatsTypeOK'
    BY <1>t, <1>1, <1>2, <1>3, <1>4, <1>5, <1>6 DEF StatsTypeOK, LockMode
  <1>9. StatementsFit'
    BY <1>t, <1>1, <1>2 DEF StatementsFit
  <1>10. RowsHeld'
    <2>1. ASSUME NEW q \in Proc, hit'[q] PROVE <<q, row[q], Mode(q)>> \in locks'
      BY <2>1, <1>2, <1>t DEF RowsHeld
    <2>2. hit'[Job] => row[Job] \in Live
      BY <1>2, <1>t, ProcFacts DEF RowsHeld
    <2>3. hit'[Job] /\ stage'[Job] # "parent" =>
             parent[Job] \in Live /\ <<Job, parent[Job], "share">> \in locks'
      <3>1. CASE p = Job
        BY <3>1, <1>1, <1>2
      <3>2. CASE p # Job
        BY <3>2, <1>1, <1>2, <1>t, ProcFacts DEF RowsHeld
      <3> QED BY <3>1, <3>2
    <2> QED BY <2>1, <2>2, <2>3, <1>4, <1>7 DEF RowsHeld
  <1>11. LocksExplained'
    <2> SUFFICES ASSUME NEW q \in Proc, NEW x \in Report, NEW m \in LockMode, <<q, x, m>> \in locks'
                 PROVE  /\ stage'[q] \notin {"idle", "row"}
                        /\ q # Job => /\ hit'[q]
                                      /\ \/ x = row[q] /\ m = Mode(q)
                                         \/ value[q] = "gone" /\ m = "update" /\ dupOf[x] = row[q]
                        /\ q = Job => \/ x = row[q] /\ m = "update"
                                      \/ x = parent[q] /\ m # "delete" /\ stage'[q] # "parent"
      BY <1>7 DEF LocksExplained
    <2>1. CASE q # p
      BY <2>1, <1>1, <1>2, <1>6, <1>t DEF LocksExplained
    <2>2. CASE q = p /\ <<p, x, m>> \in L
      BY <2>2, <1>1, <1>2
    <2>3. CASE q = p /\ <<p, x, m>> \in locks
      BY <2>3, <1>1, <1>2, <1>t DEF LocksExplained
    <2> QED BY <2>1, <2>2, <2>3
  <1>12. JobUnlinked'
    BY <1>t, <1>1, ProcFacts DEF JobUnlinked
  <1>13. MetOrAlone'
    BY <1>5, <1>t DEF MetOrAlone
  <1>14. SnapshotTaken'
    <2> SUFFICES ASSUME met = {}, NEW t \in Txn, stage'[t] \in {"view", "commit"}
                 PROVE  snapshot'[t] = Seen(Written(t, hit[t]))'
      BY DEF SnapshotTaken
    <2>1. t \in Proc /\ t # Job /\ t \in active' /\ p \in active
      BY <1>1, ProcFacts DEF active
    <2>2. t = p
      BY <2>1, <1>5, <1>t DEF MetOrAlone
    <2>3. Seen(Written(t, hit[t]))' = Seen(Written(t, hit'[t]))
      BY DEF Seen, Written
    <2> QED BY <2>1, <2>2, <2>3, <1>1, <1>2, <1>3
  <1>15. IsFiniteSet(active')
    BY <1>5, <1>t
  <1> QED
    BY <1>4, <1>8, <1>9, <1>10, <1>11, <1>12, <1>13, <1>14, <1>15 DEF StatsIInv

\* What the view counts are reports with the part of their status it tells apart.
LEMMA SeenType == \A f : Seen(f) \in SUBSET (Report \X Status)
PROOF
  BY DEF Seen

\* A process that only keeps its place rewrites nothing.
LEMMA SameEntry ==
    ASSUME StatsTypeOK, NEW p \in Proc
    PROVE  /\ stage = [stage EXCEPT ![p] = stage[p]]
           /\ hit = [hit EXCEPT ![p] = hit[p]] /\ hit[p] \in BOOLEAN
           /\ snapshot = [snapshot EXCEPT ![p] = snapshot[p]]
           /\ snapshot[p] \in SUBSET (Report \X Status)
           /\ locks = locks \cup {}
           /\ viewLock \in Proc \cup {Null}
PROOF
  BY DEF StatsTypeOK

\* The view is locked by a refresh, which the snapshot precedes.
LEMMA RefreshKeeps ==
    ASSUME StatsIInv, NEW p \in Proc, Refresh(p)
    PROVE  StatsIInv'
PROOF
  <1>t. StatsTypeOK /\ StatementsFit /\ RowsHeld /\ LocksExclude /\ SnapshotTaken
    BY DEF StatsIInv
  <1> DEFINE s == IF p = Job THEN "count" ELSE "commit"
  <1>1. /\ stage[p] = "view" /\ viewLock' = p /\ stage' = [stage EXCEPT ![p] = s]
        /\ UNCHANGED <<table, request, met>> /\ hit' = hit /\ locks' = locks /\ snapshot' = snapshot
    BY DEF Refresh
  <1>2. /\ hit' = [hit EXCEPT ![p] = hit[p]] /\ hit[p] \in BOOLEAN
        /\ snapshot' = [snapshot EXCEPT ![p] = snapshot[p]]
        /\ snapshot[p] \in SUBSET (Report \X Status)
        /\ locks' = locks \cup {}
    BY <1>1, <1>t, SameEntry
  <1>3. LocksExclude'
    BY <1>1, <1>t DEF LocksExclude
  <1>4. viewLock' \in Proc \cup {Null} /\ ViewHeld'
    <2>1. stage'[p] = s
      BY <1>1, <1>t DEF StatsTypeOK
    <2> QED BY <2>1, <1>1 DEF ViewHeld
  <1>5. /\ hit[p] => <<p, row[p], Mode(p)>> \in locks'
        /\ (p = Job /\ hit[p] => row[Job] \in Live)
        /\ (p = Job /\ hit[p] /\ s # "parent" =>
              parent[Job] \in Live /\ <<Job, parent[Job], "share">> \in locks')
    BY <1>1, <1>t DEF RowsHeld
  <1>6. met = {} /\ p # Job => snapshot[p] = Seen(Written(p, hit[p]))
    BY <1>1, <1>t, ProcFacts DEF SnapshotTaken
  <1>7. stage[p] # "idle" /\ s \in {"cascade", "parent", "view", "count", "commit"}
        /\ s # "cascade" /\ s # "parent" /\ (s = "count" => p = Job)
    BY <1>1
  <1>8. {} \in SUBSET ({p} \X Report \X LockMode)
    OBVIOUS
  <1> HIDE DEF s
  <1>9. GoesOn(p, s, hit[p], snapshot[p], {})
    BY <1>1, <1>2, <1>3, <1>4, <1>5, <1>6, <1>7, <1>8 DEF GoesOn
  <1> QED BY <1>9, StepKeeps

\* A step that leaves the view to whoever has it.
LEMMA ViewLeft ==
    ASSUME StatsIInv, NEW p \in Proc, NEW s, stage' = [stage EXCEPT ![p] = s],
           stage[p] \in {"count", "commit"} => s = "commit", viewLock' = viewLock
    PROVE  ViewHeld' /\ viewLock' \in Proc \cup {Null}
PROOF
  <1>1. StatsTypeOK /\ ViewHeld
    BY DEF StatsIInv
  <1>2. stage'[p] = s /\ \A q \in Proc : q # p => stage'[q] = stage[q]
    BY <1>1 DEF StatsTypeOK
  <1> QED BY <1>1, <1>2 DEF ViewHeld, StatsTypeOK

\* A statement gets its row when no one stands against it.
LEMMA WriteKeeps ==
    ASSUME StatsIInv, NEW p \in Proc, Write(p)
    PROVE  StatsIInv'
PROOF
  <1>t. StatsTypeOK /\ StatementsFit /\ RowsHeld /\ LocksExclude /\ LocksExplained
    BY DEF StatsIInv
  <1> DEFINE found == row[p] \in Live \/ rows[row[p]] = "unborn"
             waits == found /\ (p = Job \/ Mode(p) = "delete")
             s == IF ~waits THEN "view" ELSE IF p = Job THEN "parent" ELSE "cascade"
             sn == IF waits THEN snapshot[p] ELSE Seen(Written(p, found))
             L == IF found THEN {<<p, row[p], Mode(p)>>} ELSE {}
  <1>1. /\ stage[p] = "row" /\ Waits(p) = {} /\ hit' = [hit EXCEPT ![p] = found]
        /\ UNCHANGED <<table, request, met>> /\ viewLock' = viewLock
    BY DEF Write
  <1>2. locks' = locks \cup L
    BY DEF Write
  <1>3. stage' = [stage EXCEPT ![p] = s] /\ snapshot' = [snapshot EXCEPT ![p] = sn]
    <2>1. CASE waits
      <3>1. snapshot' = snapshot
        BY <2>1 DEF Write
      <3>2. stage' = [stage EXCEPT ![p] = IF p = Job THEN "parent" ELSE "cascade"]
        BY <2>1 DEF Write
      <3> QED BY <2>1, <3>1, <3>2, <1>t, SameEntry
    <2>2. CASE ~waits
      <3>1. Trigger(p, found)
        BY <2>2 DEF Write
      <3> QED BY <2>2, <3>1 DEF Trigger
    <2> QED BY <2>1, <2>2
  <1>4. /\ row[p] \in Report /\ ~hit[p] /\ Mode(p) \in LockMode
        /\ (Mode(p) = "delete" <=> value[p] = "gone")
        /\ (p = Job => value[p] = "linked" /\ rows[row[p]] # "unborn")
    BY <1>1, <1>t, ModeFacts DEF StatementsFit
  <1>5. L \in SUBSET ({p} \X Report \X LockMode) /\ found \in BOOLEAN
    BY <1>4
  <1>6. LocksExclude'
    <2>1. CASE found
      <3>1. Holders(p, row[p], Mode(p)) = {}
        BY <1>1 DEF Waits
      <3>2. locks' = locks \cup {<<p, row[p], Mode(p)>>}
        BY <2>1, <1>2
      <3> QED BY <3>1, <3>2, <1>4, NewLockExcludes
    <2>2. CASE ~found
      BY <2>2, <1>2, <1>t DEF LocksExclude
    <2> QED BY <2>1, <2>2
  <1>7. sn \in SUBSET (Report \X Status)
    BY <1>t, SameEntry, SeenType
  <1>8. s \in {"cascade", "parent", "view", "count", "commit"} /\ stage[p] # "idle"
        /\ (s = "cascade" => p # Job /\ found /\ value[p] = "gone")
        /\ (s = "parent" => p = Job /\ found /\ stage[p] = "row") /\ s # "count"
        /\ (p = Job /\ found => s = "parent")
    BY <1>1, <1>4
  <1>9. /\ (hit[p] => found)
        /\ (found => <<p, row[p], Mode(p)>> \in locks')
        /\ (p = Job /\ found => row[Job] \in Live)
    BY <1>2, <1>4
  <1>10. \A x \in Report, m \in LockMode : <<p, x, m>> \in L =>
            /\ p # Job => /\ found
                          /\ \/ x = row[p] /\ m = Mode(p)
                             \/ value[p] = "gone" /\ m = "update" /\ dupOf[x] = row[p]
            /\ p = Job => \/ x = row[p] /\ m = "update"
                          \/ x = parent[p] /\ m # "delete" /\ s # "parent"
    BY <1>4 DEF Mode
  <1>11. met = {} /\ p # Job /\ s \in {"view", "commit"} => sn = Seen(Written(p, found))
    OBVIOUS
  <1>12. ViewHeld' /\ viewLock' \in Proc \cup {Null}
    BY <1>1, <1>3, ViewLeft
  <1> HIDE DEF s, sn, L, found, waits
  <1>13. GoesOn(p, s, found, sn, L)
    BY <1>1, <1>2, <1>3, <1>5, <1>6, <1>7, <1>8, <1>9, <1>10, <1>11, <1>12 DEF GoesOn
  <1> QED BY <1>13, StepKeeps

\* A deletion takes the duplicates it has to clear, then fires the trigger.
LEMMA CascadeKeeps ==
    ASSUME StatsIInv, NEW t \in Txn, Cascade(t)
    PROVE  StatsIInv'
PROOF
  <1>t. StatsTypeOK /\ StatementsFit /\ RowsHeld /\ LocksExclude
    BY DEF StatsIInv
  <1>1. /\ stage[t] = "cascade" /\ UNCHANGED <<table, request, met>>
        /\ hit' = hit /\ viewLock' = viewLock
    BY DEF Cascade
  <1>2. t \in Proc /\ t # Job /\ hit[t] /\ value[t] = "gone" /\ row[t] \in Report
        /\ <<t, row[t], Mode(t)>> \in locks
    BY <1>1, <1>t, ProcFacts DEF StatementsFit, RowsHeld
  <1>3. hit' = [hit EXCEPT ![t] = hit[t]] /\ hit[t] \in BOOLEAN
    BY <1>1, <1>2, <1>t, SameEntry
  <1>4. CASE \E c \in Orphans(t) : /\ Holders(t, c, "update") = {}
                                   /\ locks' = locks \cup {<<t, c, "update">>}
                                   /\ UNCHANGED <<stage, snapshot>>
    <2>1. PICK c \in Orphans(t) : /\ Holders(t, c, "update") = {}
                                  /\ locks' = locks \cup {<<t, c, "update">>}
                                  /\ UNCHANGED <<stage, snapshot>>
      BY <1>4
    <2>2. c \in Report /\ dupOf[c] = row[t] /\ "update" \in LockMode
      BY <2>1 DEF Orphans, LockMode
    <2>3. LocksExclude'
      BY <2>1, <2>2, <1>2, NewLockExcludes
    <2>4. stage' = [stage EXCEPT ![t] = "cascade"]
          /\ snapshot' = [snapshot EXCEPT ![t] = snapshot[t]]
          /\ snapshot[t] \in SUBSET (Report \X Status)
      BY <2>1, <1>1, <1>2, <1>t, SameEntry
    <2>5. ViewHeld' /\ viewLock' \in Proc \cup {Null}
      BY <2>4, <1>1, <1>2, ViewLeft
    <2>6. \A x \in Report, m \in LockMode : <<t, x, m>> \in {<<t, c, "update">>} =>
             m = "update" /\ dupOf[x] = row[t]
      BY <2>2
    <2>7. {<<t, c, "update">>} \in SUBSET ({t} \X Report \X LockMode)
      BY <2>2
    <2>8. <<t, row[t], Mode(t)>> \in locks'
      BY <2>1, <1>2
    <2>9. GoesOn(t, "cascade", hit[t], snapshot[t], {<<t, c, "update">>})
      BY <2>1, <2>3, <2>4, <2>5, <2>6, <2>7, <2>8, <1>1, <1>2, <1>3 DEF GoesOn
    <2> QED BY <2>9, <1>2, StepKeeps
  <1>5. CASE Orphans(t) = {} /\ Trigger(t, TRUE) /\ UNCHANGED locks
    <2>1. /\ stage' = [stage EXCEPT ![t] = "view"]
          /\ snapshot' = [snapshot EXCEPT ![t] = Seen(Written(t, TRUE))]
          /\ locks' = locks \cup {}
      BY <1>5 DEF Trigger
    <2>2. ViewHeld' /\ viewLock' \in Proc \cup {Null}
      BY <2>1, <1>1, <1>2, ViewLeft
    <2>3. LocksExclude'
      BY <1>5, <1>t DEF LocksExclude
    <2>4. Seen(Written(t, TRUE)) \in SUBSET (Report \X Status)
      BY SeenType
    <2>5. hit[t] = TRUE
      BY <1>2, <1>3
    <2>6. GoesOn(t, "view", TRUE, Seen(Written(t, TRUE)), {})
      BY <2>1, <2>2, <2>3, <2>4, <2>5, <1>1, <1>2, <1>3 DEF GoesOn
    <2> QED BY <2>6, <1>2, StepKeeps
  <1> QED BY <1>4, <1>5 DEF Cascade

\* The job keeps the parent of its link from deletion.
LEMMA KeepParentKeeps ==
    ASSUME StatsIInv, KeepParent
    PROVE  StatsIInv'
PROOF
  <1>t. StatsTypeOK /\ StatementsFit /\ RowsHeld /\ LocksExclude
    BY DEF StatsIInv
  <1> DEFINE sn == Seen(Written(Job, TRUE))
  <1>1. /\ stage[Job] = "parent" /\ Waits(Job) = {} /\ parent[Job] \in Live
        /\ locks' = locks \cup {<<Job, parent[Job], "share">>}
        /\ UNCHANGED <<table, request, met>> /\ hit' = hit /\ viewLock' = viewLock
        /\ stage' = [stage EXCEPT ![Job] = "view"]
        /\ snapshot' = [snapshot EXCEPT ![Job] = sn]
    BY DEF KeepParent, Trigger
  <1>2. Job \in Proc /\ hit[Job] /\ parent[Job] \in Report /\ row[Job] \in Live
        /\ <<Job, row[Job], Mode(Job)>> \in locks /\ "share" \in LockMode
    BY <1>1, <1>t, ProcFacts DEF StatementsFit, RowsHeld, LockMode
  <1>3. hit' = [hit EXCEPT ![Job] = hit[Job]] /\ hit[Job] = TRUE
    BY <1>1, <1>2, <1>t, SameEntry
  <1>4. LocksExclude'
    <2>1. Holders(Job, parent[Job], "share") = {}
      BY <1>1 DEF Waits
    <2> QED BY <2>1, <1>1, <1>2, NewLockExcludes
  <1>5. ViewHeld' /\ viewLock' \in Proc \cup {Null}
    BY <1>1, <1>2, ViewLeft
  <1>6. sn \in SUBSET (Report \X Status)
    BY SeenType
  <1> HIDE DEF sn
  <1>7. \A x \in Report, m \in LockMode : <<Job, x, m>> \in {<<Job, parent[Job], "share">>} =>
           x = parent[Job] /\ m = "share"
    BY <1>2
  <1>8. {<<Job, parent[Job], "share">>} \in SUBSET ({Job} \X Report \X LockMode)
    BY <1>2
  <1>9. <<Job, row[Job], Mode(Job)>> \in locks' /\ <<Job, parent[Job], "share">> \in locks'
    BY <1>1, <1>2
  <1>10. GoesOn(Job, "view", TRUE, sn, {<<Job, parent[Job], "share">>})
    BY <1>1, <1>2, <1>3, <1>4, <1>5, <1>6, <1>7, <1>8, <1>9 DEF GoesOn
  <1> QED BY <1>10, <1>2, StepKeeps

\* The second UPDATE of the job, on the parent, with the view held.
LEMMA CountKeeps ==
    ASSUME StatsIInv, Count
    PROVE  StatsIInv'
PROOF
  <1>t. StatsTypeOK /\ StatementsFit /\ RowsHeld /\ LocksExclude
    BY DEF StatsIInv
  <1> DEFINE L == IF parent[Job] \in Live THEN {<<Job, parent[Job], "update">>} ELSE {}
  <1>1. /\ stage[Job] = "count" /\ Waits(Job) = {}
        /\ locks' = locks \cup L
        /\ UNCHANGED <<table, request, met>> /\ hit' = hit /\ viewLock' = viewLock
        /\ stage' = [stage EXCEPT ![Job] = "commit"]
        /\ snapshot' = [snapshot EXCEPT ![Job] = Seen(rows)]
    BY DEF Count
  <1>2. Job \in Proc /\ parent[Job] \in Report /\ "update" \in LockMode
        /\ (hit[Job] => <<Job, row[Job], Mode(Job)>> \in locks /\ row[Job] \in Live
                        /\ parent[Job] \in Live /\ <<Job, parent[Job], "share">> \in locks)
    BY <1>1, <1>t, ProcFacts DEF StatementsFit, RowsHeld, LockMode
  <1>3. hit' = [hit EXCEPT ![Job] = hit[Job]] /\ hit[Job] \in BOOLEAN
    BY <1>1, <1>2, <1>t, SameEntry
  <1>4. LocksExclude'
    <2>1. Holders(Job, parent[Job], "update") = {}
      BY <1>1 DEF Waits
    <2>2. CASE parent[Job] \in Live
      BY <2>1, <2>2, <1>1, <1>2, NewLockExcludes
    <2>3. CASE parent[Job] \notin Live
      BY <2>3, <1>1, <1>t DEF LocksExclude
    <2> QED BY <2>2, <2>3
  <1>5. ViewHeld' /\ viewLock' \in Proc \cup {Null}
    BY <1>1, <1>2, ViewLeft
  <1>6. Seen(rows) \in SUBSET (Report \X Status)
    BY SeenType
  <1>7. L \in SUBSET ({Job} \X Report \X LockMode)
        /\ \A x \in Report, m \in LockMode : <<Job, x, m>> \in L => x = parent[Job] /\ m = "update"
    BY <1>2
  <1> HIDE DEF L
  <1>8. GoesOn(Job, "commit", hit[Job], Seen(rows), L)
    BY <1>1, <1>2, <1>3, <1>4, <1>5, <1>6, <1>7 DEF GoesOn
  <1> QED BY <1>8, <1>2, StepKeeps

\* Every step of the transactions.
LEMMA StatsKeeps ==
    ASSUME StatsIInv, StatsNext
    PROVE  StatsIInv'
PROOF
  <1>1. ASSUME NEW t \in Txn, Insert(t) PROVE StatsIInv'
    <2>1. PICK r \in Report : Begin(t, r, Null, "open")
      BY <1>1 DEF Insert
    <2> QED BY <2>1, ProcFacts, StatusAssumption, BeginKeeps
  <1>2. ASSUME NEW t \in Txn, Update(t) PROVE StatsIInv'
    <2>1. PICK r \in Report, v \in Status : Begin(t, r, Null, v)
      BY <1>2 DEF Update
    <2> QED BY <2>1, ProcFacts, BeginKeeps
  <1>3. ASSUME NEW t \in Txn, Delete(t) PROVE StatsIInv'
    <2>1. PICK r \in Report : Begin(t, r, Null, "gone")
      BY <1>3 DEF Delete
    <2> QED BY <2>1, ProcFacts, BeginKeeps
  <1>4. ASSUME LinkPair PROVE StatsIInv'
    <2>1. PICK cp \in Pairs : Begin(Job, cp[1], cp[2], "linked")
      BY <1>4 DEF LinkPair
    <2>2. cp[1] \in Live /\ cp[2] \in Live /\ cp[1] # cp[2]
          /\ dupOf[cp[1]] = Null /\ dupOf[cp[2]] = Null
      BY DEF Pairs
    <2>3. cp[1] \in Report /\ cp[2] \in Report
      BY <2>2 DEF Live
    <2> QED BY <2>1, <2>2, <2>3, ProcFacts, BeginKeeps
  <1>5. ASSUME NEW p \in Proc, Write(p) \/ Refresh(p) \/ Commit(p) \/ Rollback(p) PROVE StatsIInv'
    BY <1>5, WriteKeeps, RefreshKeeps, CommitKeeps, RollbackKeeps
  <1> QED BY <1>1, <1>2, <1>3, <1>4, <1>5, CascadeKeeps, KeepParentKeeps, CountKeeps DEF StatsNext

\* The transactions stay within the invariant, stuttering included.
THEOREM StatsInvariant == StatsSpec => []StatsIInv
PROOF
  <1>1. ASSUME StatsIInv, UNCHANGED statsVars PROVE StatsIInv'
    <2>1. /\ StatsTypeOK' /\ LinksAcyclic'
      BY <1>1 DEF StatsIInv, statsVars, table, request, StatsTypeOK, LinksAcyclic, Live, active
    <2>2. StatementsFit' /\ LocksExclude' /\ RowsHeld' /\ LocksExplained'
      BY <1>1 DEF StatsIInv, statsVars, table, request, StatementsFit, LocksExclude, RowsHeld,
                  LocksExplained, Mode, Live
    <2>3. JobUnlinked' /\ ViewHeld' /\ MetOrAlone' /\ IsFiniteSet(active)'
      BY <1>1 DEF StatsIInv, statsVars, table, request, JobUnlinked, ViewHeld, MetOrAlone, active
    <2>4. SnapshotTaken'
      BY <1>1 DEF StatsIInv, statsVars, table, request, SnapshotTaken, Seen, Written
    <2> QED BY <2>1, <2>2, <2>3, <2>4 DEF StatsIInv
  <1>2. StatsIInv /\ [StatsNext]_statsVars => StatsIInv'
    BY <1>1, StatsKeeps
  <1> QED BY <1>2, StatsStarts, PTL DEF StatsSpec

\* What the tables, the statements and the locks hold is of its type, and no link ends at
\* a row that is gone.
THEOREM StatsTypeCorrect == StatsSpec => []StatsTypeOK
PROOF
  <1>1. StatsIInv => StatsTypeOK
    BY DEF StatsIInv
  <1> QED BY <1>1, StatsInvariant, PTL

\* What the statements of a circle wait for: their rows, each held by a deletion or by
\* the job before its parent.
LEMMA CircleStages ==
    ASSUME StatsIInv, NEW S \in SUBSET Proc, Deadlocked(S), ~(Job \in S /\ stage[Job] = "count")
    PROVE  /\ \A p \in S : stage[p] \in {"row", "parent", "cascade"}
           /\ \E t \in S : stage[t] = "cascade"
PROOF
  <1>t. /\ StatsTypeOK /\ StatementsFit /\ LocksExplained /\ ViewHeld
        /\ locks \subseteq Proc \X Report \X LockMode
    BY DEF StatsIInv, StatsTypeOK, LockMode
  <1>1. \A p \in S : Waits(p) \cap S # {}
    BY DEF Deadlocked
  <1>2. \A p \in S : stage[p] \in {"row", "parent", "cascade", "view"}
    <2> SUFFICES ASSUME NEW p \in S, stage[p] \notin {"row", "parent", "cascade", "view"} PROVE FALSE
      OBVIOUS
    <2>1. stage[p] # "count"
      BY <1>t DEF StatementsFit
    <2>2. Waits(p) = {}
      BY <2>1 DEF Waits
    <2> QED BY <2>2, <1>1
  <1>3. \A p \in S : stage[p] # "view"
    <2> SUFFICES ASSUME NEW p \in S, stage[p] = "view" PROVE FALSE
      OBVIOUS
    <2>1. Waits(p) = {viewLock} \ {Null}
      BY DEF Waits
    <2>2. viewLock \in S /\ viewLock # Null
      BY <2>1, <1>1
    <2> QED BY <2>2, <1>2, <1>t DEF ViewHeld
  <1>4. \A q \in S, x \in Report, m \in LockMode :
           <<q, x, m>> \in locks => stage[q] \in {"parent", "cascade"}
    BY <1>2, <1>3, <1>t DEF LocksExplained
  <1>5. ASSUME NEW p \in S, stage[p] = "row"
        PROVE  \E q \in S : stage[q] \in {"parent", "cascade"}
    <2>1. Waits(p) = Holders(p, row[p], Mode(p)) /\ row[p] \in Report
      BY <1>5, <1>t DEF Waits, StatementsFit
    <2>2. PICK q \in S : q \in Holders(p, row[p], Mode(p))
      BY <2>1, <1>1
    <2> QED BY <2>1, <2>2, <1>4, <1>t, HoldersFacts
  <1>6. ASSUME NEW p \in S, stage[p] = "parent"
        PROVE  \E q \in S : stage[q] = "cascade"
    <2>1. Waits(p) = Holders(p, parent[p], "share") /\ p = Job /\ parent[p] \in Report
      BY <1>6, <1>t DEF Waits, StatementsFit
    <2>2. PICK q \in S : q \in Holders(p, parent[p], "share")
      BY <2>1, <1>1
    <2>3. q # Job /\ stage[q] \in {"parent", "cascade"}
      BY <2>1, <2>2, <1>4, <1>t, HoldersFacts
    <2>4. stage[q] = "cascade"
      BY <2>3, <1>t DEF StatementsFit
    <2> QED BY <2>4
  <1>7. S # {}
    BY DEF Deadlocked
  <1>8. \E t \in S : stage[t] = "cascade"
    BY <1>2, <1>3, <1>5, <1>6, <1>7
  <1> QED BY <1>2, <1>3, <1>8

\* A deletion of a circle waits for a deletion of a duplicate of its row.
LEMMA CircleFollowsLinks ==
    ASSUME StatsIInv, NEW S \in SUBSET Proc, Deadlocked(S), ~(Job \in S /\ stage[Job] = "count"),
           NEW t \in S, stage[t] = "cascade"
    PROVE  \E u \in S : stage[u] = "cascade" /\ dupOf[row[u]] = row[t]
PROOF
  <1>t. /\ StatsTypeOK /\ StatementsFit /\ LocksExplained /\ LocksExclude /\ RowsHeld /\ JobUnlinked
        /\ locks \subseteq Proc \X Report \X LockMode
    BY DEF StatsIInv, StatsTypeOK, LockMode
  <1>1. \A p \in S : stage[p] \in {"row", "parent", "cascade"}
    BY CircleStages
  <1>2. t \in Proc /\ t # Job /\ hit[t] /\ value[t] = "gone" /\ row[t] \in Report /\ row[t] # Null
    BY <1>t, NullAssumption DEF StatementsFit
  <1>3. Waits(t) \cap S # {} /\ Waits(t) = UNION {Holders(t, c, "update") : c \in Orphans(t)}
    BY DEF Deadlocked, Waits
  <1>4. PICK c \in Orphans(t), u \in S : u \in Holders(t, c, "update")
    BY <1>3
  <1>5. c \in Report /\ dupOf[c] = row[t]
    BY <1>4 DEF Orphans
  <1>6. PICK m \in LockMode : <<u, c, m>> \in locks
    BY <1>4, <1>5, <1>t, HoldersFacts
  <1>7. u \in Proc /\ u # t /\ stage[u] \in {"parent", "cascade"}
    BY <1>1, <1>4, <1>5, <1>6, <1>t, HoldersFacts DEF LocksExplained
  <1>8. u # Job
    <2> SUFFICES ASSUME u = Job PROVE FALSE
      OBVIOUS
    <2>1. stage[Job] = "parent"
      BY <1>7, <1>t DEF StatementsFit
    <2>2. c = row[Job]
      BY <2>1, <1>5, <1>6, <1>7, <1>t DEF LocksExplained
    <2> QED BY <2>1, <2>2, <1>2, <1>5, <1>t DEF JobUnlinked
  <1>9. stage[u] = "cascade" /\ hit[u] /\ value[u] = "gone" /\ row[u] \in Report
    BY <1>7, <1>8, <1>t DEF StatementsFit
  <1>10. row[u] # row[t]
    <2>1. Mode(u) = "delete" /\ Mode(t) = "delete" /\ "delete" \in LockMode
      BY <1>2, <1>9 DEF Mode, LockMode
    <2>2. <<u, row[u], "delete">> \in locks /\ <<t, row[t], "delete">> \in locks
      BY <2>1, <1>2, <1>7, <1>9, <1>t DEF RowsHeld
    <2> QED BY <2>1, <2>2, <1>2, <1>7, <1>t, ConflictFacts DEF LocksExclude
  <1>11. c = row[u]
    BY <1>5, <1>6, <1>7, <1>8, <1>10, <1>t DEF LocksExplained
  <1> QED BY <1>5, <1>9, <1>11

\* A finite set of reports that are all a duplicate's original within the set is empty.
LEMMA NoLinkCircle ==
    ASSUME StatsIInv, NEW T \in SUBSET Report, IsFiniteSet(T), T # {},
           \A x \in T : \E y \in T : dupOf[y] = x
    PROVE  FALSE
PROOF
  <1> DEFINE U == {y \in T : dupOf[y] \in T}
             f == [y \in U |-> dupOf[y]]
  <1>1. PICK r \in T : dupOf[r] \notin T
    BY DEF StatsIInv, LinksAcyclic
  <1>2. f \in Surjection(U, T)
    BY DEF Surjection
  <1>3. U \in SUBSET T /\ U # T
    BY <1>1
  <1>4. IsFiniteSet(U) /\ Cardinality(U) <= Cardinality(T) /\ Cardinality(U) # Cardinality(T)
    BY <1>3, FS_Subset
  <1>5. Cardinality(T) <= Cardinality(U)
    BY <1>2, <1>4, FS_Surjection
  <1>6. Cardinality(T) \in Nat /\ Cardinality(U) \in Nat
    BY <1>4, FS_CardinalityType
  <1> QED BY <1>4, <1>5, <1>6

\* Whatever the number of handlers and reports, every circle of waiting transactions goes
\* through the job at its second UPDATE.
THEOREM CirclesPassTheCount == StatsSpec => []DeadlockNeedsCount
PROOF
  <1>1. StatsIInv => DeadlockNeedsCount
    <2> SUFFICES ASSUME StatsIInv, NEW S \in SUBSET Proc, Deadlocked(S),
                        ~(Job \in S /\ stage[Job] = "count")
                 PROVE  FALSE
      BY DEF DeadlockNeedsCount
    <2> DEFINE C == {t \in S : stage[t] = "cascade"}
               f == [t \in C |-> row[t]]
               T == {row[t] : t \in C}
    <2>1. C \in SUBSET active /\ IsFiniteSet(active)
      BY DEF StatsIInv, active
    <2>2. IsFiniteSet(C)
      BY <2>1, FS_Subset
    <2>3. f \in Surjection(C, T)
      BY DEF Surjection
    <2>4. IsFiniteSet(T)
      BY <2>2, <2>3, FS_Surjection
    <2>5. T \in SUBSET Report
      BY DEF StatsIInv, StatementsFit
    <2>6. T # {}
      BY CircleStages
    <2>7. \A x \in T : \E y \in T : dupOf[y] = x
      <3> SUFFICES ASSUME NEW t \in C PROVE \E y \in T : dupOf[y] = row[t]
        OBVIOUS
      <3>1. PICK u \in S : stage[u] = "cascade" /\ dupOf[row[u]] = row[t]
        BY CircleFollowsLinks
      <3>2. row[u] \in T
        BY <3>1
      <3> QED BY <3>1, <3>2
    <2> HIDE DEF T
    <2> QED BY <2>4, <2>5, <2>6, <2>7, NoLinkCircle
  <1> QED BY <1>1, StatsInvariant, PTL

\* A handler that met no other transaction leaves the view counting exactly the committed
\* rows, whatever the commits before it left there.
THEOREM AloneAlwaysRefreshes == StatsSpec => AloneRefreshes
PROOF
  <1>1. ASSUME StatsIInv, StatsNext, rows' # rows, met = {} PROVE counted' = Seen(rows')
    <2>1. PICK p \in Proc : Commit(p)
      BY <1>1, ProcFacts DEF StatsNext, Insert, Update, Delete, LinkPair, KeepParent, Count, Cascade,
                  Write, Refresh, Rollback, Begin, table
    <2>2. stage[p] = "commit" /\ rows' = Written(p, hit[p])
      BY <2>1 DEF Commit
    <2>3. hit[p] /\ p # Job /\ p \in Txn
      BY <2>2, <1>1, ProcFacts DEF Written
    <2>4. counted' = snapshot[p]
      BY <2>1, <2>3 DEF Commit
    <2>5. snapshot[p] = Seen(Written(p, hit[p]))
      BY <2>2, <2>3, <1>1 DEF StatsIInv, SnapshotTaken
    <2> QED BY <2>2, <2>4, <2>5
  <1>2. StatsIInv /\ [StatsNext]_statsVars
           => [rows' # rows /\ met = {} => counted' = Seen(rows')]_statsVars
    BY <1>1
  <1> QED BY <1>2, StatsInvariant, PTL DEF StatsSpec, AloneRefreshes

=============================================================================

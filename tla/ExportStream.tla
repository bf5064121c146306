---------------------------- MODULE ExportStream ----------------------------
(***************************************************************************)
(* The streamed exports: admin_export_csv and admin_export_geojson         *)
(* (handlers/admin.rs) and public_get_geojson (handlers/stats.rs).         *)
(*                                                                         *)
(* A request spawns a task that sends the document in chunks through a     *)
(* bounded channel to the response body, while it reads the rows of its    *)
(* query over a connection of the shared pool.  The response has begun     *)
(* with a 200 by then, so that an error can only be told in the document.  *)
(*                                                                         *)
(* Data abstraction: a chunk is known by what it is, the number of its row *)
(* and whether a comma precedes it.  Everything sent is kept; a client has *)
(* read the first so many chunks of it, the rest is in the channel.        *)
(***************************************************************************)
EXTENDS Naturals, Sequences, FiniteSets

CONSTANTS
    Export,     \* requests for an export
    Slots,      \* capacity of a channel (32 in the code)
    PoolSize,   \* connections of the pool that exports can get
    MaxRows,    \* bound: rows of a result
    None        \* a result that is not known

ASSUME SlotsAssumption == Slots \in Nat \ {0}
ASSUME PoolAssumption == PoolSize \in Nat \ {0}
ASSUME RowsAssumption == MaxRows \in Nat
ASSUME NoneAssumption == None \notin Nat

VARIABLES
    kind,       \* which of the three handlers serves the request
    pc,         \* what its task is about to do
    fetched,    \* how many rows it has got
    total,      \* how many rows the query has
    sent,       \* the chunks the channel has taken
    read,       \* how many of them the client has got
    held,       \* the tasks that hold a connection
    gone        \* the clients that left, or were cut off

vars == <<kind, pc, fetched, total, sent, read, held, gone>>

Kind == {"csv", "geojson", "public"}

Chunk == [what : {"head", "row", "error", "tail"},
          row : 0..MaxRows, comma : BOOLEAN]

Init ==
    /\ kind \in [Export -> Kind]
    /\ pc = [e \in Export |-> "idle"]
    /\ fetched = [e \in Export |-> 0]
    /\ total = [e \in Export |-> None]
    /\ sent = [e \in Export |-> <<>>]
    /\ read = [e \in Export |-> 0]
    /\ held = {}
    /\ gone = {}

\* The task goes on to s; with its end it drops the query and the channel.
Goto(e, s) ==
    /\ pc' = [pc EXCEPT ![e] = s]
    /\ held' = IF s = "end" THEN held \ {e} ELSE held

(***************************************************************************)
(* The request.                                                            *)
(***************************************************************************)
\* The response starts; the document follows from the spawned task.
Request(e) ==
    /\ pc[e] = "idle"
    /\ Goto(e, "head")
    /\ UNCHANGED <<kind, fetched, total, sent, read, gone>>

\* A filter that is no value of its enum (400), or the quota of the public
\* export (429).
Refuse(e) ==
    /\ pc[e] = "idle"
    /\ Goto(e, "refused")
    /\ UNCHANGED <<kind, fetched, total, sent, read, gone>>

(***************************************************************************)
(* The rows.                                                               *)
(***************************************************************************)
\* What follows the rows: the closing `]}` of a feature collection.
Closing(e) == IF kind[e] = "csv" THEN "end" ELSE "tail"

OnErrorUnmarked(e) == Closing(e)

\* What follows an error: a `#ERROR` line or an error feature, from the
\* admin exports.
OnError(e) == IF kind[e] = "public" THEN Closing(e) ELSE "error"

\* The first rows.next() takes a connection and runs the query.
Acquire(e) ==
    /\ pc[e] = "acquire"
    /\ Cardinality(held) < PoolSize
    /\ pc' = [pc EXCEPT ![e] = "fetch"]
    /\ held' = held \cup {e}
    /\ \E n \in 0..MaxRows : total' = [total EXCEPT ![e] = n]
    /\ UNCHANGED <<kind, fetched, sent, read, gone>>

\* No connection within the time limit, or the query is refused.
AcquireFails(e) ==
    /\ pc[e] = "acquire"
    /\ Goto(e, OnError(e))
    /\ UNCHANGED <<kind, fetched, total, sent, read, gone>>

Fetch(e) ==
    /\ pc[e] = "fetch"
    /\ fetched[e] < total[e]
    /\ fetched' = [fetched EXCEPT ![e] = @ + 1]
    /\ Goto(e, "row")
    /\ UNCHANGED <<kind, total, sent, read, gone>>

\* The end of the rows gives the connection back.
RowsEnd(e) ==
    /\ pc[e] = "fetch"
    /\ fetched[e] = total[e]
    /\ pc' = [pc EXCEPT ![e] = Closing(e)]
    /\ held' = held \ {e}
    /\ UNCHANGED <<kind, fetched, total, sent, read, gone>>

\* The connection breaks; the query is over, and its connection returned.
FetchFails(e) ==
    /\ pc[e] = "fetch"
    /\ pc' = [pc EXCEPT ![e] = OnError(e)]
    /\ held' = held \ {e}
    /\ UNCHANGED <<kind, fetched, total, sent, read, gone>>

(***************************************************************************)
(* The channel.                                                            *)
(***************************************************************************)
sending == {"head", "row", "error", "tail"}

Full(e) == Len(sent[e]) - read[e] = Slots

CommaAlways(e) ==
    kind[e] # "csv" /\ pc[e] \in {"row", "error"}

\* Features are separated by a comma before each but the first row; the
\* error feature always has one.
Comma(e) ==
    /\ kind[e] # "csv"
    /\ \/ pc[e] = "row" /\ fetched[e] > 1
       \/ pc[e] = "error"

NextChunk(e) == [what |-> pc[e],
                 row |-> IF pc[e] = "row" THEN fetched[e] ELSE 0,
                 comma |-> Comma(e)]

AfterChunk(e) == CASE pc[e] = "head"  -> "acquire"
                   [] pc[e] = "row"   -> "fetch"
                   [] pc[e] = "error" -> Closing(e)
                   [] pc[e] = "tail"  -> "end"

\* tx.send(...).await waits for a free slot.
Send(e) ==
    /\ pc[e] \in sending
    /\ e \notin gone /\ ~Full(e)
    /\ sent' = [sent EXCEPT ![e] = Append(@, NextChunk(e))]
    /\ Goto(e, AfterChunk(e))
    /\ UNCHANGED <<kind, fetched, total, read, gone>>

HangUpHolding(e) ==
    /\ pc[e] \in sending
    /\ e \in gone
    /\ pc' = [pc EXCEPT ![e] = IF pc[e] \in {"row", "error"}
                               THEN Closing(e) ELSE "end"]
    /\ UNCHANGED <<kind, fetched, total, sent, read, held, gone>>

HangUpAtHead(e) ==
    /\ pc[e] = "head"
    /\ e \in gone
    /\ Goto(e, "end")
    /\ UNCHANGED <<kind, fetched, total, sent, read, gone>>

\* send fails, also while it waits, once the body was dropped.  The loop is
\* left, and the feature collections try to send their closing all the same.
HangUp(e) ==
    /\ pc[e] \in sending
    /\ e \in gone
    /\ Goto(e, IF pc[e] \in {"row", "error"} THEN Closing(e) ELSE "end")
    /\ UNCHANGED <<kind, fetched, total, sent, read, gone>>

(***************************************************************************)
(* The client.                                                             *)
(***************************************************************************)
Read(e) ==
    /\ e \notin gone
    /\ read[e] < Len(sent[e])
    /\ read' = [read EXCEPT ![e] = @ + 1]
    /\ UNCHANGED <<kind, pc, fetched, total, sent, held, gone>>

\* The client leaves, or the proxy gives up on it: the body is dropped.
Leave(e) ==
    /\ pc[e] \notin {"idle", "refused"}
    /\ e \notin gone
    /\ gone' = gone \cup {e}
    /\ UNCHANGED <<kind, pc, fetched, total, sent, read, held>>

Task(e) == \/ Acquire(e) \/ AcquireFails(e)
           \/ Fetch(e) \/ RowsEnd(e) \/ FetchFails(e)
           \/ Send(e) \/ HangUp(e)

Next == \E e \in Export : \/ Request(e) \/ Refuse(e) \/ Task(e)
                          \/ Read(e) \/ Leave(e)

Spec == Init /\ [][Next]_vars

\* The runtime polls the task, the database answers or breaks off, and the
\* client reads or is cut off by the time limit of the proxy.
FairSpec ==
    /\ Spec
    /\ \A e \in Export : WF_vars(Task(e)) /\ WF_vars(Read(e) \/ Leave(e))

(***************************************************************************)
(* Properties.                                                             *)
(***************************************************************************)
\* Types, and whose the connections are: no more than there are, none in
\* the hand of a task that is over.
TypeOK ==
    /\ kind \in [Export -> Kind]
    /\ pc \in [Export -> sending \cup {"idle", "refused", "acquire", "fetch",
                                      "end"}]
    /\ fetched \in [Export -> 0..MaxRows]
    /\ total \in [Export -> 0..MaxRows \cup {None}]
    /\ sent \in [Export -> Seq(Chunk)]
    /\ read \in [Export -> Nat]
    /\ \A e \in Export : read[e] <= Len(sent[e])
                         /\ Len(sent[e]) <= read[e] + Slots
    /\ held \subseteq {e \in Export : pc[e] \in {"fetch", "row", "tail"}}
    /\ Cardinality(held) <= PoolSize
    /\ gone \subseteq Export

\* What arrives is the document from its start, each row once and in the
\* order of the query, however the channel fills and drains.
InOrder ==
    \A e \in Export : \A k \in DOMAIN sent[e] :
        LET c == sent[e][k]
        IN /\ c.what = "head" <=> k = 1
           /\ c.what = "row" => c.row = k - 1
           /\ c.what = "tail" => k = Len(sent[e])

\* The response was closed and the client has got all of it.
Received(e) == pc[e] = "end" /\ e \notin gone /\ read[e] = Len(sent[e])

Complete(e) ==
    /\ total[e] # None
    /\ \A i \in 1..total[e] : \E k \in DOMAIN sent[e] : sent[e][k].row = i

\* An admin export that lacks rows says so, wherever the error hit: at the
\* query or between any two rows (the sentinels of WR-05 and CR-05).
CutIsMarked ==
    \A e \in Export :
        Received(e) /\ kind[e] # "public" /\ ~Complete(e)
            => \E k \in DOMAIN sent[e] : sent[e][k].what = "error"

\* The document is a feature collection: opened, closed, and a comma
\* between each two features.
Parses(e) ==
    LET n == Len(sent[e])
    IN /\ n >= 2 /\ sent[e][1].what = "head" /\ sent[e][n].what = "tail"
       /\ \A k \in 2..(n - 1) : sent[e][k].comma <=> k > 2

\* The public export is valid even where it is truncated (WR-03).
PublicParses ==
    \A e \in Export : Received(e) /\ kind[e] = "public" => Parses(e)

\* Every task ends, and gives its connection back, whether its client reads
\* slowly or leaves, and whoever else waits for a connection.
EventuallyEnds == \A e \in Export : pc[e] = "head" ~> pc[e] = "end"

(***************************************************************************)
(* The inductive invariant of the proofs: how many chunks are out at each  *)
(* place of a task, which they are, and what a closed document contains.   *)
(***************************************************************************)
Counted ==
    \A e \in Export :
        /\ pc[e] \in {"idle", "refused", "head"} => sent[e] = <<>>
        /\ pc[e] \in {"error", "tail"} => Len(sent[e]) >= 1
        /\ pc[e] = "acquire" => Len(sent[e]) = 1
        /\ pc[e] \in {"idle", "head", "acquire"} => fetched[e] = 0
        /\ pc[e] = "fetch" => /\ Len(sent[e]) = fetched[e] + 1
                              /\ total[e] # None
                              /\ fetched[e] <= total[e]
        /\ pc[e] = "row" => /\ Len(sent[e]) = fetched[e]
                            /\ fetched[e] >= 1
                            /\ total[e] # None
                            /\ fetched[e] <= total[e]

\* Where a chunk stands, and what it says there.
Placed ==
    \A e \in Export : \A k \in DOMAIN sent[e] :
        /\ sent[e][k].what = "tail" => pc[e] = "end"
        /\ sent[e][k].what = "error" => /\ pc[e] \in {"tail", "end"}
                                        /\ kind[e] # "public"
        /\ sent[e][k].what = "row" /\ kind[e] # "csv"
              => (sent[e][k].comma <=> k > 2)

\* The error chunk is the admin exports', the closing the collections'.
Handled ==
    \A e \in Export : /\ pc[e] = "error" => kind[e] # "public"
                      /\ pc[e] = "tail" => kind[e] # "csv"

\* What a task that nobody hung up on has written by its end.
Closed ==
    \A e \in Export \ gone :
        /\ pc[e] \in {"tail", "end"} /\ kind[e] # "public" =>
              \/ Complete(e)
              \/ \E k \in DOMAIN sent[e] : sent[e][k].what = "error"
        /\ pc[e] = "end" /\ kind[e] # "csv" =>
              /\ Len(sent[e]) >= 2
              /\ sent[e][Len(sent[e])].what = "tail"

IInv ==
    /\ TypeOK
    /\ IsFiniteSet(held)
    /\ InOrder
    /\ Counted
    /\ Placed
    /\ Handled
    /\ Closed

=============================================================================

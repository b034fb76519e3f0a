------------------------------ MODULE BoardSync ------------------------------
(***************************************************************************)
(* How a change of the board leaves the process (src/store.rs, src/ws.rs,  *)
(* src/sse.rs, src/db, src/main.rs): as an event to the clients that are   *)
(* connected, and as rows in the database; and what a client makes of it.  *)
(*                                                                         *)
(* An item is the stamp of its last change: stamps grow over the life of   *)
(* the database, so of two versions of an item the greater one is newer,   *)
(* and Gone is the newest.  A verb changes the board under the lock, then  *)
(* numbers, buffers and sends the event, each under a lock of its own.     *)
(*                                                                         *)
(* One client stands for all: they do not see each other.  Stories and     *)
(* main_advanced take the same path and change no item; they are left out. *)
(***************************************************************************)
EXTENDS Integers, Sequences, SequencesExt, FiniteSets

CONSTANTS
  Writers,      \* threads that change the board
  Items,
  Under,        \* [Items -> SUBSET Items]: what goes when an item is deleted
  BufferCap,    \* events the board keeps for clients that come back
  ChannelCap,   \* events the broadcast channel holds for a slow receiver
  RaceGap,      \* STALE_SNAPSHOT_RACE_MAX_GAP
  MaxStamp,     \* bound: changes
  MaxLoads,     \* bound: snapshots under way
  SyncMixes     \* what happens: each behaviour is one of these

(* deletes, fails, drops  items are deleted, saves fail, connections break     *)
(* client    there is a client; socket, it has a WebSocket and not a stream    *)
(* saves     the flusher ticks; alone, no flush starts while one is under way  *)
(* items     what changes; writers, the threads that do; bounds: changes,      *)
(* restarts                                                                    *)
SyncMix == [deletes: BOOLEAN, fails: BOOLEAN, drops: BOOLEAN, client: BOOLEAN,
            socket: BOOLEAN, saves: BOOLEAN, alone: BOOLEAN, exits: BOOLEAN, items: SUBSET Items,
            changes: 0 .. MaxStamp, writers: SUBSET Writers, crashes: Nat]

(* There is something to change, buffers hold something, the bounds are       *)
(* numbers, and the two threads that only flush change nothing.               *)
ASSUME SyncAssumption ==
  /\ Items # {} /\ MaxStamp \in Nat /\ SyncMixes \subseteq SyncMix
  /\ "tick" \notin Writers /\ "main" \notin Writers /\ IsFiniteSet(Writers)
  /\ BufferCap \in Nat \ {0} /\ ChannelCap \in Nat \ {0}

VARIABLES
  up,         \* "run"; "exit", interrupted; "over", it exited; "down", it crashed
  board,      \* BoardState.items
  stamp,      \* changes so far
  seq,        \* Board.seq
  buffer,     \* Board.event_buffer
  dirty,      \* Board.dirty
  db,         \* the rows
  job,        \* [Threads -> Work]: verbs, the interval flusher, main
  due,        \* history: what the last flush answers for, see Finished
  view,       \* client: items
  seen,       \* client: lastSeenSeq
  conn,       \* client: "off"; "open", connected; "live", and subscribed
  opened,     \* client: wasConnected
  queue,      \* its broadcast receiver
  lagged,     \* the receiver lost events
  wire,       \* what the handler sent it on subscribing
  minLive,    \* the number in the client's subscribe, then the handler's min_live_seq
  asked,      \* client: load() called, not yet read by the server
  loads,      \* snapshots under way: read, numbered when seq is there
  restarts,
  smix        \* the mix of this behaviour

server == <<up, board, stamp, seq, buffer, dirty, db, job, due>>
stream == <<conn, opened, queue, lagged, wire, minLive>>
client == <<view, seen, asked, loads>>
syncVars == <<server, stream, client, restarts, smix>>

Gone == MaxStamp + 1
Boards == [Items -> 0 .. Gone]
Threads == Writers \cup {"tick", "main"}
Event == [type: {"upsert", "delete", "reset"}, seq: Nat, item: Items, val: 0 .. Gone]

Work == [verb: {"none", "set", "delete", "flush", "last"},
         pc: {"idle", "number", "push", "send", "mark", "swap", "clone", "save"},
         item: Items, val: 0 .. Gone, seq: Nat, snap: Boards]
NoItem == CHOOSE i \in Items : TRUE
Blank == [i \in Items |-> 0]
Rest == [verb |-> "none", pc |-> "idle", item |-> NoItem, val |-> 0, seq |-> 0, snap |-> Blank]
Unnumbered == -1

SyncInit(mixes) ==
  /\ up = "run" /\ board = Blank /\ stamp = 0 /\ seq = 0 /\ buffer = <<>>
  /\ dirty = FALSE /\ db = Blank /\ job = [t \in Threads |-> Rest] /\ due = Blank
  /\ view = Blank /\ seen = 0 /\ asked = FALSE /\ loads = {}
  /\ conn = "off" /\ opened = FALSE /\ queue = <<>> /\ lagged = FALSE
  /\ wire = <<>> /\ minLive = 0
  /\ restarts = 0 /\ smix \in mixes

Running == up \in {"run", "exit"}
In(t, pc) == Running /\ job[t].pc = pc
Idle(t) == job[t].pc = "idle"
To(t, pc) == job' = [job EXCEPT ![t].pc = pc]
Done(t) == job' = [job EXCEPT ![t] = Rest]

-------------------------------------------------------------------------------
(* A verb: the change, the event, the dirty mark.  delete_item marks and       *)
(* flushes before it tells anyone, and tells of the root of the subtree only.  *)
(* An interrupt stops no verb: the supervisor, its tasks and the requests      *)
(* under way go on changing the board until the process is over.               *)

Set(w, i) ==
  /\ Running /\ Idle(w) /\ w \in smix.writers
  /\ i \in smix.items /\ board[i] # Gone /\ stamp < smix.changes
  /\ stamp' = stamp + 1 /\ board' = [board EXCEPT ![i] = stamp + 1]
  /\ job' = [job EXCEPT ![w] = [Rest EXCEPT !.verb = "set", !.pc = "number",
                                            !.item = i, !.val = stamp + 1]]
  /\ UNCHANGED <<up, seq, buffer, dirty, db, due, stream, client, restarts, smix>>

Delete(w, i) ==
  /\ smix.deletes /\ Running /\ Idle(w) /\ w \in smix.writers
  /\ board[i] # Gone
  /\ board' = [k \in Items |-> IF k \in Under[i] THEN Gone ELSE board[k]]
  /\ job' = [job EXCEPT ![w] = [Rest EXCEPT !.verb = "delete", !.pc = "mark",
                                            !.item = i, !.val = Gone]]
  /\ UNCHANGED <<up, stamp, seq, buffer, dirty, db, due, stream, client, restarts, smix>>

Number(w) ==
  /\ In(w, "number") /\ seq' = seq + 1
  /\ job' = [job EXCEPT ![w].pc = "push", ![w].seq = seq + 1]
  /\ UNCHANGED <<up, board, stamp, buffer, dirty, db, due, stream, client, restarts, smix>>

EventOf(w) == [type |-> IF job[w].verb = "set" THEN "upsert" ELSE "delete",
               seq |-> job[w].seq, item |-> job[w].item, val |-> job[w].val]
Reset(n) == [type |-> "reset", seq |-> n, item |-> NoItem, val |-> 0]

KeptAll(cap) == buffer                                              \* mutant
Kept(cap) == IF Len(buffer) >= cap THEN Tail(buffer) ELSE buffer
Push(w) ==
  /\ In(w, "push") /\ To(w, "send")
  /\ buffer' = Append(Kept(BufferCap), EventOf(w))
  /\ UNCHANGED <<up, board, stamp, seq, dirty, db, due, stream, client, restarts, smix>>

(* The broadcast channel drops the oldest event of a receiver that is behind. *)
Send(w) ==
  /\ In(w, "send")
  /\ IF job[w].verb = "set" THEN To(w, "mark") ELSE Done(w)
  /\ IF conn = "off" THEN UNCHANGED <<queue, lagged>>
     ELSE /\ queue' = Append(IF Len(queue) >= ChannelCap THEN Tail(queue) ELSE queue, EventOf(w))
          /\ lagged' = (lagged \/ Len(queue) >= ChannelCap)
  /\ UNCHANGED <<up, board, stamp, seq, buffer, dirty, db, due, conn, opened, wire, minLive,
                 client, restarts, smix>>

Mark(w) ==
  /\ In(w, "mark") /\ dirty' = TRUE
  /\ IF job[w].verb = "set" THEN Done(w) ELSE To(w, "swap")
  /\ UNCHANGED <<up, board, stamp, seq, buffer, db, due, stream, client, restarts, smix>>

-------------------------------------------------------------------------------
(* flush: the interval's, a verb's own, and main's, at the interrupt and last. *)

Flushing == {t \in Threads : job[t].pc \in {"clone", "save"}}
MayFlush == ~smix.alone \/ Flushing = {}

ClearsAtSave(pc) == pc = "save"                                     \* mutant
ClearsAt(pc) == pc = "swap"
DirtyPast(pc) == dirty' = (dirty /\ ~ClearsAt(pc))

Flushed(t) ==
  CASE job[t].verb = "delete" -> To(t, "number")
    [] job[t].verb = "last"   -> To(t, "idle")
    [] OTHER                  -> Done(t)

Tick ==
  /\ smix.saves /\ Running /\ Idle("tick") /\ dirty
  /\ job' = [job EXCEPT !["tick"].verb = "flush", !["tick"].pc = "swap"]
  /\ UNCHANGED <<up, board, stamp, seq, buffer, dirty, db, due, stream, client, restarts, smix>>

Swap(t) ==
  /\ In(t, "swap") /\ MayFlush
  /\ IF dirty THEN To(t, "clone") /\ DirtyPast("swap") ELSE Flushed(t) /\ UNCHANGED dirty
  /\ UNCHANGED <<up, board, stamp, seq, buffer, db, due, stream, client, restarts, smix>>

Clone(t) ==
  /\ In(t, "clone") /\ job' = [job EXCEPT ![t].pc = "save", ![t].snap = board]
  /\ UNCHANGED <<up, board, stamp, seq, buffer, dirty, db, due, stream, client, restarts, smix>>

(* save_board_state: one transaction for the whole board. *)
Save(t) ==
  /\ In(t, "save") /\ db' = job[t].snap /\ DirtyPast("save") /\ Flushed(t)
  /\ UNCHANGED <<up, board, stamp, seq, buffer, due, stream, client, restarts, smix>>

(* Any save may fail, and only marks the board again: no one repeats the last. *)
FailedClean == dirty                                                \* mutant
Failed == TRUE
SaveFails(t) ==
  /\ smix.fails /\ In(t, "save") /\ dirty' = Failed /\ Flushed(t)
  /\ due' = IF job[t].verb = "last" THEN Blank ELSE due
  /\ UNCHANGED <<up, board, stamp, seq, buffer, db, stream, client, restarts, smix>>

-------------------------------------------------------------------------------
(* The end of the process.  At an interrupt main flushes, takes no more        *)
(* connections, and waits for the requests under way, but no longer than       *)
(* SHUTDOWN_DRAIN or the next interrupt: its last flush may find anything      *)
(* still running, and runs beside it.                                          *)

Interrupt ==
  /\ smix.exits /\ up = "run" /\ up' = "exit"
  /\ job' = [job EXCEPT !["main"].verb = "flush", !["main"].pc = "swap"]
  /\ UNCHANGED <<board, stamp, seq, buffer, dirty, db, due, stream, client, restarts, smix>>

(* A verb that changed the board and has not marked it; what it changed; and   *)
(* the versions that no verb under way is about to mark.                       *)
Unmarked(w) == \/ job[w].verb = "set" /\ job[w].pc \in {"number", "push", "send", "mark"}
               \/ job[w].verb = "delete" /\ job[w].pc = "mark"
Changed(w) == IF job[w].verb = "delete" THEN Under[job[w].item] ELSE {job[w].item}
Finished == [i \in Items |-> IF \E w \in Writers : Unmarked(w) /\ i \in Changed(w)
                             THEN 0 ELSE board[i]]

LastFlush ==
  /\ up = "exit" /\ job["main"].verb = "none" /\ due' = Finished
  /\ job' = [job EXCEPT !["main"].verb = "last", !["main"].pc = "swap"]
  /\ UNCHANGED <<up, board, stamp, seq, buffer, dirty, db, stream, client, restarts, smix>>

(* Everything the connection had is lost with it; a request under way fails. *)
Hangup == conn' = "off" /\ queue' = <<>> /\ lagged' = FALSE /\ wire' = <<>> /\ minLive' = 0

(* main returns after it; the other threads stop wherever they are. *)
Exit ==
  /\ up = "exit" /\ job["main"].verb = "last" /\ Idle("main") /\ up' = "over" /\ Hangup
  /\ UNCHANGED <<board, stamp, seq, buffer, dirty, db, job, due, opened, client, restarts, smix>>

Crash ==
  /\ Running /\ restarts < smix.crashes /\ up' = "down" /\ Hangup
  /\ job' = [t \in Threads |-> Rest] /\ loads' = {} /\ due' = Blank
  /\ UNCHANGED <<board, stamp, seq, buffer, dirty, db, opened, view, seen, asked, restarts, smix>>

(* load_with_store: the board is what was saved, numbers start again. *)
Restart ==
  /\ up = "down" /\ up' = "run" /\ restarts' = restarts + 1
  /\ board' = db /\ seq' = 0 /\ buffer' = <<>> /\ dirty' = FALSE
  /\ UNCHANGED <<stamp, db, job, due, stream, client, smix>>

-------------------------------------------------------------------------------
(* The stream.  catch_up: what a client that saw `last` has to be sent.        *)

Newer(evs, last) ==
  LET kept[n \in 0 .. Len(evs)] ==
        IF n = 0 THEN <<>>
        ELSE IF evs[n].seq > last THEN Append(kept[n - 1], evs[n]) ELSE kept[n - 1]
  IN kept[Len(evs)]
Stale(last) == last > seq
CatchUp(last) ==
  IF Stale(last) THEN <<Reset(seq)>>
  ELSE IF last = seq THEN <<>>
  ELSE IF buffer = <<>> \/ last + 1 < Head(buffer).seq THEN <<Reset(seq)>>
  ELSE Newer(buffer, last)

(* A WebSocket opens: the receiver is there before the client's message is read. *)
Open ==
  /\ smix.client /\ up = "run" /\ conn = "off"
  /\ conn' = "open" /\ opened' = TRUE /\ asked' = (asked \/ opened)
  /\ minLive' = IF smix.socket THEN seen ELSE 0
  /\ UNCHANGED <<server, queue, lagged, wire, view, seen, loads, restarts, smix>>

(* subscribe: a socket sends the last number it saw, an EventSource none.      *)
Subscribe ==
  /\ conn = "open" /\ conn' = "live"
  /\ LET missed == IF minLive > 0 THEN CatchUp(minLive) ELSE <<>>
     IN wire' = missed /\ minLive' = IF missed = <<>> THEN minLive ELSE Last(missed).seq
  /\ UNCHANGED <<server, opened, queue, lagged, client, restarts, smix>>

Drop ==
  /\ smix.drops /\ conn # "off" /\ Hangup
  /\ UNCHANGED <<server, opened, client, restarts, smix>>

(* The client's reduce, for an event: a number it skipped makes it load. *)
Gap(n) == seen > 0 /\ n > seen + 1
Take(ev) ==
  /\ asked' = (asked \/ Gap(ev.seq) \/ ev.type = "reset")
  /\ IF ev.type = "reset" THEN seen' = ev.seq /\ UNCHANGED view
     ELSE IF seen > 0 /\ ev.seq <= seen THEN UNCHANGED <<seen, view>>
     ELSE seen' = ev.seq /\ view' = [view EXCEPT ![ev.item] = ev.val]

HearMissed ==
  /\ conn = "live" /\ wire # <<>> /\ wire' = Tail(wire) /\ Take(Head(wire))
  /\ UNCHANGED <<server, conn, opened, queue, lagged, minLive, loads, restarts, smix>>

LagSkips == UNCHANGED <<seen, view, asked>>                         \* mutant
LagReset == Take(Reset(seq))
HearLag ==
  /\ conn = "live" /\ wire = <<>> /\ lagged /\ lagged' = FALSE /\ LagReset
  /\ UNCHANGED <<server, conn, opened, queue, wire, minLive, loads, restarts, smix>>

HearLive ==
  /\ conn = "live" /\ wire = <<>> /\ ~lagged /\ queue # <<>> /\ queue' = Tail(queue)
  /\ IF Head(queue).seq > minLive THEN Take(Head(queue)) ELSE UNCHANGED <<seen, view, asked>>
  /\ UNCHANGED <<server, conn, opened, lagged, wire, minLive, loads, restarts, smix>>

-------------------------------------------------------------------------------
(* GET /api/board: the items under the lock, the number when it is dropped.    *)

Poll ==
  /\ smix.client /\ ~asked /\ asked' = TRUE
  /\ UNCHANGED <<server, stream, view, seen, loads, restarts, smix>>

LoadRead ==
  /\ asked /\ Running /\ Cardinality(loads) < MaxLoads
  /\ asked' = FALSE /\ loads' = loads \cup {[items |-> board, seq |-> Unnumbered]}
  /\ UNCHANGED <<server, stream, view, seen, restarts, smix>>

LoadNumber(l) ==
  /\ l \in loads /\ l.seq = Unnumbered
  /\ loads' = (loads \ {l}) \cup {[l EXCEPT !.seq = seq]}
  /\ UNCHANGED <<server, stream, view, seen, asked, restarts, smix>>

(* The client's reduce, for a snapshot: live state wins over an older one,     *)
(* unless the stream is down or the numbers went back too far for a race.      *)
Older(l) == seen > 0 /\ l.seq < seen
OutrunWhileDown(l) == Older(l) /\ seen - l.seq <= RaceGap           \* mutant
Outrun(l) == Older(l) /\ conn # "off" /\ seen - l.seq <= RaceGap

LoadLands(l) ==
  /\ l \in loads /\ l.seq # Unnumbered /\ loads' = loads \ {l}
  /\ IF Outrun(l) THEN UNCHANGED <<view, seen>> ELSE view' = l.items /\ seen' = l.seq
  /\ UNCHANGED <<server, stream, asked, restarts, smix>>

-------------------------------------------------------------------------------
Verbs == \E w \in Writers : \/ \E i \in Items : Set(w, i) \/ Delete(w, i)
                            \/ Number(w) \/ Push(w) \/ Send(w) \/ Mark(w)
Flush(t) == Swap(t) \/ Clone(t) \/ Save(t) \/ SaveFails(t)
Hear == HearMissed \/ HearLag \/ HearLive
Load == LoadRead \/ \E l \in loads : LoadNumber(l) \/ LoadLands(l)

SyncNext ==
  \/ Verbs \/ Tick \/ \E t \in Threads : Flush(t)
  \/ Interrupt \/ LastFlush \/ Exit \/ Crash \/ Restart
  \/ Open \/ Subscribe \/ Drop \/ Hear \/ Poll \/ Load

(* A verb under way goes on; the flusher ticks, and a save does not fail for   *)
(* ever; a request is answered.  Nobody need open or reopen a stream.          *)
SyncFairness ==
  /\ WF_syncVars(\E w \in Writers : Number(w) \/ Push(w) \/ Send(w) \/ Mark(w))
  /\ WF_syncVars(\E t \in Threads : Swap(t) \/ Clone(t))
  /\ SF_syncVars(\E t \in Threads : Save(t)) /\ WF_syncVars(Tick) /\ WF_syncVars(Restart)
  /\ WF_syncVars(Subscribe) /\ WF_syncVars(Hear) /\ WF_syncVars(Poll) /\ WF_syncVars(Load)

SyncSpec == SyncInit(SyncMixes) /\ [][SyncNext]_syncVars /\ SyncFairness

-------------------------------------------------------------------------------
(* Types; the buffer is bounded. *)
SyncTypeOK ==
  /\ up \in {"run", "exit", "over", "down"} /\ stamp \in 0 .. MaxStamp
  /\ {board, db, view, due} \subseteq Boards
  /\ seq \in Nat /\ seen \in Nat /\ minLive \in Nat /\ restarts \in 0 .. smix.crashes
  /\ {dirty, lagged, asked, opened} \subseteq BOOLEAN /\ conn \in {"off", "open", "live"}
  /\ {buffer, queue, wire} \subseteq Seq(Event) /\ Len(buffer) <= BufferCap
  /\ job \in [Threads -> Work]
  /\ loads \subseteq [items: Boards, seq: Nat \cup {Unnumbered}]
  /\ smix \in SyncMix

(* A graceful exit loses no finished change: whatever a verb that was over had *)
(* changed when main began its last flush is in the database, as it was or     *)
(* newer, when the process is over, though saves failed before, verbs go on    *)
(* beside that flush and another may follow it.  Not when the last save fails, *)
(* and not when flushes overtake each other: the older copy may be written     *)
(* last, and no mark tells of it.                                              *)
ExitSavesFinished == smix.alone /\ up = "over" => \A i \in Items : db[i] >= due[i]

(* While the process lives, what changed reaches the database when the board   *)
(* is quiet, though any number of saves fail and more changes come meanwhile.  *)
DiskCatchesUp == <>[](smix.saves /\ smix.alone /\ up = "run" => db = board)

(* The stream alone is gapless for verbs that do not overlap: between what it  *)
(* was sent on subscribing, the end of its buffer, a slow receiver and what is *)
(* sent live, a socket's client meets every number or a reset.                 *)
NoSilentGap ==
  [][/\ Cardinality(smix.writers) = 1 /\ smix.crashes = 0
     /\ minLive > 0 /\ view' # view /\ <<wire, queue>>' # <<wire, queue>>
     => seen' = seen + 1]_syncVars

(* When the board is quiet the client comes to show it, whatever it missed:    *)
(* events out of order, a broken stream, a restart that set the numbers back.  *)
ClientCatchesUp == <>[](smix.client /\ up = "run" => view = board)

(* In no run, for the code does not keep it: a snapshot never takes the client  *)
(* back behind what its stream has shown.                                      *)
LiveIsNotOverwritten ==
  [][Cardinality(smix.writers) = 1 /\ conn = "live" /\ conn' = "live" /\ restarts = 0
     => \A i \in Items : view'[i] >= view[i]]_syncVars
===============================================================================

--------------------------- MODULE BoardSyncProofs ---------------------------
(***************************************************************************)
(* What BoardSync says of a graceful exit and of the stream, for any number *)
(* of writers, items, changes and restarts, any buffers, and for every mix: *)
(* where flushes do not overtake each other, nothing that a verb had        *)
(* finished when main began its last flush is missing in the database when  *)
(* the process is over; and one verb at a time reaches a client number by   *)
(* number, whatever the buffer dropped and however slow the receiver was.   *)
(***************************************************************************)
EXTENDS BoardSync, WellFoundedInduction, FiniteSetTheorems, TLAPS

(* All of it but fairness, and whatever the mix. *)
SyncSafe == SyncInit(SyncMix) /\ [][SyncNext]_syncVars

(* The part of the types that a flush depends on. *)
SaveTypes ==
  /\ up \in {"run", "exit", "over", "down"} /\ stamp \in 0 .. MaxStamp /\ seq \in Nat
  /\ board \in Boards /\ db \in Boards /\ due \in Boards /\ dirty \in BOOLEAN
  /\ job \in [Threads -> Work] /\ smix \in SyncMix

(* Stamps grow: what is on the board or on its way to the database has one of *)
(* the past, or is gone.                                                      *)
Within(f) == \A i \in Items : f[i] <= stamp \/ f[i] = Gone
Stamped == Within(board) /\ Within(db) /\ \A t \in Threads : Within(job[t].snap)

Saving(t) == job[t].pc = "save"
Cloning == \E t \in Threads : job[t].pc = "clone"

(* The database is behind in an item and somebody knows: the mark is set, or  *)
(* a verb is about to set it, or a flush took the mark and has not read the   *)
(* board yet.                                                                 *)
Owed(i) == \/ dirty \/ Cloning
           \/ \E w \in Writers : Unmarked(w) /\ i \in Changed(w)

(* Where nothing is owed, what is being saved is the board, and where nothing *)
(* is being saved either, it is saved.                                        *)
Accounted ==
  Running => \A i \in Items : ~Owed(i) =>
    /\ \A t \in Threads : Saving(t) => job[t].snap[i] = board[i]
    /\ (\A t \in Threads : ~Saving(t)) => db[i] = board[i]

(* Flushes are one at a time. *)
OneFlush == \A t, u \in Threads : t \in Flushing /\ u \in Flushing => t = u

(* main flushes after the interrupt only, and when it has returned the        *)
(* database has what the last flush answers for.                              *)
MainTurns ==
  /\ up = "run" => job["main"].verb = "none"
  /\ job["main"].verb = "none" => Idle("main")
  /\ up = "down" => job = [t \in Threads |-> Rest]
  /\ up = "over" => \A i \in Items : db[i] >= due[i]

(* What is written next, or was written, if nothing is: it is new enough. *)
Secured(i) ==
  /\ \A t \in Threads : Saving(t) => job[t].snap[i] >= due[i]
  /\ (\A t \in Threads : ~Saving(t)) => db[i] >= due[i]

(* The last flush finds the mark, or a flush that has yet to read the board,  *)
(* or has nothing to do; it copies what is new enough; and after it nothing   *)
(* older is written, whoever flushes again.                                   *)
LastCovers ==
  Running /\ job["main"].verb = "last" => \A i \in Items :
    /\ due[i] <= board[i]
    /\ job["main"].pc = "swap" => dirty \/ Cloning \/ Secured(i)
    /\ job["main"].pc \in {"save", "idle"} => Secured(i)
    /\ job["main"].pc = "idle" => db[i] >= due[i]

SaveParts == Stamped /\ Accounted /\ OneFlush /\ MainTurns /\ LastCovers
SaveInv == smix.alone => SaveParts

-------------------------------------------------------------------------------
(* Types. *)

LEMMA SyncIsSafe == SyncSpec => SyncSafe
<1>1. SyncInit(SyncMixes) => SyncInit(SyncMix)
  BY SyncAssumption DEF SyncInit
<1> QED
  BY <1>1 DEF SyncSpec, SyncSafe

LEMMA RestWork == /\ Rest \in Work /\ Blank \in Boards /\ NoItem \in Items
                  /\ Rest.verb = "none" /\ Rest.pc = "idle" /\ Rest.snap = Blank
<1>1. NoItem \in Items
  BY SyncAssumption DEF NoItem
<1>2. Blank \in Boards /\ 0 \in 0 .. Gone
  BY SyncAssumption DEF Blank, Boards, Gone
<1> QED
  BY <1>1, <1>2 DEF Rest, Work

LEMMA TypesInit == SyncInit(SyncMix) => SaveTypes
<1> SUFFICES ASSUME SyncInit(SyncMix)
             PROVE  SaveTypes
    OBVIOUS
<1>1. stamp \in 0 .. MaxStamp /\ seq \in Nat /\ smix \in SyncMix
  BY SyncAssumption DEF SyncInit
<1>2. job \in [Threads -> Work]
  BY RestWork DEF SyncInit
<1> QED
  BY <1>1, <1>2, RestWork DEF SyncInit, SaveTypes

(* What a thread may be at, after its part of a step. *)
LEMMA ToWork ==
  ASSUME job \in [Threads -> Work], NEW t \in Threads, 
         NEW pc \in {"idle", "number", "push", "send", "mark", "swap", "clone", "save"}, To(t, pc)
  PROVE  /\ job' \in [Threads -> Work]
         /\ job'[t].pc = pc /\ job'[t].verb = job[t].verb
         /\ job'[t].snap = job[t].snap /\ job'[t].item = job[t].item
         /\ \A u \in Threads \ {t} : job'[u] = job[u]
<1>1. [job[t] EXCEPT !.pc = pc] \in Work
  BY DEF Work
<1> QED
  BY <1>1 DEF To, Work

LEMMA DoneWork ==
  ASSUME job \in [Threads -> Work], NEW t \in Threads, Done(t)
  PROVE  /\ job' \in [Threads -> Work]
         /\ job'[t] = Rest
         /\ \A u \in Threads \ {t} : job'[u] = job[u]
  BY RestWork DEF Done

(* A flush that is over: its thread rests, or goes on with the delete it was *)
(* a part of, or it was the last.                                            *)
Ended(t) ==
  /\ \/ job'[t].verb = "none" /\ job'[t].pc = "idle" /\ job[t].verb # "last"
     \/ job'[t].verb = "delete" /\ job'[t].pc = "number" /\ job[t].verb = "delete"
     \/ job'[t].verb = "last" /\ job'[t].pc = "idle" /\ job[t].verb = "last"
  /\ job'[t].snap \in {job[t].snap, Blank}

LEMMA FlushedWork ==
  ASSUME job \in [Threads -> Work], NEW t \in Threads, Flushed(t)
  PROVE  /\ job' \in [Threads -> Work] /\ Ended(t)
         /\ \A u \in Threads \ {t} : job'[u] = job[u]
<1>1. CASE job[t].verb = "delete"
  <2>1. To(t, "number")
    BY <1>1 DEF Flushed
  <2> QED
    BY <1>1, <2>1, ToWork DEF Ended
<1>2. CASE job[t].verb = "last"
  <2>1. To(t, "idle")
    BY <1>2 DEF Flushed
  <2> QED
    BY <1>2, <2>1, ToWork DEF Ended
<1>3. CASE job[t].verb \notin {"delete", "last"}
  <2>1. Done(t)
    BY <1>3 DEF Flushed
  <2> QED
    BY <1>3, <2>1, DoneWork, RestWork DEF Ended
<1> QED
  BY <1>1, <1>2, <1>3

(* The stream, the client and its loads leave all this alone. *)
Outside == Open \/ Subscribe \/ Drop \/ Hear \/ Poll \/ Load

LEMMA OutsideFrame == Outside \/ UNCHANGED syncVars => UNCHANGED <<server, smix>>
  BY DEF Outside, Open, Subscribe, Drop, Hear, HearMissed, HearLag, HearLive, Poll, Load, LoadRead,
         LoadNumber, LoadLands, syncVars

LEMMA TypesNext == SaveTypes /\ [SyncNext]_syncVars => SaveTypes'
<1> SUFFICES ASSUME SaveTypes, [SyncNext]_syncVars
             PROVE  SaveTypes'
    OBVIOUS
<1> job \in [Threads -> Work]
  BY DEF SaveTypes
<1>1. CASE Outside \/ UNCHANGED syncVars
  BY <1>1, OutsideFrame DEF SaveTypes, server
<1>2. ASSUME NEW w \in Writers, NEW i \in Items, Set(w, i)
      PROVE  SaveTypes'
  <2>1. stamp + 1 \in 0 .. MaxStamp /\ stamp + 1 \in 0 .. Gone
    BY <1>2, SyncAssumption DEF Set, SaveTypes, SyncMix, Gone
  <2>2. board' \in Boards
    BY <1>2, <2>1 DEF Set, SaveTypes, Boards
  <2>3. [Rest EXCEPT !.verb = "set", !.pc = "number", !.item = i, !.val = stamp + 1] \in Work
    BY <2>1, RestWork DEF Work
  <2>4. job' \in [Threads -> Work]
    BY <1>2, <2>3 DEF Set, Threads
  <2> QED
    BY <1>2, <2>1, <2>2, <2>4 DEF Set, SaveTypes
<1>3. ASSUME NEW w \in Writers, NEW i \in Items, Delete(w, i)
      PROVE  SaveTypes'
  <2>1. Gone \in 0 .. Gone
    BY SyncAssumption DEF Gone
  <2>2. board' \in Boards
    BY <1>3, <2>1 DEF Delete, SaveTypes, Boards
  <2>3. [Rest EXCEPT !.verb = "delete", !.pc = "mark", !.item = i, !.val = Gone] \in Work
    BY <2>1, RestWork DEF Work
  <2>4. job' \in [Threads -> Work]
    BY <1>3, <2>3 DEF Delete, Threads
  <2> QED
    BY <1>3, <2>2, <2>4 DEF Delete, SaveTypes
<1>4. ASSUME NEW w \in Writers, Number(w)
      PROVE  SaveTypes'
  <2>1. seq + 1 \in Nat
    BY DEF SaveTypes
  <2> w \in Threads
    BY DEF Threads
  <2> job[w] \in Work
    OBVIOUS
  <2>2. [job[w] EXCEPT !.pc = "push", !.seq = seq + 1] \in Work
    BY <2>1 DEF Work
  <2>3. job' \in [Threads -> Work]
    BY <1>4, <2>2 DEF Number
  <2> QED
    BY <1>4, <2>1, <2>3 DEF Number, SaveTypes
<1>5. ASSUME NEW w \in Writers, Push(w) \/ Send(w) \/ Mark(w)
      PROVE  SaveTypes'
  <2>1. w \in Threads
    BY DEF Threads
  <2>2. \/ To(w, "send") \/ To(w, "mark") \/ To(w, "swap") \/ Done(w)
    BY <1>5 DEF Push, Send, Mark
  <2>3. job' \in [Threads -> Work]
    BY <2>1, <2>2, ToWork, DoneWork
  <2>4. UNCHANGED <<up, board, stamp, seq, db, due, smix>> /\ dirty' \in BOOLEAN
    BY <1>5 DEF Push, Send, Mark, SaveTypes
  <2> QED
    BY <2>3, <2>4 DEF SaveTypes
<1>6. ASSUME NEW t \in Threads, Swap(t) \/ SaveFails(t)
      PROVE  SaveTypes'
  <2>1. To(t, "clone") \/ Flushed(t)
    BY <1>6 DEF Swap, SaveFails
  <2>2. job' \in [Threads -> Work]
    BY <2>1, ToWork, FlushedWork
  <2>3. UNCHANGED <<up, board, stamp, seq, db, smix>> /\ dirty' \in BOOLEAN /\ due' \in Boards
    BY <1>6, RestWork DEF Swap, SaveFails, SaveTypes, DirtyPast, Failed, ClearsAt
  <2> QED
    BY <2>2, <2>3 DEF SaveTypes
<1>7. ASSUME NEW t \in Threads, Clone(t)
      PROVE  SaveTypes'
  <2>1. board \in Boards
    BY DEF SaveTypes
  <2>2. [job[t] EXCEPT !.pc = "save", !.snap = board] \in Work
    BY <2>1 DEF Work
  <2>3. job' \in [Threads -> Work]
    BY <1>7, <2>2 DEF Clone
  <2> QED
    BY <1>7, <2>3 DEF Clone, SaveTypes
<1>8. ASSUME NEW t \in Threads, Save(t)
      PROVE  SaveTypes'
  <2>1. job' \in [Threads -> Work]
    BY <1>8, FlushedWork DEF Save
  <2>2. job[t].snap \in Boards
    BY DEF Work
  <2> QED
    BY <1>8, <2>1, <2>2 DEF Save, SaveTypes, DirtyPast, ClearsAt
<1>9. CASE Tick
  <2>1. "tick" \in Threads
    BY DEF Threads
  <2>2. job["tick"] \in Work
    BY <2>1
  <2>3. [job["tick"] EXCEPT !.verb = "flush", !.pc = "swap"] \in Work
    BY <2>2 DEF Work
  <2>4. job' \in [Threads -> Work]
    BY <1>9, <2>1, <2>3 DEF Tick
  <2> QED
    BY <1>9, <2>4 DEF Tick, SaveTypes
<1>10. CASE Interrupt \/ LastFlush
  <2>1. "main" \in Threads
    BY DEF Threads
  <2>2. job["main"] \in Work
    BY <2>1
  <2>3. \A v \in {"flush", "last"} : [job["main"] EXCEPT !.verb = v, !.pc = "swap"] \in Work
    BY <2>2 DEF Work
  <2>4. job' \in [Threads -> Work]
    BY <1>10, <2>1, <2>3 DEF Interrupt, LastFlush
  <2>5. Finished \in Boards
    BY SyncAssumption DEF Finished, SaveTypes, Boards, Gone
  <2> QED
    BY <1>10, <2>4, <2>5 DEF Interrupt, LastFlush, SaveTypes
<1>11. CASE Exit
  BY <1>11 DEF Exit, SaveTypes
<1>12. CASE Crash
  <2>1. job' \in [Threads -> Work]
    BY <1>12, RestWork DEF Crash
  <2> QED
    BY <1>12, <2>1, RestWork DEF Crash, SaveTypes
<1>13. CASE Restart
  BY <1>13 DEF Restart, SaveTypes
<1> QED
  BY <1>1, <1>2, <1>3, <1>4, <1>5, <1>6, <1>7, <1>8, <1>9, <1>10, <1>11, <1>12, <1>13
  DEF SyncNext, Verbs, Flush, Outside

-------------------------------------------------------------------------------
(* A step of one thread leaves what the others are at. *)
OthersStay(t) == \A u \in Threads \ {t} : job'[u] = job[u]

LEMMA SaveInit == SyncInit(SyncMix) => SaveInv
<1> SUFFICES ASSUME SyncInit(SyncMix)
             PROVE  SaveParts
  BY DEF SaveInv
<1>1. \A t \in Threads : /\ job[t] = Rest /\ job[t].verb = "none" /\ job[t].pc = "idle"
                         /\ job[t].snap = Blank
  BY RestWork DEF SyncInit
<1>2. board = Blank /\ db = Blank /\ stamp = 0 /\ up = "run" /\ "main" \in Threads
  BY DEF SyncInit, Threads
<1>3. Within(Blank)
  BY <1>2 DEF Within, Blank
<1>4. Stamped
  BY <1>1, <1>2, <1>3 DEF Stamped
<1>5. Accounted /\ OneFlush
  BY <1>1, <1>2 DEF Accounted, Saving, OneFlush, Flushing
<1>6. MainTurns /\ LastCovers
  BY <1>1, <1>2 DEF MainTurns, LastCovers, Idle
<1> QED
  BY <1>4, <1>5, <1>6 DEF SaveParts

(* A verb goes on: the board only grows, no copy is taken, and what it changed *)
(* stays owed.                                                                 *)
LEMMA VerbKeeps ==
  ASSUME SaveTypes, SaveTypes', SaveParts, NEW w \in Writers, Running, OthersStay(w),
         job[w].pc \notin {"clone", "save"}, job'[w].pc \notin {"clone", "save"},
         job'[w].snap \in {job[w].snap, Blank}, stamp <= stamp',
         \A i \in Items :
           /\ board[i] <= board'[i] /\ (board'[i] = board[i] \/ board'[i] \in {stamp', Gone})
           /\ \/ dirty'
              \/ Unmarked(w)' /\ i \in Changed(w)'
              \/ board'[i] = board[i] /\ ~(Unmarked(w) /\ i \in Changed(w)),
         dirty => dirty', UNCHANGED <<up, db, due>>
  PROVE  SaveParts'
<1> /\ w \in Threads /\ w # "main" /\ "main" \in Threads /\ up \in {"run", "exit"}
    /\ Writers \subseteq Threads
  BY SyncAssumption DEF Threads, Running
<1>a. /\ stamp \in Nat /\ stamp' \in Nat /\ Gone \in Nat
      /\ \A i \in Items : {board[i], board'[i], db[i], due[i]} \subseteq Nat
      /\ \A t \in Threads, i \in Items : job[t].snap[i] \in Nat /\ job'[t].snap[i] \in Nat
  <2>1. Gone \in Nat /\ 0 .. MaxStamp \subseteq Nat /\ \A f \in Boards, i \in Items : f[i] \in Nat
    BY SyncAssumption DEF Gone, Boards
  <2>2. \A t \in Threads : job[t].snap \in Boards /\ job'[t].snap \in Boards
    <3>1. job \in [Threads -> Work] /\ job' \in [Threads -> Work]
      BY DEF SaveTypes
    <3> QED
      BY <3>1 DEF Work
  <2> QED
    BY <2>1, <2>2 DEF SaveTypes
<1>b. Stamped /\ Accounted /\ OneFlush /\ MainTurns /\ LastCovers
  BY DEF SaveParts
<1>1. /\ \A t \in Threads : t \in Flushing' <=> t \in Flushing
      /\ \A t \in Threads : Saving(t)' <=> Saving(t)
      /\ \A t \in Threads : Saving(t) => job'[t].snap = job[t].snap
      /\ Cloning' <=> Cloning
  BY DEF OthersStay, Flushing, Saving, Cloning
<1>2. Stamped'
  <2>1. Within(board)' /\ Within(db)'
    BY <1>a, <1>b DEF Stamped, Within
  <2>2. Within(Blank)'
    BY <1>a DEF Within, Blank
  <2>3. ASSUME NEW t \in Threads
        PROVE  Within(job[t].snap)'
    <3>1. job'[t].snap = job[t].snap \/ job'[t].snap = Blank
      BY DEF OthersStay
    <3>2. CASE job'[t].snap = job[t].snap
      BY <1>a, <1>b, <3>2 DEF Stamped, Within
    <3>3. CASE job'[t].snap = Blank
      BY <2>2, <3>3 DEF Within
    <3> QED
      BY <3>1, <3>2, <3>3
  <2> QED
    BY <2>1, <2>3 DEF Stamped
<1>3. OneFlush'
  BY <1>b, <1>1 DEF OneFlush, Flushing
<1>4. MainTurns'
  BY <1>b DEF MainTurns, OthersStay, Idle
<1>5. ASSUME NEW i \in Items, ~Owed(i)'
      PROVE  ~Owed(i) /\ board'[i] = board[i]
  <2>1. ~dirty' /\ ~(Unmarked(w)' /\ i \in Changed(w)')
    BY <1>5 DEF Owed
  <2>2. board'[i] = board[i] /\ ~(Unmarked(w) /\ i \in Changed(w)) /\ ~dirty /\ ~Cloning
    BY <1>1, <1>5, <2>1 DEF Owed
  <2>3. \A v \in Writers \ {w} : ~(Unmarked(v) /\ i \in Changed(v))
    BY <1>5 DEF Owed, Unmarked, Changed, OthersStay
  <2> QED
    BY <2>2, <2>3 DEF Owed
<1>6. Accounted'
  BY <1>b, <1>1, <1>5 DEF Accounted, Running
<1>7. LastCovers'
  <2> SUFFICES ASSUME NEW i \in Items, job'["main"].verb = "last"
               PROVE  /\ due'[i] <= board'[i]
                      /\ job'["main"].pc = "swap" => (dirty \/ Cloning \/ Secured(i))'
                      /\ job'["main"].pc \in {"save", "idle"} => Secured(i)'
                      /\ job'["main"].pc = "idle" => db'[i] >= due'[i]
    BY DEF LastCovers
  <2>1. job'["main"] = job["main"]
    BY DEF OthersStay
  <2>2. Secured(i) => Secured(i)'
    BY <1>1 DEF Secured
  <2>3. due[i] <= board[i]
    BY <1>b, <2>1 DEF LastCovers
  <2>4. due'[i] <= board'[i]
    BY <1>a, <2>3
  <2> QED
    BY <1>b, <1>1, <2>1, <2>2, <2>4 DEF LastCovers
<1> QED
  BY <1>2, <1>3, <1>4, <1>6, <1>7 DEF SaveParts

LEMMA VerbsKeep ==
  ASSUME SaveTypes, SaveTypes', SaveParts, NEW w \in Writers,
         \/ \E i \in Items : Set(w, i) \/ Delete(w, i)
         \/ Number(w) \/ Push(w) \/ Send(w) \/ Mark(w)
  PROVE  SaveParts'
<1> job \in [Threads -> Work] /\ w \in Threads /\ "main" \in Threads
  BY DEF SaveTypes, Threads
<1> job[w] \in Work
  OBVIOUS
<1>0. /\ stamp \in Nat /\ MaxStamp \in Nat /\ stamp <= MaxStamp /\ Gone = MaxStamp + 1
      /\ \A k \in Items : board[k] \in 0 .. Gone /\ (board[k] <= stamp \/ board[k] = Gone)
  BY SyncAssumption DEF SaveTypes, Boards, Gone, SaveParts, Stamped, Within
<1>1. ASSUME NEW i \in Items, Set(w, i)
      PROVE  SaveParts'
  <2>1. job'[w] = [Rest EXCEPT !.verb = "set", !.pc = "number", !.item = i, !.val = stamp + 1]
        /\ OthersStay(w)
    BY <1>1 DEF Set, OthersStay
  <2>2. job'[w].verb = "set" /\ job'[w].pc = "number" /\ job'[w].item = i /\ job'[w].snap = Blank
    BY <2>1, RestWork DEF Rest
  <2>3. Unmarked(w)' /\ i \in Changed(w)'
    BY <2>2 DEF Unmarked, Changed
  <2>4. /\ Running /\ job[w].pc = "idle" /\ UNCHANGED <<up, db, due, dirty>>
        /\ stamp' = stamp + 1 /\ board[i] # Gone /\ board' = [board EXCEPT ![i] = stamp + 1]
    BY <1>1 DEF Set, Idle
  <2>5. board'[i] = stamp' /\ board[i] <= board'[i] /\ \A k \in Items \ {i} : board'[k] = board[k]
    BY <1>0, <2>4 DEF SaveTypes, Boards
  <2>6. ~Unmarked(w)
    BY <2>4 DEF Unmarked
  <2>7. \A k \in Items :
          /\ board[k] <= board'[k] /\ (board'[k] = board[k] \/ board'[k] \in {stamp', Gone})
          /\ \/ Unmarked(w)' /\ k \in Changed(w)'
             \/ board'[k] = board[k] /\ ~(Unmarked(w) /\ k \in Changed(w))
    BY <1>0, <2>3, <2>5, <2>6
  <2>8. stamp <= stamp'
    BY <1>0, <2>4
  <2> QED
    BY <2>1, <2>2, <2>4, <2>7, <2>8, VerbKeeps
<1>2. ASSUME NEW i \in Items, Delete(w, i)
      PROVE  SaveParts'
  <2>1. job'[w] = [Rest EXCEPT !.verb = "delete", !.pc = "mark", !.item = i, !.val = Gone]
        /\ OthersStay(w)
    BY <1>2 DEF Delete, OthersStay
  <2>2. job'[w].verb = "delete" /\ job'[w].pc = "mark" /\ job'[w].item = i /\ job'[w].snap = Blank
    BY <2>1, RestWork DEF Rest
  <2>3. Unmarked(w)' /\ Changed(w)' = Under[i]
    BY <2>2 DEF Unmarked, Changed
  <2>4. /\ Running /\ job[w].pc = "idle" /\ UNCHANGED <<up, db, due, dirty, stamp>>
        /\ board' = [k \in Items |-> IF k \in Under[i] THEN Gone ELSE board[k]]
    BY <1>2 DEF Delete, Idle
  <2>5. ~Unmarked(w)
    BY <2>4 DEF Unmarked
  <2>6. \A k \in Items :
          /\ board[k] <= board'[k] /\ (board'[k] = board[k] \/ board'[k] \in {stamp', Gone})
          /\ \/ Unmarked(w)' /\ k \in Changed(w)'
             \/ board'[k] = board[k] /\ ~(Unmarked(w) /\ k \in Changed(w))
    BY <1>0, <2>3, <2>4, <2>5
  <2>7. stamp <= stamp'
    BY <1>0, <2>4
  <2> QED
    BY <2>1, <2>2, <2>4, <2>6, <2>7, VerbKeeps
<1>3. ASSUME OthersStay(w), job'[w].snap \in {job[w].snap, Blank},
             Running, job[w].pc \notin {"clone", "save"}, job'[w].pc \notin {"clone", "save"},
             UNCHANGED <<up, board, stamp, db, due>>, dirty => dirty',
             dirty' \/ ~Unmarked(w) \/ (Unmarked(w)' /\ Changed(w)' = Changed(w))
      PROVE  SaveParts'
  <2>1. \A k \in Items : board[k] <= board'[k]
    BY <1>0, <1>3
  <2>2. stamp <= stamp'
    BY <1>0, <1>3
  <2> QED
    BY <1>3, <2>1, <2>2, VerbKeeps
<1>4. CASE Number(w)
  <2>1. job'[w] = [job[w] EXCEPT !.pc = "push", !.seq = seq + 1] /\ OthersStay(w)
    BY <1>4 DEF Number, OthersStay
  <2>2. /\ job'[w].verb = job[w].verb /\ job'[w].pc = "push"
        /\ job'[w].item = job[w].item /\ job'[w].snap = job[w].snap
    BY <2>1 DEF Work
  <2>3. Running /\ job[w].pc = "number" /\ UNCHANGED <<up, db, due, dirty, board, stamp>>
    BY <1>4 DEF Number, In
  <2>4. ~Unmarked(w) \/ (Unmarked(w)' /\ Changed(w)' = Changed(w))
    BY <2>2, <2>3 DEF Unmarked, Changed
  <2> QED
    BY <1>3, <2>1, <2>2, <2>3, <2>4
<1>5. CASE Push(w)
  <2>1. /\ job'[w].verb = job[w].verb /\ job'[w].pc = "send" /\ OthersStay(w)
        /\ job'[w].item = job[w].item /\ job'[w].snap = job[w].snap
    BY <1>5, ToWork DEF Push, OthersStay
  <2>2. Running /\ job[w].pc = "push" /\ UNCHANGED <<up, db, due, dirty, board, stamp>>
    BY <1>5 DEF Push, In
  <2>3. ~Unmarked(w) \/ (Unmarked(w)' /\ Changed(w)' = Changed(w))
    BY <2>1, <2>2 DEF Unmarked, Changed
  <2> QED
    BY <1>3, <2>1, <2>2, <2>3
<1>6. CASE Send(w)
  <2>1. Running /\ job[w].pc = "send" /\ UNCHANGED <<up, db, due, dirty, board, stamp>>
    BY <1>6 DEF Send, In
  <2>2. CASE job[w].verb = "set"
    <3>1. /\ job'[w].verb = "set" /\ job'[w].pc = "mark" /\ OthersStay(w)
          /\ job'[w].item = job[w].item /\ job'[w].snap = job[w].snap
      BY <1>6, <2>2, ToWork DEF Send, OthersStay
    <3>2. Unmarked(w)' /\ Changed(w)' = Changed(w)
      BY <2>2, <3>1 DEF Unmarked, Changed
    <3> QED
      BY <1>3, <2>1, <3>1, <3>2
  <2>3. CASE job[w].verb # "set"
    <3>1. job'[w] = Rest /\ OthersStay(w)
      BY <1>6, <2>3, DoneWork DEF Send, OthersStay
    <3>2. ~Unmarked(w) /\ job'[w].pc = "idle" /\ job'[w].snap = Blank
      BY <2>1, <2>3, <3>1, RestWork DEF Unmarked
    <3> QED
      BY <1>3, <2>1, <3>1, <3>2
  <2> QED
    BY <2>2, <2>3
<1>7. CASE Mark(w)
  <2>1. Running /\ job[w].pc = "mark" /\ UNCHANGED <<up, db, due, board, stamp>> /\ dirty'
    BY <1>7 DEF Mark, In
  <2>2. /\ job'[w].pc \in {"idle", "swap"} /\ job'[w].snap \in {job[w].snap, Blank}
        /\ OthersStay(w)
    BY <1>7, ToWork, DoneWork, RestWork DEF Mark, OthersStay
  <2> QED
    BY <1>3, <2>1, <2>2
<1> QED
  BY <1>1, <1>2, <1>4, <1>5, <1>6, <1>7

(* A flush, thread by thread.  Tick, Interrupt and LastFlush start one; the    *)
(* last answers for what nobody is about to mark, and that is accounted for.   *)
LEMMA StartsKeep ==
  ASSUME SaveTypes, SaveTypes', SaveParts, Tick \/ Interrupt \/ LastFlush
  PROVE  SaveParts'
<1> job \in [Threads -> Work] /\ "tick" \in Threads /\ "main" \in Threads /\ Writers \subseteq Threads
  BY DEF SaveTypes, Threads
<1>b. Stamped /\ Accounted /\ OneFlush /\ MainTurns /\ LastCovers
  BY DEF SaveParts
<1>1. PICK t \in {"tick", "main"}, v \in {"flush", "last"} :
        /\ job' = [job EXCEPT ![t].verb = v, ![t].pc = "swap"]
        /\ t = "tick" => Tick /\ v = "flush"
        /\ t = "main" => Interrupt \/ LastFlush
        /\ LastFlush <=> v = "last"
  BY DEF Tick, Interrupt, LastFlush
<1> t \in Threads /\ t \notin Writers /\ job[t] \in Work
  BY SyncAssumption
<1>2. /\ job'[t].verb = v /\ job'[t].pc = "swap" /\ job'[t].snap = job[t].snap
      /\ OthersStay(t)
  BY <1>1 DEF OthersStay, Work
<1>3. /\ UNCHANGED <<board, db, dirty, stamp>> /\ Running /\ Running'
      /\ up' = "run" => t = "tick" /\ up = "run"
      /\ ~LastFlush => due' = due
  BY <1>1 DEF Tick, Interrupt, LastFlush, Running
<1>4. job[t].pc = "idle"
  BY <1>b, <1>1 DEF Tick, Interrupt, LastFlush, MainTurns, Idle
<1>5. /\ \A u \in Threads : u \in Flushing' <=> u \in Flushing
      /\ \A u \in Threads : /\ Saving(u)' <=> Saving(u)
                            /\ job'[u].snap = job[u].snap
      /\ Cloning' <=> Cloning
  BY <1>2, <1>4 DEF OthersStay, Flushing, Saving, Cloning
<1>6. Stamped' /\ OneFlush'
  BY <1>b, <1>3, <1>5 DEF Stamped, Within, OneFlush, Flushing
<1>7. \A i \in Items : Owed(i)' <=> Owed(i)
  <2>1. \A w \in Writers : (Unmarked(w)' <=> Unmarked(w)) /\ Changed(w)' = Changed(w)
    BY <1>2 DEF Unmarked, Changed, OthersStay
  <2> QED
    BY <1>3, <1>5, <2>1 DEF Owed
<1>8. Accounted'
  BY <1>b, <1>3, <1>5, <1>7 DEF Accounted
<1>9. MainTurns'
  <2>1. up' \in {"run", "exit"}
    BY <1>3 DEF Running
  <2>2. job'["main"].verb = "none" => Idle("main")' /\ t = "tick"
    BY <1>b, <1>1, <1>2 DEF MainTurns, Idle, OthersStay
  <2>3. up' = "run" => job'["main"].verb = "none"
    BY <1>b, <1>2, <1>3 DEF MainTurns, OthersStay
  <2> QED
    BY <2>1, <2>2, <2>3 DEF MainTurns
<1>10. LastCovers'
  <2>1. CASE Tick /\ ~LastFlush
    <3>1. due' = due /\ (job'["main"] = job["main"] \/ job'["main"].verb = "flush")
      BY <1>1, <1>2, <1>3, <2>1 DEF OthersStay
    <3>2. \A i \in Items : Secured(i)' <=> Secured(i)
      BY <1>3, <1>5, <3>1 DEF Secured
    <3> QED
      BY <1>b, <1>3, <1>5, <3>1, <3>2 DEF LastCovers
  <2>2. CASE Interrupt /\ ~LastFlush
    <3>1. t = "main" => job'["main"].verb = "flush"
      BY <1>1, <1>2, <2>2
    <3>2. t = "tick" => job'["main"].verb = "none"
      BY <1>b, <1>2, <2>2 DEF Interrupt, MainTurns, OthersStay
    <3> QED
      BY <3>1, <3>2 DEF LastCovers
  <2>3. CASE LastFlush
    <3>1. due' = Finished
      BY <2>3 DEF LastFlush
    <3> SUFFICES ASSUME NEW i \in Items
                 PROVE  due'[i] <= board[i] /\ (dirty \/ Cloning \/ Secured(i)')
      <4>1. t = "main"
        BY <1>1, <2>3
      <4> QED
        BY <1>2, <1>3, <1>5, <4>1 DEF LastCovers
    <3>2. /\ board[i] \in Nat /\ db[i] \in Nat /\ \A u \in Threads : job[u].snap[i] \in Nat
      <4>1. 0 .. Gone \subseteq Nat
        BY SyncAssumption DEF Gone
      <4>2. \A u \in Threads : job[u].snap \in Boards
        BY DEF Work
      <4> QED
        BY <4>1, <4>2 DEF SaveTypes, Boards
    <3>3. CASE \E w \in Writers : Unmarked(w) /\ i \in Changed(w)
      <4>1. due'[i] = 0
        BY <3>1, <3>3 DEF Finished
      <4>2. Secured(i)'
        BY <1>3, <1>5, <3>2, <4>1 DEF Secured
      <4> QED
        BY <3>2, <4>1, <4>2
    <3>4. CASE ~(\E w \in Writers : Unmarked(w) /\ i \in Changed(w))
      <4>1. due'[i] = board[i]
        BY <3>1, <3>4 DEF Finished
      <4>2. ~dirty /\ ~Cloning => Secured(i)'
        <5> SUFFICES ASSUME ~dirty, ~Cloning PROVE Secured(i)'
          OBVIOUS
        <5>1. ~Owed(i)
          BY <3>4 DEF Owed
        <5>2. /\ \A u \in Threads : Saving(u) => job[u].snap[i] = board[i]
              /\ (\A u \in Threads : ~Saving(u)) => db[i] = board[i]
          BY <1>b, <1>3, <5>1 DEF Accounted
        <5> QED
          BY <1>3, <1>5, <3>2, <4>1, <5>2 DEF Secured
      <4> QED
        BY <3>2, <4>1, <4>2
    <3> QED
      BY <3>3, <3>4
  <2> QED
    BY <2>1, <2>2, <2>3
<1> QED
  BY <1>6, <1>8, <1>9, <1>10 DEF SaveParts

(* Its steps: a flush takes the mark, reads the board, writes what it read;    *)
(* or is over, with nothing to do, or done, or failed.                         *)
TakesMark(t) == /\ job[t].pc = "swap" /\ dirty /\ ~dirty' /\ UNCHANGED <<db, due>>
                /\ job'[t].pc = "clone"
                /\ job'[t].verb = job[t].verb /\ job'[t].snap = job[t].snap
ReadsBoard(t) == /\ job[t].pc = "clone" /\ UNCHANGED <<dirty, db, due>>
                 /\ job'[t].pc = "save" /\ job'[t].verb = job[t].verb /\ job'[t].snap = board
FindsNothing(t) == job[t].pc = "swap" /\ ~dirty /\ Ended(t) /\ UNCHANGED <<dirty, db, due>>
Writes(t) == job[t].pc = "save" /\ Ended(t) /\ db' = job[t].snap /\ UNCHANGED <<dirty, due>>
Fails(t) == /\ job[t].pc = "save" /\ Ended(t) /\ dirty' /\ UNCHANGED db
            /\ due' = IF job[t].verb = "last" THEN Blank ELSE due

LEMMA FlushIs ==
  ASSUME SaveTypes, OneFlush, smix.alone, NEW t \in Threads, Flush(t)
  PROVE  /\ UNCHANGED <<up, board, stamp>> /\ Running /\ OthersStay(t)
         /\ \A u \in Threads \ {t} : u \notin Flushing /\ u \notin Flushing'
         /\ ~Unmarked(t) /\ ~Unmarked(t)'
         /\ TakesMark(t) \/ ReadsBoard(t) \/ FindsNothing(t) \/ Writes(t) \/ Fails(t)
<1> job \in [Threads -> Work]
  BY DEF SaveTypes
<1> job[t] \in Work
  OBVIOUS
<1>1. /\ UNCHANGED <<up, board, stamp>> /\ Running
      /\ job[t].pc \in {"swap", "clone", "save"}
  BY DEF Flush, Swap, Clone, Save, SaveFails, In, Running
<1>2. OthersStay(t) /\ (TakesMark(t) \/ ReadsBoard(t) \/ FindsNothing(t) \/ Writes(t) \/ Fails(t))
  <2>1. CASE Swap(t) /\ dirty
    <3>1. To(t, "clone") /\ DirtyPast("swap") /\ UNCHANGED <<db, due>> /\ job[t].pc = "swap"
      BY <2>1 DEF Swap, In
    <3>2. ~dirty'
      BY <3>1 DEF DirtyPast, ClearsAt
    <3> QED
      BY <2>1, <3>1, <3>2, ToWork DEF OthersStay, TakesMark
  <2>2. CASE Swap(t) /\ ~dirty
    BY <2>2, FlushedWork DEF Swap, In, OthersStay, FindsNothing
  <2>3. CASE Clone(t)
    <3>1. job'[t] = [job[t] EXCEPT !.pc = "save", !.snap = board] /\ OthersStay(t)
      BY <2>3 DEF Clone, OthersStay
    <3>2. job'[t].verb = job[t].verb /\ job'[t].pc = "save" /\ job'[t].snap = board
      BY <3>1 DEF Work
    <3> QED
      BY <2>3, <3>1, <3>2 DEF Clone, In, ReadsBoard
  <2>4. CASE Save(t)
    <3>1. dirty' = dirty
      BY <2>4 DEF Save, DirtyPast, ClearsAt, SaveTypes
    <3> QED
      BY <2>4, <3>1, FlushedWork DEF Save, In, OthersStay, Writes
  <2>5. CASE SaveFails(t)
    BY <2>5, FlushedWork DEF SaveFails, In, OthersStay, Failed, Fails
  <2> QED
    BY <2>1, <2>2, <2>3, <2>4, <2>5 DEF Flush
<1>3. Swap(t) => Flushing = {}
  BY DEF Swap, MayFlush
<1>4. \A u \in Threads \ {t} : u \notin Flushing
  BY <1>1, <1>3 DEF OneFlush, Flushing, Flush, Clone, Save, SaveFails, In
<1>5. \A u \in Threads \ {t} : u \notin Flushing'
  BY <1>2, <1>4 DEF OthersStay, Flushing
<1>6. ~Unmarked(t) /\ ~Unmarked(t)'
  BY <1>1, <1>2
  DEF Unmarked, TakesMark, ReadsBoard, FindsNothing, Writes, Fails, Ended
<1> QED
  BY <1>1, <1>2, <1>4, <1>5, <1>6

LEMMA FlushKeeps ==
  ASSUME SaveTypes, SaveTypes', SaveParts, smix.alone, NEW t \in Threads, Flush(t)
  PROVE  SaveParts'
<1> "main" \in Threads /\ Writers \subseteq Threads
  BY DEF Threads
<1>b. Stamped /\ Accounted /\ OneFlush /\ MainTurns /\ LastCovers
  BY DEF SaveParts
<1>1. /\ UNCHANGED <<up, board, stamp>> /\ Running /\ OthersStay(t)
      /\ \A u \in Threads \ {t} : u \notin Flushing /\ u \notin Flushing'
      /\ ~Unmarked(t) /\ ~Unmarked(t)'
      /\ TakesMark(t) \/ ReadsBoard(t) \/ FindsNothing(t) \/ Writes(t) \/ Fails(t)
  BY <1>b, FlushIs
<1>2. /\ \A u \in Threads \ {t} : /\ ~Saving(u) /\ ~Saving(u)'
                                  /\ job[u].pc # "clone" /\ job'[u].pc # "clone"
      /\ Running' /\ up' \in {"run", "exit"}
  BY <1>1 DEF Flushing, Saving, Running
<1>3. /\ TakesMark(t) => ~Saving(t) /\ ~Saving(t)' /\ Cloning'
      /\ ReadsBoard(t) => Saving(t)' /\ ~Cloning'
      /\ FindsNothing(t) => ~Saving(t) /\ ~Saving(t)' /\ ~Cloning
      /\ Writes(t) \/ Fails(t) => Saving(t) /\ ~Saving(t)' /\ ~Cloning
  BY <1>2 DEF TakesMark, ReadsBoard, FindsNothing, Writes, Fails, Ended, Saving, Cloning
<1>4. OneFlush'
  BY <1>1 DEF OneFlush
<1>5. Stamped'
  <2>1. Within(Blank)'
    BY DEF Within, Blank, SaveTypes
  <2>2. Within(db)'
    BY <1>b, <1>1 DEF Stamped, Within, TakesMark, ReadsBoard, FindsNothing, Writes, Fails
  <2>3. job'[t].snap \in {job[t].snap, board, Blank}
    BY <1>1 DEF TakesMark, ReadsBoard, FindsNothing, Writes, Fails, Ended
  <2>4. ASSUME NEW u \in Threads
        PROVE  Within(job[u].snap)'
    <3>1. job'[u].snap \in {job[u].snap, board, Blank}
      BY <1>1, <2>3 DEF OthersStay
    <3>2. CASE job'[u].snap = job[u].snap \/ job'[u].snap = board
      BY <1>b, <1>1, <3>2 DEF Stamped, Within
    <3>3. CASE job'[u].snap = Blank
      BY <2>1, <3>3 DEF Within
    <3> QED
      BY <3>1, <3>2, <3>3
  <2> QED
    BY <1>b, <1>1, <2>2, <2>4 DEF Stamped, Within
<1>6. MainTurns'
  <2>1. job["main"].verb # "none" \/ t # "main"
    BY <1>b, <1>1 DEF MainTurns, Idle, TakesMark, ReadsBoard, FindsNothing, Writes, Fails
  <2>2. up' = "run" => t # "main" /\ job["main"].verb = "none"
    BY <1>b, <1>1, <2>1 DEF MainTurns
  <2>3. job'["main"].verb = "none" => Idle("main")'
    BY <1>b, <1>1, <2>1
    DEF MainTurns, Idle, OthersStay, TakesMark, ReadsBoard, FindsNothing, Writes, Fails, Ended
  <2> QED
    BY <1>1, <1>2, <2>2, <2>3 DEF MainTurns, OthersStay
<1>7. Accounted'
  <2> SUFFICES ASSUME NEW i \in Items, ~Owed(i)'
               PROVE  /\ \A u \in Threads : Saving(u)' => job'[u].snap[i] = board'[i]
                      /\ (\A u \in Threads : ~Saving(u)') => db'[i] = board'[i]
    BY DEF Accounted
  <2>1. \A w \in Writers : ~(Unmarked(w) /\ i \in Changed(w))
    <3> SUFFICES ASSUME NEW w \in Writers, w # t PROVE ~(Unmarked(w) /\ i \in Changed(w))
      BY <1>1
    <3>1. ~(Unmarked(w) /\ i \in Changed(w))'
      BY DEF Owed
    <3> QED
      BY <1>1, <3>1 DEF OthersStay, Unmarked, Changed
  <2>2. ~dirty' /\ ~Cloning'
    BY DEF Owed
  <2>3. CASE ReadsBoard(t)
    BY <1>1, <1>2, <1>3, <2>3 DEF ReadsBoard
  <2>4. CASE FindsNothing(t)
    <3>1. ~Owed(i)
      BY <1>3, <2>1, <2>2, <2>4 DEF Owed, FindsNothing
    <3> QED
      BY <1>b, <1>1, <1>2, <1>3, <2>4, <3>1 DEF Accounted, FindsNothing
  <2>5. CASE Writes(t)
    <3>1. ~Owed(i)
      BY <1>3, <2>1, <2>2, <2>5 DEF Owed, Writes
    <3>2. job[t].snap[i] = board[i]
      BY <1>b, <1>1, <1>3, <2>5, <3>1 DEF Accounted
    <3> QED
      BY <1>1, <1>2, <1>3, <2>5, <3>2 DEF Writes
  <2> QED
    BY <1>1, <1>3, <2>2, <2>3, <2>4, <2>5 DEF Fails
<1>8. LastCovers'
  <2> SUFFICES ASSUME NEW i \in Items, job'["main"].verb = "last"
               PROVE  /\ due'[i] <= board'[i]
                      /\ job'["main"].pc = "swap" => (dirty \/ Cloning \/ Secured(i))'
                      /\ job'["main"].pc \in {"save", "idle"} => Secured(i)'
                      /\ job'["main"].pc = "idle" => db'[i] >= due'[i]
    BY DEF LastCovers
  <2>0. /\ {board[i], db[i], due[i], db'[i], due'[i]} \subseteq Nat /\ Blank[i] = 0
    <3>1. 0 .. Gone \subseteq Nat
      BY SyncAssumption DEF Gone
    <3> QED
      BY <3>1 DEF SaveTypes, Boards, Blank
  <2>1. job["main"].verb = "last"
    BY <1>1 DEF OthersStay, TakesMark, ReadsBoard, FindsNothing, Writes, Fails, Ended
  <2>2. /\ due[i] <= board[i]
        /\ job["main"].pc = "swap" => dirty \/ Cloning \/ Secured(i)
        /\ job["main"].pc \in {"save", "idle"} => Secured(i)
        /\ job["main"].pc = "idle" => db[i] >= due[i]
    BY <1>b, <1>1, <2>1 DEF LastCovers
  <2>3. due'[i] = due[i] \/ (due'[i] = 0 /\ Fails(t))
    BY <1>1, <2>0 DEF TakesMark, ReadsBoard, FindsNothing, Writes, Fails
  <2>4. due'[i] <= board'[i] /\ due'[i] <= due[i]
    BY <1>1, <2>0, <2>2, <2>3
  <2>5. (\A u \in Threads : ~Saving(u)') /\ db'[i] >= due'[i] => Secured(i)'
    BY DEF Secured
  <2>6. (\A u \in Threads : ~Saving(u)) /\ Secured(i) => db[i] >= due[i]
    BY DEF Secured
  <2>7. t # "main" => job["main"].pc \notin {"clone", "save"} /\ job'["main"] = job["main"]
    BY <1>1 DEF Flushing, OthersStay
  <2>8. CASE TakesMark(t)
    <3>1. /\ \A u \in Threads : ~Saving(u) /\ ~Saving(u)'
          /\ Cloning' /\ db' = db /\ due' = due
          /\ t = "main" => job'["main"].pc = "clone"
      BY <1>2, <1>3, <2>8 DEF TakesMark
    <3> QED
      BY <2>2, <2>4, <2>5, <2>7, <3>1
  <2>9. CASE ReadsBoard(t)
    <3>1. /\ Saving(t)' /\ job'[t].snap = board /\ db' = db /\ due' = due
          /\ t = "main" => job'["main"].pc = "save"
      BY <1>3, <2>9 DEF ReadsBoard
    <3>2. Secured(i)'
      BY <1>2, <2>0, <2>2, <3>1 DEF Secured
    <3> QED
      BY <2>2, <2>4, <2>7, <3>1, <3>2
  <2>10. CASE FindsNothing(t)
    <3>1. /\ \A u \in Threads : ~Saving(u) /\ ~Saving(u)'
          /\ ~Cloning /\ ~dirty /\ db' = db /\ due' = due
          /\ t = "main" => job["main"].pc = "swap" /\ job'["main"].pc = "idle"
      BY <1>2, <1>3, <2>1, <2>10 DEF FindsNothing, Ended
    <3>2. job["main"].pc \in {"swap", "idle"} => db[i] >= due[i]
      BY <2>2, <2>6, <3>1
    <3>3. job'["main"].pc \in {"swap", "save", "idle"} => Secured(i)'
      BY <2>5, <2>7, <3>1, <3>2
    <3> QED
      BY <2>4, <2>7, <3>1, <3>2, <3>3
  <2>11. CASE Writes(t)
    <3>1. /\ \A u \in Threads : ~Saving(u)'
          /\ Saving(t) /\ ~Cloning /\ db' = job[t].snap /\ due' = due /\ dirty' = dirty
          /\ t = "main" => job["main"].pc = "save" /\ job'["main"].pc = "idle"
      BY <1>2, <1>3, <2>1, <2>11 DEF Writes, Ended
    <3>2. Secured(i) => db'[i] >= due'[i]
      BY <3>1 DEF Secured
    <3>3. Secured(i) => Secured(i)'
      BY <2>5, <3>1, <3>2
    <3>4. CASE job["main"].pc = "swap" /\ dirty
      BY <2>4, <2>7, <3>1, <3>4
    <3>5. CASE job["main"].pc # "swap" \/ ~dirty
      <4>1. job["main"].pc \in {"swap", "save", "idle"} => Secured(i)
        BY <2>2, <3>1, <3>5
      <4> QED
        BY <2>4, <2>7, <3>1, <3>2, <3>3, <4>1
    <3> QED
      BY <3>4, <3>5
  <2>12. CASE Fails(t)
    <3>1. /\ \A u \in Threads : ~Saving(u)'
          /\ dirty' /\ db' = db /\ (t = "main" => due' = Blank /\ job'["main"].pc = "idle")
      BY <1>2, <1>3, <2>1, <2>12 DEF Fails, Ended
    <3>2. job'["main"].pc = "idle" => db'[i] >= due'[i]
      BY <2>0, <2>2, <2>4, <2>7, <3>1
    <3>3. job'["main"].pc \in {"save", "idle"} => Secured(i)'
      BY <2>5, <2>7, <3>1, <3>2
    <3> QED
      BY <2>4, <3>1, <3>2, <3>3
  <2> QED
    BY <1>1, <2>8, <2>9, <2>10, <2>11, <2>12
<1> QED
  BY <1>4, <1>5, <1>6, <1>7, <1>8 DEF SaveParts

LEMMA SaveNext ==
  SaveTypes /\ SaveTypes' /\ SaveInv /\ [SyncNext]_syncVars => SaveInv'
<1> SUFFICES ASSUME SaveTypes, SaveTypes', SaveInv, [SyncNext]_syncVars, smix'.alone
             PROVE  SaveParts'
    BY DEF SaveInv
<1>0. UNCHANGED smix
  BY OutsideFrame DEF SyncNext, Outside, Verbs, Flush, Set, Delete, Number, Push, Send, Mark, Swap,
                      Clone, Save, SaveFails, Tick, Interrupt, LastFlush, Exit, Crash, Restart
<1> smix.alone /\ SaveParts
  BY <1>0 DEF SaveInv
<1>b. Stamped /\ Accounted /\ OneFlush /\ MainTurns /\ LastCovers /\ "main" \in Threads
  BY DEF SaveParts, Threads
<1>1. CASE Outside \/ UNCHANGED syncVars
  BY <1>1, OutsideFrame
  DEF server, SaveParts, Stamped, Within, Accounted, Running, Owed, Cloning, Unmarked, Changed,
      Saving, OneFlush, Flushing, MainTurns, Idle, LastCovers, Secured
<1>2. CASE Verbs
  BY <1>2, VerbsKeep DEF Verbs
<1>3. CASE Tick \/ Interrupt \/ LastFlush
  BY <1>3, StartsKeep
<1>4. CASE \E t \in Threads : Flush(t)
  BY <1>4, FlushKeeps
<1>5. CASE Exit
  <2>1. /\ up = "exit" /\ up' = "over" /\ UNCHANGED <<board, db, due, stamp, job>>
        /\ job["main"].verb = "last" /\ job["main"].pc = "idle"
    BY <1>5 DEF Exit, Idle
  <2>2. \A i \in Items : db'[i] >= due'[i]
    BY <1>b, <2>1 DEF LastCovers, Running
  <2>3. MainTurns'
    BY <1>b, <2>1, <2>2 DEF MainTurns, Idle
  <2> QED
    BY <1>b, <2>1, <2>3
    DEF SaveParts, Stamped, Within, Accounted, Running, OneFlush, Flushing, LastCovers
<1>6. CASE Crash
  <2>1. up' = "down" /\ job' = [t \in Threads |-> Rest] /\ UNCHANGED <<board, db, stamp>>
    BY <1>6 DEF Crash
  <2>2. \A t \in Threads : /\ job'[t].pc = "idle" /\ job'[t].verb = "none"
                           /\ job'[t].snap = Blank
    BY <2>1, RestWork
  <2>3. Within(Blank)'
    BY DEF Within, Blank, SaveTypes
  <2>4. Stamped'
    BY <1>b, <2>1, <2>2, <2>3 DEF Stamped, Within
  <2> QED
    BY <1>b, <2>1, <2>2, <2>4
    DEF SaveParts, Accounted, Running, OneFlush, Flushing, MainTurns, Idle, LastCovers
<1>7. CASE Restart
  <2>1. /\ up' = "run" /\ board' = db /\ UNCHANGED <<db, stamp, job>>
        /\ job = [t \in Threads |-> Rest]
    BY <1>b, <1>7 DEF Restart, MainTurns
  <2>2. \A t \in Threads : job'[t].pc = "idle" /\ job'[t].verb = "none"
    BY <2>1, RestWork
  <2>3. Stamped'
    BY <1>b, <2>1 DEF Stamped, Within
  <2> QED
    BY <1>b, <2>1, <2>2, <2>3
    DEF SaveParts, Accounted, Saving, OneFlush, Flushing, MainTurns, Idle, LastCovers
<1> QED
  BY <1>1, <1>2, <1>3, <1>4, <1>5, <1>6, <1>7 DEF SyncNext, Outside

LEMMA SaveTypesHold == SyncSafe => [](SaveTypes /\ SaveInv)
<1>1. SyncInit(SyncMix) => SaveTypes /\ SaveInv
  BY TypesInit, SaveInit
<1>2. SaveTypes /\ SaveInv /\ [SyncNext]_syncVars => (SaveTypes /\ SaveInv)'
  BY TypesNext, SaveNext
<1> QED
  BY <1>1, <1>2, PTL DEF SyncSafe

LEMMA ExitSafe == SyncSafe => []ExitSavesFinished
<1>1. SaveInv => ExitSavesFinished
  BY DEF SaveInv, SaveParts, MainTurns, ExitSavesFinished
<1> QED
  BY <1>1, SaveTypesHold, PTL

(* A graceful exit loses no finished change: what the verbs that were over had *)
(* changed when main began its last flush is in the database when main has     *)
(* returned, whatever verbs and flushes ran beside that flush and after it,    *)
(* unless it failed itself (flush and the drain of src/main.rs), for every     *)
(* number of writers, items and changes, any saves that failed and any crash   *)
(* before, where flushes do not overtake each other.                           *)
THEOREM ExitSaves == SyncSpec => []ExitSavesFinished
  BY SyncIsSafe, ExitSafe

-------------------------------------------------------------------------------
(* The stream.  A filter over the buffer, as far as it has got. *)

Step(evs, last, f, n) ==
  IF n = 0 THEN <<>>
  ELSE IF evs[n].seq > last THEN Append(f[n - 1], evs[n]) ELSE f[n - 1]
Filter(evs, last, m) ==
  {f \in [0 .. m -> Seq(Event)] : \A n \in 0 .. m : f[n] = Step(evs, last, f, n)}

(* Every number up to which something does not hold has a first one. *)
LEMMA NatOrder == IsWellFoundedOn({p \in Nat \X Nat : p[1] < p[2]}, Nat)
  BY NatLessThanWellFounded DEF OpToRel

LEMMA FirstOf ==
  ASSUME NEW S \in SUBSET Nat, S # {}
  PROVE  \E i \in S : \A k \in S : i <= k
<1> DEFINE R == {p \in Nat \X Nat : p[1] < p[2]}
<1>1. IsWellFoundedOn(R, Nat)
  BY NatOrder
<1>2. \E x \in S : \A y \in S : ~(<<y, x>> \in R)
  <2> HIDE DEF R
  <2>1. S \subseteq Nat /\ S # {}
    OBVIOUS
  <2> QED
    BY <1>1, <2>1, WFMin, Zenon
<1>3. PICK i \in S : \A k \in S : ~(<<k, i>> \in R)
  BY <1>2
<1>4. \A k \in S : i <= k
  <2> TAKE k \in S
  <2>1. i \in Nat /\ k \in Nat
    OBVIOUS
  <2>2. <<k, i>> \in R <=> k < i
    BY <2>1
  <2> QED
    BY <1>3, <2>1, <2>2
<1> QED
  BY <1>4

LEMMA FilterIs ==
  ASSUME NEW evs \in Seq(Event), NEW last
  PROVE  \E f \in Filter(evs, last, Len(evs)) : Newer(evs, last) = f[Len(evs)]
<1> DEFINE N == Len(evs)
           Bad == {m \in 0 .. N : Filter(evs, last, m) = {}}
<1>0. N \in Nat
  OBVIOUS
<1>1. Bad = {}
  <2> SUFFICES ASSUME Bad # {} PROVE FALSE
    OBVIOUS
  <2>0. Bad \in SUBSET Nat
    BY <1>0
  <2>1. PICK m \in Bad : \A k \in Bad : m <= k
    BY <2>0, FirstOf
  <2>2. CASE m = 0
    <3>1. [n \in 0 .. 0 |-> <<>>] \in Filter(evs, last, 0)
      BY DEF Filter, Step
    <3> QED
      BY <2>1, <2>2, <3>1
  <2>3. CASE m # 0
    <3>1. m - 1 \in 0 .. N /\ m - 1 \notin Bad /\ m \in 1 .. N
      BY <2>1, <2>3
    <3>2. PICK f \in Filter(evs, last, m - 1) : TRUE
      BY <3>1
    <3>3. /\ f \in [0 .. m - 1 -> Seq(Event)]
          /\ \A n \in 0 .. m - 1 : f[n] = Step(evs, last, f, n)
      BY <3>2 DEF Filter
    <3> DEFINE v == Step(evs, last, f, m)
               g == [n \in 0 .. m |-> IF n = m THEN v ELSE f[n]]
    <3>4. v \in Seq(Event)
      <4>1. f[m - 1] \in Seq(Event) /\ evs[m] \in Event
        BY <3>1, <3>3
      <4> QED
        BY <3>1, <4>1 DEF Step
    <3>5. g \in [0 .. m -> Seq(Event)]
      BY <3>3, <3>4
    <3>6. \A n \in 0 .. m : g[n] = Step(evs, last, g, n)
      <4> SUFFICES ASSUME NEW n \in 0 .. m PROVE g[n] = Step(evs, last, g, n)
        OBVIOUS
      <4>1. n # 0 => g[n - 1] = f[n - 1]
        BY <3>1
      <4>2. Step(evs, last, g, n) = Step(evs, last, f, n)
        BY <4>1 DEF Step
      <4>3. n # m => f[n] = Step(evs, last, f, n)
        BY <3>1, <3>3
      <4> QED
        BY <4>2, <4>3
    <3>7. g \in Filter(evs, last, m)
      BY <3>5, <3>6 DEF Filter
    <3> QED
      BY <2>1, <3>7
  <2> QED
    BY <2>2, <2>3
<1>2. N \in Nat /\ N \in 0 .. N
  OBVIOUS
<1>3. PICK f \in Filter(evs, last, N) : TRUE
  BY <1>1, <1>2
<1> DEFINE Over(h) == [n \in 0 .. N |-> Step(evs, last, h, n)]
           c == CHOOSE h : h = Over(h)
<1>4. f = Over(f)
  BY <1>3 DEF Filter
<1>5. c = Over(c)
  BY <1>4
<1>6. Newer(evs, last) = c[N]
  BY DEF Newer, Step
<1>7. \A n \in 0 .. N : c[n] = f[n]
  <2> DEFINE Off == {n \in 0 .. N : c[n] # f[n]}
  <2> SUFFICES ASSUME Off # {} PROVE FALSE
    OBVIOUS
  <2>1. PICK n \in Off : \A k \in Off : n <= k
    <3>1. Off \in SUBSET Nat
      BY <1>2
    <3> QED
      BY <3>1, FirstOf
  <2>2. n # 0 => c[n - 1] = f[n - 1]
    BY <2>1
  <2>3. c[n] = Step(evs, last, c, n) /\ f[n] = Step(evs, last, f, n)
    BY <1>4, <1>5, <2>1
  <2>4. Step(evs, last, c, n) = Step(evs, last, f, n)
    BY <2>2 DEF Step
  <2> QED
    BY <2>1, <2>3, <2>4
<1> QED
  BY <1>2, <1>3, <1>6, <1>7

(* Of a buffer without a gap, what is newer than a number it reaches back to *)
(* is its end.                                                               *)
LEMMA NewerIs ==
  ASSUME NEW evs \in Seq(Event), NEW last
  PROVE  /\ Newer(evs, last) \in Seq(Event)
         /\ \A base \in Int :
              last \in Int /\ base <= last /\ (\A k \in 1 .. Len(evs) : evs[k].seq = base + k) =>
                /\ Len(Newer(evs, last)) = IF base + Len(evs) > last THEN base + Len(evs) - last ELSE 0
                /\ \A k \in 1 .. Len(Newer(evs, last)) : Newer(evs, last)[k] = evs[last - base + k]
<1> DEFINE N == Len(evs)
<1>0. N \in Nat
  OBVIOUS
<1>1. PICK f \in Filter(evs, last, N) : Newer(evs, last) = f[N]
  BY FilterIs
<1>2. /\ f \in [0 .. N -> Seq(Event)]
      /\ \A n \in 0 .. N : f[n] = Step(evs, last, f, n)
  BY <1>1 DEF Filter
<1>3. Newer(evs, last) \in Seq(Event)
  BY <1>0, <1>1, <1>2
<1>4. ASSUME NEW base \in Int, last \in Int, base <= last,
             \A k \in 1 .. N : evs[k].seq = base + k
      PROVE  \A n \in 0 .. N :
               /\ Len(f[n]) = IF base + n > last THEN base + n - last ELSE 0
               /\ \A k \in 1 .. Len(f[n]) : f[n][k] = evs[last - base + k]
  <2> DEFINE Fits(n) == /\ Len(f[n]) = IF base + n > last THEN base + n - last ELSE 0
                        /\ \A k \in 1 .. Len(f[n]) : f[n][k] = evs[last - base + k]
             Off == {n \in 0 .. N : ~Fits(n)}
  <2> SUFFICES ASSUME Off # {} PROVE FALSE
    OBVIOUS
  <2>1. PICK n \in Off : \A k \in Off : n <= k
    <3>1. Off \in SUBSET Nat
      BY <1>0
    <3> QED
      BY <3>1, FirstOf
  <2>2. n \in 0 .. N /\ n \in Int /\ ~Fits(n)
    BY <2>1
  <2>3. CASE n = 0
    <3>1. f[n] = <<>>
      BY <1>2, <2>2, <2>3 DEF Step
    <3>2. Len(f[n]) = 0
      BY <3>1
    <3> QED
      BY <1>4, <2>2, <2>3, <3>2
  <2>4. CASE n # 0
    <3>1. n - 1 \in 0 .. N /\ n \in 1 .. N
      BY <1>0, <2>2, <2>4
    <3>2. n - 1 \notin Off
      BY <2>1, <2>2
    <3>3. Fits(n - 1)
      BY <3>1, <3>2
    <3>4. f[n - 1] \in Seq(Event) /\ evs[n] \in Event /\ evs[n].seq = base + n
      <4>1. f[n - 1] \in Seq(Event)
        BY <1>2, <3>1
      <4>2. evs[n] \in Event
        BY <3>1
      <4> QED
        BY <1>4, <3>1, <4>1, <4>2
    <3>5. f[n] = IF base + n > last THEN Append(f[n - 1], evs[n]) ELSE f[n - 1]
      BY <1>2, <2>2, <2>4, <3>4 DEF Step
    <3> HIDE DEF Off
    <3>6. PICK p, e : p = f[n - 1] /\ e = evs[n]
      OBVIOUS
    <3>7. /\ p \in Seq(Event) /\ e \in Event
          /\ Len(p) = IF base + n - 1 > last THEN base + n - 1 - last ELSE 0
          /\ \A k \in 1 .. Len(p) : p[k] = evs[last - base + k]
      BY <1>4, <2>2, <3>3, <3>4, <3>6
    <3>8. CASE base + n > last
      <4>1. f[n] = Append(p, e) /\ Len(p) = base + n - 1 - last /\ last - base + Len(p) + 1 = n
        <5>1. f[n] = Append(p, e)
          BY <3>5, <3>6, <3>8
        <5>2. Len(p) = base + n - 1 - last
          BY <1>4, <2>2, <3>7, <3>8
        <5> QED
          BY <1>4, <2>2, <5>1, <5>2
      <4>2. Len(f[n]) = base + n - last
        BY <1>4, <2>2, <3>7, <4>1
      <4>3. \A k \in 1 .. Len(f[n]) : f[n][k] = evs[last - base + k]
        <5> TAKE k \in 1 .. Len(f[n])
        <5>1. CASE k = Len(p) + 1
          <6>1. f[n][k] = e
            BY <3>7, <4>1, <5>1
          <6>2. last - base + k = n
            BY <1>4, <2>2, <4>1, <5>1
          <6> QED
            BY <3>6, <6>1, <6>2
        <5>2. CASE k # Len(p) + 1
          <6>1. k \in 1 .. Len(p)
            BY <1>4, <2>2, <4>1, <4>2, <5>2
          <6>2. f[n][k] = p[k]
            BY <3>7, <4>1, <6>1
          <6> QED
            BY <3>7, <6>1, <6>2
        <5> QED
          BY <5>1, <5>2
      <4> QED
        BY <2>2, <3>8, <4>2, <4>3
    <3>9. CASE ~(base + n > last)
      <4>1. f[n] = p /\ Len(p) = 0
        <5>1. f[n] = p
          BY <3>5, <3>6, <3>9
        <5>2. Len(p) = 0
          BY <1>4, <2>2, <3>7, <3>9
        <5> QED
          BY <5>1, <5>2
      <4> QED
        BY <2>2, <3>7, <3>9, <4>1
    <3> QED
      BY <3>8, <3>9
  <2> QED
    BY <2>3, <2>4
<1>5. PICK g : g = Newer(evs, last)
  OBVIOUS
<1>6. ASSUME NEW base \in Int, last \in Int, base <= last,
             \A k \in 1 .. Len(evs) : evs[k].seq = base + k
      PROVE  /\ Len(g) = IF base + N > last THEN base + N - last ELSE 0
             /\ \A k \in 1 .. Len(g) : g[k] = evs[last - base + k]
  <2>1. g = f[N] /\ N \in 0 .. N
    BY <1>0, <1>1, <1>5
  <2>2. \A n \in 0 .. N :
               /\ Len(f[n]) = IF base + n > last THEN base + n - last ELSE 0
               /\ \A k \in 1 .. Len(f[n]) : f[n][k] = evs[last - base + k]
    BY <1>4, <1>6
  <2> QED
    BY <2>1, <2>2
<1> QED
  BY <1>3, <1>5, <1>6
-------------------------------------------------------------------------------
(* The types of the stream and of the client. *)

StreamTypes ==
  /\ {buffer, queue, wire} \subseteq Seq(Event) /\ Len(buffer) <= BufferCap
  /\ view \in Boards /\ seen \in Nat /\ minLive \in Nat
  /\ {lagged, asked, opened} \subseteq BOOLEAN /\ conn \in {"off", "open", "live"}
  /\ loads \subseteq [items: Boards, seq: Nat \cup {Unnumbered}]
  /\ restarts \in 0 .. smix.crashes /\ (up = "down" => restarts < smix.crashes)

LEMMA EventIs ==
  ASSUME SaveTypes, NEW w \in Writers
  PROVE  /\ EventOf(w) \in Event /\ EventOf(w).seq = job[w].seq /\ EventOf(w).type # "reset"
         /\ Reset(seq) \in Event /\ Reset(seq).seq = seq /\ Reset(seq).type = "reset"
<1>1. job[w] \in Work
  BY DEF SaveTypes, Threads
<1>2. EventOf(w) \in Event /\ EventOf(w).seq = job[w].seq /\ EventOf(w).type # "reset"
  BY <1>1 DEF EventOf, Event, Work
<1>3. NoItem \in Items /\ 0 \in 0 .. Gone /\ seq \in Nat
  BY RestWork, SyncAssumption DEF SaveTypes, Gone
<1>4. Reset(seq) \in Event /\ Reset(seq).seq = seq /\ Reset(seq).type = "reset"
  BY <1>3 DEF Reset, Event
<1> QED
  BY <1>2, <1>4

(* One in, and one out where there is no room: of a buffer or a channel. *)
LEMMA PushedIs ==
  ASSUME NEW s \in Seq(Event), NEW e \in Event, NEW cap \in Nat \ {0},
         NEW t, t = Append(IF Len(s) >= cap THEN Tail(s) ELSE s, e)
  PROVE  /\ t \in Seq(Event)
         /\ Len(t) = IF Len(s) >= cap THEN Len(s) ELSE Len(s) + 1
         /\ \A k \in 1 .. Len(t) : t[k] = IF k = Len(t) THEN e
                                          ELSE IF Len(s) >= cap THEN s[k + 1] ELSE s[k]
<1>1. Len(s) \in Nat
  OBVIOUS
<1>2. CASE Len(s) >= cap
  <2>1. /\ Tail(s) \in Seq(Event) /\ Len(Tail(s)) = Len(s) - 1
        /\ \A k \in 1 .. Len(s) - 1 : Tail(s)[k] = s[k + 1]
    <3>1. s # <<>>
      BY <1>1, <1>2
    <3> QED
      BY <3>1
  <2>2. PICK r : r = Tail(s)
    OBVIOUS
  <2>3. t = Append(r, e) /\ r \in Seq(Event) /\ Len(r) = Len(s) - 1
    BY <1>2, <2>1, <2>2
  <2>4. t \in Seq(Event) /\ Len(t) = Len(s) /\ t[Len(t)] = e
    BY <1>1, <2>3
  <2>5. \A k \in 1 .. Len(t) : k # Len(t) => t[k] = r[k] /\ k \in 1 .. Len(s) - 1
    BY <1>1, <2>3, <2>4
  <2> QED
    BY <1>2, <2>1, <2>2, <2>4, <2>5
<1>3. CASE ~(Len(s) >= cap)
  <2>1. t = Append(s, e)
    BY <1>3
  <2> QED
    BY <1>1, <1>3, <2>1
<1> QED
  BY <1>2, <1>3

LEMMA CatchUpType ==
  ASSUME SaveTypes, StreamTypes, NEW last \in Nat
  PROVE  CatchUp(last) \in Seq(Event)
<1>1. NoItem \in Items /\ 0 \in 0 .. Gone /\ seq \in Nat
  BY RestWork, SyncAssumption DEF SaveTypes, Gone
<1>2. Reset(seq) \in Event
  BY <1>1 DEF Reset, Event
<1>3. buffer \in Seq(Event)
  BY DEF StreamTypes
<1>4. Newer(buffer, last) \in Seq(Event)
  BY <1>3, NewerIs
<1>5. <<Reset(seq)>> \in Seq(Event) /\ <<>> \in Seq(Event)
  BY <1>2
<1> QED
  BY <1>4, <1>5 DEF CatchUp

LEMMA TakeType ==
  ASSUME StreamTypes, NEW ev \in Event, Take(ev)
  PROVE  seen' \in Nat /\ view' \in Boards /\ asked' \in BOOLEAN
<1>1. ev.seq \in Nat /\ ev.item \in Items /\ ev.val \in 0 .. Gone
  BY DEF Event
<1>2. [view EXCEPT ![ev.item] = ev.val] \in Boards
  BY <1>1 DEF StreamTypes, Boards
<1>3. asked \in BOOLEAN /\ seen \in Nat /\ view \in Boards
  BY DEF StreamTypes
<1>4. asked' \in BOOLEAN
  BY <1>3 DEF Take
<1> QED
  BY <1>1, <1>2, <1>3, <1>4 DEF Take

LEMMA StreamInit == SyncInit(SyncMix) => StreamTypes
<1> SUFFICES ASSUME SyncInit(SyncMix) PROVE StreamTypes
  OBVIOUS
<1>1. buffer = <<>> /\ queue = <<>> /\ wire = <<>> /\ loads = {} /\ restarts = 0 /\ smix \in SyncMix
  BY SyncAssumption DEF SyncInit
<1>2. <<>> \in Seq(Event) /\ Len(<<>>) = 0 /\ 0 <= BufferCap
  BY SyncAssumption
<1>3. restarts \in 0 .. smix.crashes
  BY <1>1 DEF SyncMix
<1> QED
  BY <1>1, <1>2, <1>3, RestWork DEF SyncInit, StreamTypes

LEMMA StreamNext == SaveTypes /\ StreamTypes /\ [SyncNext]_syncVars => StreamTypes'
<1> SUFFICES ASSUME SaveTypes, StreamTypes, [SyncNext]_syncVars PROVE StreamTypes'
  OBVIOUS
<1>0. /\ buffer \in Seq(Event) /\ queue \in Seq(Event) /\ wire \in Seq(Event)
      /\ seq \in Nat /\ board \in Boards /\ smix \in SyncMix
      /\ BufferCap \in Nat \ {0} /\ ChannelCap \in Nat \ {0}
  BY SyncAssumption DEF StreamTypes, SaveTypes
<1>e. <<>> \in Seq(Event)
  OBVIOUS
<1>1. CASE UNCHANGED syncVars
  BY <1>1 DEF StreamTypes, syncVars, server, stream, client
<1>2. ASSUME NEW w \in Writers, NEW i \in Items, Set(w, i) \/ Delete(w, i)
      PROVE  StreamTypes'
  BY <1>2 DEF Set, Delete, StreamTypes, stream, client
<1>3. ASSUME NEW w \in Writers, Number(w) \/ Mark(w)
      PROVE  StreamTypes'
  BY <1>3 DEF Number, Mark, StreamTypes, stream, client
<1>4. ASSUME NEW w \in Writers, Push(w)
      PROVE  StreamTypes'
  <2>1. EventOf(w) \in Event
    BY EventIs
  <2>2. buffer' = Append(IF Len(buffer) >= BufferCap THEN Tail(buffer) ELSE buffer, EventOf(w))
    BY <1>4 DEF Push, Kept
  <2>3. /\ buffer' \in Seq(Event)
        /\ Len(buffer') = IF Len(buffer) >= BufferCap THEN Len(buffer) ELSE Len(buffer) + 1
    BY <1>0, <2>1, <2>2, PushedIs
  <2>4. Len(buffer') <= BufferCap
    <3>1. Len(buffer) <= BufferCap /\ Len(buffer) \in Nat
      BY <1>0 DEF StreamTypes
    <3> QED
      BY <1>0, <2>3, <3>1
  <2> QED
    BY <1>4, <2>3, <2>4 DEF Push, StreamTypes, stream, client
<1>5. ASSUME NEW w \in Writers, Send(w)
      PROVE  StreamTypes'
  <2>1. EventOf(w) \in Event
    BY EventIs
  <2>2. queue' \in Seq(Event) /\ lagged' \in BOOLEAN
    <3>1. CASE conn = "off"
      BY <1>0, <1>5, <3>1 DEF Send, StreamTypes
    <3>2. CASE conn # "off"
      <4>1. /\ queue' = Append(IF Len(queue) >= ChannelCap THEN Tail(queue) ELSE queue, EventOf(w))
            /\ lagged' = (lagged \/ Len(queue) >= ChannelCap)
        BY <1>5, <3>2 DEF Send
      <4> QED
        BY <1>0, <2>1, <4>1, PushedIs
    <3> QED
      BY <3>1, <3>2
  <2> QED
    BY <1>5, <2>2 DEF Send, StreamTypes, client
<1>6. ASSUME NEW t \in Threads, Flush(t)
      PROVE  StreamTypes'
  BY <1>6 DEF Flush, Swap, Clone, Save, SaveFails, StreamTypes, stream, client
<1>7. CASE Tick \/ Interrupt \/ LastFlush
  BY <1>7 DEF Tick, Interrupt, LastFlush, StreamTypes, stream, client
<1>8. CASE Exit \/ Crash
  <2>1. /\ conn' = "off" /\ queue' = <<>> /\ wire' = <<>> /\ lagged' = FALSE /\ minLive' = 0
        /\ UNCHANGED <<opened, buffer, view, seen, asked, restarts, smix>>
        /\ loads' = loads \/ loads' = {}
        /\ up' = "down" => restarts < smix.crashes
    BY <1>8 DEF Exit, Crash, Hangup, client
  <2> QED
    BY <1>0, <1>e, <2>1 DEF StreamTypes
<1>9. CASE Restart
  <2>1. restarts' \in 0 .. smix'.crashes
    <3>1. smix.crashes \in Nat /\ restarts \in 0 .. smix.crashes /\ restarts < smix.crashes
      BY <1>0, <1>9 DEF Restart, StreamTypes, SyncMix
    <3>2. restarts' = restarts + 1 /\ smix' = smix
      BY <1>9 DEF Restart
    <3> QED
      BY <3>1, <3>2
  <2>2. buffer' = <<>> /\ Len(buffer') <= BufferCap /\ up' = "run"
    BY <1>0, <1>9 DEF Restart
  <2> QED
    BY <1>e, <1>9, <2>1, <2>2 DEF Restart, StreamTypes, stream, client
<1>10. CASE Open
  <2>1. minLive' \in Nat /\ asked' \in BOOLEAN
    BY <1>10 DEF Open, StreamTypes
  <2> QED
    BY <1>10, <2>1 DEF Open, StreamTypes, server
<1>11. CASE Subscribe
  <2>1. minLive \in Nat
    BY DEF StreamTypes
  <2>2. PICK m : m = IF minLive > 0 THEN CatchUp(minLive) ELSE <<>>
    OBVIOUS
  <2>3. m \in Seq(Event) /\ wire' = m /\ minLive' = IF m = <<>> THEN minLive ELSE Last(m).seq
    BY <1>e, <1>11, <2>1, <2>2, CatchUpType DEF Subscribe
  <2>4. m # <<>> => Last(m) \in Event
    BY <2>3 DEF Last
  <2>5. minLive' \in Nat
    BY <2>1, <2>3, <2>4 DEF Event
  <2> QED
    BY <1>11, <2>3, <2>5 DEF Subscribe, StreamTypes, server, client
<1>12. CASE Drop
  BY <1>e, <1>12 DEF Drop, Hangup, StreamTypes, server, client
<1>13. CASE HearMissed
  <2>1. Head(wire) \in Event /\ Tail(wire) \in Seq(Event) /\ wire' = Tail(wire) /\ Take(Head(wire))
    BY <1>0, <1>13 DEF HearMissed
  <2>2. seen' \in Nat /\ view' \in Boards /\ asked' \in BOOLEAN
    BY <2>1, TakeType
  <2> QED
    BY <1>13, <2>1, <2>2 DEF HearMissed, StreamTypes, server
<1>14. CASE HearLag
  <2>1. Reset(seq) \in Event
    <3>1. NoItem \in Items /\ 0 \in 0 .. Gone
      BY RestWork, SyncAssumption DEF Gone
    <3> QED
      BY <1>0, <3>1 DEF Reset, Event
  <2>2. seen' \in Nat /\ view' \in Boards /\ asked' \in BOOLEAN
    BY <1>14, <2>1, TakeType DEF HearLag, LagReset
  <2> QED
    BY <1>14, <2>2 DEF HearLag, StreamTypes, server
<1>15. CASE HearLive
  <2>1. Head(queue) \in Event /\ Tail(queue) \in Seq(Event) /\ queue' = Tail(queue)
    BY <1>0, <1>15 DEF HearLive
  <2>2. seen' \in Nat /\ view' \in Boards /\ asked' \in BOOLEAN
    BY <1>15, <2>1, TakeType DEF HearLive, StreamTypes
  <2> QED
    BY <1>15, <2>1, <2>2 DEF HearLive, StreamTypes, server
<1>16. CASE Poll
  BY <1>16 DEF Poll, StreamTypes, server, stream
<1>17. CASE LoadRead
  <2>1. [items |-> board, seq |-> Unnumbered] \in [items: Boards, seq: Nat \cup {Unnumbered}]
    BY <1>0
  <2> QED
    BY <1>17, <2>1 DEF LoadRead, StreamTypes, server, stream
<1>18. ASSUME NEW l \in loads, LoadNumber(l)
      PROVE  StreamTypes'
  <2>1. l \in [items: Boards, seq: Nat \cup {Unnumbered}]
    BY DEF StreamTypes
  <2>2. [l EXCEPT !.seq = seq] \in [items: Boards, seq: Nat \cup {Unnumbered}]
    BY <1>0, <2>1
  <2> QED
    BY <1>18, <2>2 DEF LoadNumber, StreamTypes, server, stream
<1>19. ASSUME NEW l \in loads, LoadLands(l)
      PROVE  StreamTypes'
  <2>1. l \in [items: Boards, seq: Nat \cup {Unnumbered}] /\ l.seq # Unnumbered
    BY <1>19 DEF StreamTypes, LoadLands
  <2>2. l.items \in Boards /\ l.seq \in Nat
    BY <2>1
  <2>3. view' \in Boards /\ seen' \in Nat
    BY <1>19, <2>2 DEF LoadLands, StreamTypes
  <2> QED
    BY <1>19, <2>3 DEF LoadLands, StreamTypes, server, stream
<1> QED
  BY <1>1, <1>2, <1>3, <1>4, <1>5, <1>6, <1>7, <1>8, <1>9, <1>10, <1>11, <1>12, <1>13, <1>14, <1>15,
     <1>16, <1>17, <1>18, <1>19
  DEF SyncNext, Verbs, Hear, Load

LEMMA SyncHolds == SyncSafe => [](SaveTypes /\ StreamTypes)
<1>1. SyncInit(SyncMix) => SaveTypes /\ StreamTypes
  BY TypesInit, StreamInit
<1>2. SaveTypes /\ StreamTypes /\ [SyncNext]_syncVars => (SaveTypes /\ StreamTypes)'
  BY TypesNext, StreamNext
<1> QED
  BY <1>1, <1>2, PTL DEF SyncSafe

LEMMA TypesSafe == SyncSafe => []SyncTypeOK
<1>1. SaveTypes /\ StreamTypes => SyncTypeOK
  BY DEF SaveTypes, StreamTypes, SyncTypeOK
<1> QED
  BY <1>1, SyncHolds, PTL

(* Board, database, stream and client keep their types, and the buffer its    *)
(* bound, whatever is filtered out of it (catch_up and emit of src/store.rs).  *)
THEOREM SyncTypesHold == SyncSpec => []SyncTypeOK
  BY SyncIsSafe, TypesSafe

-------------------------------------------------------------------------------
(* One thread alone changes the board, and nothing crashes: the buffer, the    *)
(* receiver and what was sent on subscribing are each a run of numbers without *)
(* a gap, and where one ends the next begins.                                  *)

Lone == Cardinality(smix.writers) = 1 /\ smix.crashes = 0
Sole == CHOOSE w \in smix.writers : TRUE

(* The last number in the buffer, and in the channel. *)
Pushed == IF job[Sole].pc = "push" THEN seq - 1 ELSE seq
Sent == IF job[Sole].pc \in {"push", "send"} THEN seq - 1 ELSE seq

(* Events that are numbered up to top without a gap. *)
Gapless(evs, top) == \A k \in 1 .. Len(evs) : evs[k].type # "reset" /\ evs[k].seq = top - Len(evs) + k

OneWriter == /\ \A w \in Writers \ {Sole} : Idle(w)
             /\ job[Sole].pc \in {"push", "send"} => job[Sole].seq = seq /\ seq > 0

Known == seen <= seq /\ \A l \in loads : l.seq <= seq

InOrder == Gapless(buffer, Pushed) /\ Gapless(queue, Sent)

(* What the client has not heard yet begins right behind what it has seen, or *)
(* with a reset, or the receiver lags and a reset is due.                     *)
Joined ==
  /\ seen > 0 /\ minLive <= seq
  /\ wire = <<>> => minLive <= seen /\ (~lagged => Sent - Len(queue) <= seen)
  /\ wire # <<>> => /\ ~lagged => Sent - Len(queue) <= minLive
                    /\ \/ Len(wire) = 1 /\ wire[1].type = "reset" /\ wire[1].seq = minLive
                       \/ Gapless(wire, minLive) /\ minLive - Len(wire) <= seen

Attached ==
  /\ conn = "off" => queue = <<>> /\ ~lagged /\ minLive = 0
  /\ conn = "open" => minLive <= seen
  /\ conn # "live" \/ minLive = 0 => wire = <<>>
  /\ conn = "live" /\ minLive > 0 => Joined

GapInv == Lone => OneWriter /\ Known /\ InOrder /\ Attached

(* A snapshot lands that is so much older than what the stream has shown that  *)
(* the client takes the numbers for a new server's.                            *)
FarBehind == \E l \in loads : LoadLands(l) /\ Older(l) /\ conn # "off" /\ ~Outrun(l)

LEMMA LoneIs ==
  ASSUME SaveTypes, StreamTypes, Lone
  PROVE  /\ smix.writers = {Sole} /\ Sole \in Writers /\ Sole \in Threads
         /\ up # "down" /\ ~(restarts < smix.crashes)
<1>1. smix.writers \subseteq Writers /\ smix.crashes \in Nat
  BY DEF SaveTypes, SyncMix
<1>2. IsFiniteSet(smix.writers)
  BY <1>1, SyncAssumption, FS_Subset
<1>3. PICK s : smix.writers = {s}
  BY <1>2, FS_Singleton DEF Lone
<1>4. Sole = s
  BY <1>3 DEF Sole
<1>5. ~(restarts < smix.crashes)
  BY <1>1 DEF Lone, StreamTypes
<1> QED
  BY <1>1, <1>3, <1>4, <1>5 DEF StreamTypes, Threads

LEMMA MixStays == [SyncNext]_syncVars => smix' = smix /\ (Lone' <=> Lone) /\ Sole' = Sole
<1> SUFFICES ASSUME [SyncNext]_syncVars PROVE smix' = smix
  BY DEF Lone, Sole
<1> QED
  BY OutsideFrame DEF SyncNext, Outside, Verbs, Flush, Set, Delete, Number, Push, Send, Mark, Swap,
                      Clone, Save, SaveFails, Tick, Interrupt, LastFlush, Exit, Crash, Restart

LEMMA GapStart == SyncInit(SyncMix) => GapInv
<1> SUFFICES ASSUME SyncInit(SyncMix), Lone PROVE OneWriter /\ Known /\ InOrder /\ Attached
  BY DEF GapInv
<1>1. SaveTypes /\ StreamTypes
  BY TypesInit, StreamInit
<1>2. \A t \in Threads : job[t] = Rest /\ job[t].pc = "idle"
  BY RestWork DEF SyncInit
<1>3. Sole \in Threads /\ Writers \subseteq Threads
  BY <1>1, LoneIs DEF Threads
<1>4. OneWriter
  BY <1>2, <1>3 DEF OneWriter, Idle
<1>5. buffer = <<>> /\ queue = <<>> /\ wire = <<>>
  BY DEF SyncInit
<1>6. InOrder
  BY <1>5 DEF InOrder, Gapless
<1>7. Known /\ Attached
  BY <1>5 DEF SyncInit, Known, Attached
<1> QED
  BY <1>4, <1>6, <1>7

(* What the writer's step, or a flush, is to the stream. *)
Unheard == /\ UNCHANGED <<buffer, stream, client>> /\ seq' >= seq
           /\ Pushed' = Pushed /\ Sent' = Sent
PushStep == /\ UNCHANGED <<seq, stream, client>>
            /\ buffer' = Append(IF Len(buffer) >= BufferCap THEN Tail(buffer) ELSE buffer, EventOf(Sole))
            /\ EventOf(Sole).seq = seq /\ Pushed = seq - 1 /\ Pushed' = seq /\ Sent' = Sent
SendStep == /\ UNCHANGED <<seq, buffer, conn, opened, wire, minLive, client>>
            /\ IF conn = "off" THEN UNCHANGED <<queue, lagged>>
               ELSE /\ queue' = Append(IF Len(queue) >= ChannelCap THEN Tail(queue) ELSE queue, EventOf(Sole))
                    /\ lagged' = (lagged \/ Len(queue) >= ChannelCap)
            /\ EventOf(Sole).seq = seq /\ Sent = seq - 1 /\ Sent' = seq /\ Pushed' = Pushed

(* A step that leaves the writer where the stream does not see it. *)
LEMMA UnheardIs ==
  ASSUME SaveTypes, Lone, OneWriter, Sole \in Writers, smix' = smix,
         UNCHANGED <<seq, buffer, stream, client>>,
         \A w \in Writers \ {Sole} : Idle(w)',
         \/ job'[Sole] = job[Sole]
         \/ job'[Sole].pc \notin {"push", "send"} /\ job[Sole].pc \notin {"push", "send"}
  PROVE  OneWriter' /\ Unheard
<1>1. Sole' = Sole
  BY DEF Sole
<1>2. seq \in Nat /\ seq' = seq /\ seq' >= seq
  BY DEF SaveTypes
<1>3. Pushed' = Pushed /\ Sent' = Sent
  BY <1>1, <1>2 DEF Pushed, Sent
<1>4. OneWriter'
  BY <1>1, <1>2 DEF OneWriter
<1> QED
  BY <1>2, <1>3, <1>4 DEF Unheard

LEMMA WriterStep ==
  ASSUME SaveTypes, StreamTypes, Lone, OneWriter, smix' = smix, NEW w \in Writers,
         \/ \E i \in Items : Set(w, i) \/ Delete(w, i)
         \/ Number(w) \/ Push(w) \/ Send(w) \/ Mark(w)
  PROVE  OneWriter' /\ (Unheard \/ PushStep \/ SendStep)
<1>0. /\ smix.writers = {Sole} /\ Sole \in Writers /\ Sole \in Threads /\ Writers \subseteq Threads
      /\ job \in [Threads -> Work] /\ seq \in Nat
  BY LoneIs DEF SaveTypes, Threads
<1>1. w = Sole
  <2>1. CASE \E i \in Items : Set(w, i) \/ Delete(w, i)
    BY <1>0, <2>1 DEF Set, Delete
  <2>2. CASE Number(w) \/ Push(w) \/ Send(w) \/ Mark(w)
    <3>1. job[w].pc # "idle"
      BY <2>2 DEF Number, Push, Send, Mark, In
    <3> QED
      BY <3>1 DEF OneWriter, Idle
  <2> QED
    BY <2>1, <2>2
<1>2. Sole' = Sole
  BY DEF Sole
<1>3. job[w] \in Work
  BY <1>0
<1>4. ASSUME NEW i \in Items, Set(w, i) \/ Delete(w, i)
      PROVE  OneWriter' /\ Unheard
  <2>1. \E v, n, x : job' = [job EXCEPT ![w] = [Rest EXCEPT !.verb = v, !.pc = n, !.item = i, !.val = x]]
                     /\ n \in {"number", "mark"}
    BY <1>4 DEF Set, Delete
  <2>2. job'[w].pc \in {"number", "mark"} /\ OthersStay(w)
    BY <1>0, <1>1, <2>1 DEF OthersStay, Rest
  <2>3. job[w].pc = "idle" /\ UNCHANGED <<seq, buffer, stream, client>>
    BY <1>4 DEF Set, Delete, Idle
  <2>4. \A v \in Writers \ {Sole} : Idle(v)'
    BY <1>0, <1>1, <2>2 DEF OneWriter, Idle, OthersStay
  <2> QED
    BY <1>0, <1>1, <2>2, <2>3, <2>4, UnheardIs
<1>5. CASE Number(w)
  <2>1. /\ job'[w].pc = "push" /\ job'[w].seq = seq + 1 /\ OthersStay(w)
        /\ job[w].pc = "number" /\ seq' = seq + 1 /\ UNCHANGED <<buffer, stream, client>>
    BY <1>0, <1>1, <1>3, <1>5 DEF Number, OthersStay, Work, In
  <2>2. Pushed' = Pushed /\ Sent' = Sent /\ seq' >= seq
    BY <1>0, <1>1, <1>2, <2>1 DEF Pushed, Sent
  <2>3. OneWriter'
    BY <1>0, <1>1, <1>2, <2>1 DEF OneWriter, Idle, OthersStay
  <2> QED
    BY <2>1, <2>2, <2>3 DEF Unheard
<1>6. CASE Push(w)
  <2>1. /\ job'[w].pc = "send" /\ job'[w].seq = job[w].seq /\ OthersStay(w)
        /\ job[w].pc = "push" /\ UNCHANGED <<seq, stream, client>>
        /\ buffer' = Append(IF Len(buffer) >= BufferCap THEN Tail(buffer) ELSE buffer, EventOf(Sole))
    <3>1. job' = [job EXCEPT ![w].pc = "send"]
      BY <1>6 DEF Push, To
    <3>2. job'[w].pc = "send" /\ job'[w].seq = job[w].seq /\ OthersStay(w)
      BY <1>0, <1>1, <1>3, <3>1 DEF OthersStay, Work
    <3> QED
      BY <1>1, <1>6, <3>2 DEF Push, In, Kept
  <2>2. EventOf(Sole).seq = seq
    BY <1>1, <2>1, EventIs DEF OneWriter
  <2>3. Pushed = seq - 1 /\ Pushed' = seq /\ Sent' = Sent
    BY <1>0, <1>1, <1>2, <2>1 DEF Pushed, Sent
  <2>4. OneWriter'
    BY <1>0, <1>1, <1>2, <2>1 DEF OneWriter, Idle, OthersStay
  <2> QED
    BY <2>1, <2>2, <2>3, <2>4 DEF PushStep
<1>7. CASE Send(w)
  <2>1. job'[w].pc \in {"mark", "idle"} /\ OthersStay(w) /\ job[w].pc = "send"
    BY <1>0, <1>1, <1>7, ToWork, DoneWork, RestWork DEF Send, OthersStay, In
  <2>2. EventOf(Sole).seq = seq
    BY <1>1, <2>1, EventIs DEF OneWriter
  <2>3. seq' = seq
    BY <1>7 DEF Send
  <2>4. Pushed' = Pushed /\ Sent = seq - 1 /\ Sent' = seq
    BY <1>0, <1>1, <1>2, <2>1, <2>3 DEF Pushed, Sent
  <2>5. OneWriter'
    BY <1>0, <1>1, <1>2, <2>1, <2>3 DEF OneWriter, Idle, OthersStay
  <2>6. /\ UNCHANGED <<seq, buffer, conn, opened, wire, minLive, client>>
        /\ IF conn = "off" THEN UNCHANGED <<queue, lagged>>
           ELSE /\ queue' = Append(IF Len(queue) >= ChannelCap THEN Tail(queue) ELSE queue, EventOf(Sole))
                /\ lagged' = (lagged \/ Len(queue) >= ChannelCap)
    BY <1>1, <1>7 DEF Send
  <2> QED
    BY <2>2, <2>4, <2>5, <2>6 DEF SendStep
<1>8. CASE Mark(w)
  <2>1. job'[w].pc \in {"swap", "idle"} /\ OthersStay(w) /\ job[w].pc = "mark"
    BY <1>0, <1>1, <1>8, ToWork, DoneWork, RestWork DEF Mark, OthersStay, In
  <2>2. UNCHANGED <<seq, buffer, stream, client>>
    BY <1>8 DEF Mark
  <2>3. \A v \in Writers \ {Sole} : Idle(v)'
    BY <1>0, <1>1, <2>1 DEF OneWriter, Idle, OthersStay
  <2> QED
    BY <1>0, <1>1, <2>1, <2>2, <2>3, UnheardIs
<1> QED
  BY <1>4, <1>5, <1>6, <1>7, <1>8

LEMMA FlushStep ==
  ASSUME SaveTypes, StreamTypes, Lone, OneWriter, smix' = smix, NEW t \in Threads,
         \/ Flush(t)
         \/ t \in {"tick", "main"} /\ (Tick \/ Interrupt \/ LastFlush)
         \/ UNCHANGED syncVars
  PROVE  OneWriter' /\ Unheard
<1>0. /\ Sole \in Writers /\ Sole \in Threads /\ Writers \subseteq Threads
      /\ job \in [Threads -> Work] /\ "tick" \notin Writers /\ "main" \notin Writers
  BY LoneIs, SyncAssumption DEF SaveTypes, Threads
<1>1. UNCHANGED <<seq, buffer, stream, client>>
  BY DEF Flush, Swap, Clone, Save, SaveFails, Tick, LastFlush, Interrupt, syncVars, server
<1>2. CASE UNCHANGED syncVars
  <2>1. job' = job
    BY <1>2 DEF syncVars, server
  <2> QED
    BY <1>0, <1>1, <2>1, UnheardIs DEF OneWriter, Idle
<1>3. CASE t \in {"tick", "main"} /\ (Tick \/ Interrupt \/ LastFlush)
  <2>1. \A w \in Writers : job'[w] = job[w]
    BY <1>0, <1>3 DEF Tick, Interrupt, LastFlush
  <2> QED
    BY <1>0, <1>1, <2>1, UnheardIs DEF OneWriter, Idle
<1>4. CASE Flush(t)
  <2>1. job[t].pc \in {"swap", "clone", "save"}
    BY <1>4 DEF Flush, Swap, Clone, Save, SaveFails, In
  <2>2. OthersStay(t) /\ job'[t].pc \in {"clone", "save", "idle", "number"}
    <3>1. CASE To(t, "clone") \/ Flushed(t)
      BY <1>0, <3>1, ToWork, FlushedWork DEF OthersStay, Ended
    <3>2. CASE Clone(t)
      <4>1. job[t] \in Work /\ job' = [job EXCEPT ![t].pc = "save", ![t].snap = board]
        BY <1>0, <3>2 DEF Clone
      <4> QED
        BY <1>0, <4>1 DEF OthersStay, Work
    <3> QED
      BY <1>4, <3>1, <3>2 DEF Flush, Swap, Save, SaveFails
  <2>3. \A w \in Writers \ {Sole} : w # t
    BY <2>1 DEF OneWriter, Idle
  <2>4. \A w \in Writers \ {Sole} : Idle(w)'
    BY <1>0, <2>2, <2>3 DEF OneWriter, Idle, OthersStay
  <2>5. \/ job'[Sole] = job[Sole]
        \/ job'[Sole].pc \notin {"push", "send"} /\ job[Sole].pc \notin {"push", "send"}
    BY <1>0, <2>1, <2>2 DEF OthersStay
  <2> QED
    BY <1>0, <1>1, <2>4, <2>5, UnheardIs
<1> QED
  BY <1>2, <1>3, <1>4
-------------------------------------------------------------------------------
(* Runs of numbers: one in, one out. *)

LEMMA Shift == \A a, b, c \in Int : a - 1 - b + (c + 1) = a - b + c /\ a - 1 - b + c = a - (b + 1) + c
  OBVIOUS

(* t is s with e at its end, and without its head where there was no room. *)
Shifted(s, t, e, full) ==
  /\ Len(t) = IF full THEN Len(s) ELSE Len(s) + 1
  /\ \A k \in 1 .. Len(t) : t[k] = IF k = Len(t) THEN e ELSE IF full THEN s[k + 1] ELSE s[k]

LEMMA GaplessShift ==
  ASSUME NEW s \in Seq(Event), NEW t \in Seq(Event), NEW e \in Event, NEW full \in BOOLEAN, NEW n \in Int,
         Shifted(s, t, e, full), e.type # "reset", e.seq = n, Gapless(s, n - 1)
  PROVE  Gapless(t, n)
<1>0. /\ Len(t) = IF full THEN Len(s) ELSE Len(s) + 1
      /\ \A k \in 1 .. Len(t) : t[k] = IF k = Len(t) THEN e ELSE IF full THEN s[k + 1] ELSE s[k]
  BY DEF Shifted
<1>1. Len(s) \in Nat /\ Len(t) \in Nat
  OBVIOUS
<1>2. ASSUME NEW k \in 1 .. Len(t)
      PROVE  t[k].type # "reset" /\ t[k].seq = n - Len(t) + k
  <2>1. CASE k = Len(t)
    <3>1. t[k] = e /\ n = n - Len(t) + k
      BY <1>0, <1>1, <2>1
    <3> QED
      BY <3>1
  <2>2. CASE k # Len(t) /\ full
    <3>1. t[k] = s[k + 1] /\ k + 1 \in 1 .. Len(s) /\ Len(t) = Len(s)
      BY <1>0, <1>1, <2>2
    <3>2. s[k + 1].type # "reset" /\ s[k + 1].seq = n - 1 - Len(s) + (k + 1)
      BY <3>1 DEF Gapless
    <3>3. n - 1 - Len(s) + (k + 1) = n - Len(t) + k
      <4>1. Len(s) \in Int /\ k \in Int
        BY <1>1
      <4>2. n - 1 - Len(s) + (k + 1) = n - Len(s) + k
        BY <4>1, Shift
      <4> QED
        BY <3>1, <4>2
    <3> QED
      BY <3>1, <3>2, <3>3
  <2>3. CASE k # Len(t) /\ ~full
    <3>1. t[k] = s[k] /\ k \in 1 .. Len(s) /\ Len(t) = Len(s) + 1
      BY <1>0, <1>1, <2>3
    <3>2. s[k].type # "reset" /\ s[k].seq = n - 1 - Len(s) + k
      BY <3>1 DEF Gapless
    <3>3. n - 1 - Len(s) + k = n - Len(t) + k
      <4>1. Len(s) \in Int /\ k \in Int
        BY <1>1
      <4>2. n - 1 - Len(s) + k = n - (Len(s) + 1) + k
        BY <4>1, Shift
      <4> QED
        BY <3>1, <4>2
    <3> QED
      BY <3>1, <3>2, <3>3
  <2> QED
    BY <2>1, <2>2, <2>3
<1> QED
  BY <1>2 DEF Gapless

LEMMA GaplessPush ==
  ASSUME NEW s \in Seq(Event), NEW e \in Event, NEW cap \in Nat \ {0}, NEW n \in Int,
         NEW t, t = Append(IF Len(s) >= cap THEN Tail(s) ELSE s, e),
         e.type # "reset", e.seq = n, Gapless(s, n - 1)
  PROVE  t \in Seq(Event) /\ Gapless(t, n)
<1>1. PICK full \in BOOLEAN : full <=> Len(s) >= cap
  OBVIOUS
<1>2. /\ t \in Seq(Event)
      /\ Len(t) = IF Len(s) >= cap THEN Len(s) ELSE Len(s) + 1
      /\ \A k \in 1 .. Len(t) : t[k] = IF k = Len(t) THEN e
                                       ELSE IF Len(s) >= cap THEN s[k + 1] ELSE s[k]
  BY PushedIs
<1>3. Shifted(s, t, e, full)
  BY <1>1, <1>2 DEF Shifted
<1>4. Gapless(t, n)
  BY <1>2, <1>3, GaplessShift
<1> QED
  BY <1>2, <1>4

LEMMA GaplessTail ==
  ASSUME NEW s \in Seq(Event), s # <<>>, NEW n \in Int, Gapless(s, n)
  PROVE  /\ Head(s) \in Event /\ Head(s).type # "reset" /\ Head(s).seq = n - Len(s) + 1
         /\ Tail(s) \in Seq(Event) /\ Len(Tail(s)) = Len(s) - 1 /\ Gapless(Tail(s), n)
<1>1. /\ Tail(s) \in Seq(Event) /\ Len(Tail(s)) = Len(s) - 1
      /\ \A k \in 1 .. Len(s) - 1 : Tail(s)[k] = s[k + 1]
  OBVIOUS
<1>2. Len(s) \in Nat /\ 1 \in 1 .. Len(s) /\ Head(s) = s[1] /\ s[1] \in Event
  OBVIOUS
<1>3. ASSUME NEW k \in 1 .. Len(Tail(s))
      PROVE  Tail(s)[k].type # "reset" /\ Tail(s)[k].seq = n - Len(Tail(s)) + k
  <2>1. Tail(s)[k] = s[k + 1] /\ k + 1 \in 1 .. Len(s)
    BY <1>1, <1>2
  <2>2. s[k + 1].type # "reset" /\ s[k + 1].seq = n - Len(s) + (k + 1)
    BY <2>1 DEF Gapless
  <2> QED
    BY <1>1, <1>2, <2>1, <2>2
<1>4. Head(s).type # "reset" /\ Head(s).seq = n - Len(s) + 1
  BY <1>2 DEF Gapless
<1> QED
  BY <1>1, <1>2, <1>3, <1>4 DEF Gapless

(* What a client that saw m, or more, is sent when it comes back. *)
LEMMA CaughtUp ==
  ASSUME SaveTypes, StreamTypes, Known, InOrder, NEW m \in Nat, m > 0, m <= seen,
         Pushed \in {seq - 1, seq}
  PROVE  \/ CatchUp(m) = <<>> /\ Pushed <= m
         \/ CatchUp(m) = <<Reset(seq)>>
         \/ /\ CatchUp(m) # <<>> /\ Gapless(CatchUp(m), Pushed) /\ Pushed > m
            /\ Len(CatchUp(m)) = Pushed - m /\ Last(CatchUp(m)).seq = Pushed
<1>1. seq \in Nat /\ seen \in Nat /\ seen <= seq /\ buffer \in Seq(Event) /\ m <= seq
  BY DEF SaveTypes, StreamTypes, Known
<1>2. ~Stale(m)
  BY <1>1 DEF Stale
<1>3. CASE m = seq \/ buffer = <<>> \/ m + 1 < Head(buffer).seq
  <2>1. m = seq => Pushed <= m
    BY <1>1
  <2> QED
    BY <1>2, <1>3, <2>1 DEF CatchUp
<1>4. CASE ~(m = seq \/ buffer = <<>> \/ m + 1 < Head(buffer).seq)
  <2>1. CatchUp(m) = Newer(buffer, m)
    BY <1>2, <1>4 DEF CatchUp
  <2> DEFINE b == Pushed - Len(buffer)
  <2>2. Head(buffer).seq = b + 1 /\ Len(buffer) \in Nat /\ Gapless(buffer, Pushed)
    BY <1>1, <1>4, GaplessTail DEF InOrder
  <2>3. b \in Int /\ b <= m /\ m \in Int
    BY <1>1, <1>4, <2>2
  <2>4. \A k \in 1 .. Len(buffer) : buffer[k].seq = b + k /\ buffer[k].type # "reset"
    BY <1>1, <2>2 DEF Gapless
  <2> HIDE DEF b
  <2>5. PICK g : g = Newer(buffer, m)
    OBVIOUS
  <2>6. /\ g \in Seq(Event)
        /\ Len(g) = IF b + Len(buffer) > m THEN b + Len(buffer) - m ELSE 0
        /\ \A k \in 1 .. Len(g) : g[k] = buffer[m - b + k]
    <3>1. \A k \in 1 .. Len(buffer) : buffer[k].seq = b + k
      BY <2>4
    <3>2. /\ Newer(buffer, m) \in Seq(Event)
          /\ \A base \in Int :
               m \in Int /\ base <= m /\ (\A k \in 1 .. Len(buffer) : buffer[k].seq = base + k) =>
                 /\ Len(Newer(buffer, m)) = IF base + Len(buffer) > m THEN base + Len(buffer) - m ELSE 0
                 /\ \A k \in 1 .. Len(Newer(buffer, m)) : Newer(buffer, m)[k] = buffer[m - base + k]
      BY <1>1, NewerIs, ZenonT(60)
    <3>3. /\ Len(Newer(buffer, m)) = IF b + Len(buffer) > m THEN b + Len(buffer) - m ELSE 0
          /\ \A k \in 1 .. Len(Newer(buffer, m)) : Newer(buffer, m)[k] = buffer[m - b + k]
      BY <2>3, <3>1, <3>2, Zenon
    <3> QED
      BY <2>5, <3>2, <3>3, Zenon
  <2>7. Pushed \in Int /\ b + Len(buffer) = Pushed
    BY <1>1, <2>2 DEF b
  <2>8. CASE Pushed <= m
    <3>1. Len(g) = 0
      BY <1>1, <2>6, <2>7, <2>8
    <3>2. g = <<>>
      BY <2>6, <3>1
    <3> QED
      BY <2>1, <2>5, <2>8, <3>2
  <2>9. CASE Pushed > m
    <3>1. Len(g) = Pushed - m /\ g # <<>> /\ Len(g) \in 1 .. Len(g)
      <4>1. b + Len(buffer) > m /\ Pushed - m \in Nat /\ Pushed - m > 0
        BY <2>7, <2>9
      <4>2. Len(g) = Pushed - m
        BY <2>2, <2>3, <2>6, <2>7, <4>1
      <4>3. g # <<>>
        BY <4>1, <4>2
      <4> QED
        BY <4>1, <4>2, <4>3
    <3>2. ASSUME NEW k \in 1 .. Len(g)
          PROVE  g[k].type # "reset" /\ g[k].seq = Pushed - Len(g) + k
      <4>1. m - b + k \in 1 .. Len(buffer)
        BY <2>2, <2>3, <2>7, <3>1
      <4>2. g[k] = buffer[m - b + k] /\ buffer[m - b + k].type # "reset"
            /\ buffer[m - b + k].seq = b + (m - b + k)
        BY <2>4, <2>6, <4>1
      <4> QED
        BY <2>3, <2>7, <3>1, <4>2
    <3>3. Last(g).seq = Pushed
      <4>1. g[Len(g)].seq = Pushed - Len(g) + Len(g)
        BY <3>1, <3>2
      <4> QED
        BY <2>7, <3>1, <4>1 DEF Last
    <3>4. Gapless(g, Pushed)
      BY <3>2 DEF Gapless
    <3> QED
      BY <2>1, <2>5, <2>9, <3>1, <3>3, <3>4
  <2> QED
    BY <1>1, <2>7, <2>8, <2>9
<1> QED
  BY <1>3, <1>4
-------------------------------------------------------------------------------
(* Step by step. *)

LEMMA PlaceIs ==
  ASSUME SaveTypes
  PROVE  seq \in Nat /\ Pushed \in {seq - 1, seq} /\ Sent \in {seq - 1, seq} /\ Sent <= Pushed
         /\ Pushed \in Int /\ Sent \in Int
<1>1. seq \in Nat
  BY DEF SaveTypes
<1> QED
  BY <1>1 DEF Pushed, Sent

LEMMA UnheardKeeps ==
  ASSUME SaveTypes, SaveTypes', StreamTypes, Known, InOrder, Attached, Unheard
  PROVE  (Known /\ InOrder /\ Attached)'
<1>1. seq \in Nat /\ seq' \in Nat /\ seq' >= seq /\ seen \in Nat /\ minLive \in Nat
  BY DEF SaveTypes, StreamTypes, Unheard
<1>2. /\ UNCHANGED <<buffer, conn, queue, lagged, wire, minLive, seen, loads>>
      /\ Pushed' = Pushed /\ Sent' = Sent
  BY DEF Unheard, stream, client
<1>3. \A l \in loads : l.seq \in Int
  BY DEF StreamTypes, Unnumbered
<1>4. Known'
  BY <1>1, <1>2, <1>3 DEF Known
<1>5. InOrder'
  BY <1>2 DEF InOrder, Gapless
<1>6. Joined => Joined'
  BY <1>1, <1>2 DEF Joined, Gapless
<1> QED
  BY <1>2, <1>4, <1>5, <1>6 DEF Attached

LEMMA PushKeeps ==
  ASSUME SaveTypes, StreamTypes, Sole \in Writers, Known, InOrder, Attached, PushStep
  PROVE  (Known /\ InOrder /\ Attached)'
<1>1. buffer \in Seq(Event) /\ EventOf(Sole) \in Event /\ BufferCap \in Nat \ {0} /\ seq \in Int
      /\ EventOf(Sole).type # "reset"
  BY SyncAssumption, EventIs DEF StreamTypes, SaveTypes
<1>2. Gapless(buffer', seq)
  BY <1>1, GaplessPush DEF PushStep, InOrder
<1>3. /\ UNCHANGED <<conn, queue, lagged, wire, minLive, seen, loads, seq>>
      /\ Pushed' = seq /\ Sent' = Sent
  BY DEF PushStep, stream, client
<1>4. InOrder'
  BY <1>2, <1>3 DEF InOrder, Gapless
<1> QED
  BY <1>3, <1>4 DEF Known, Attached, Joined, Gapless

LEMMA SendKeeps ==
  ASSUME SaveTypes, StreamTypes, Sole \in Writers, Known, InOrder, Attached, SendStep
  PROVE  (Known /\ InOrder /\ Attached)'
<1>1. queue \in Seq(Event) /\ EventOf(Sole) \in Event /\ ChannelCap \in Nat \ {0} /\ seq \in Int
      /\ EventOf(Sole).type # "reset" /\ lagged \in BOOLEAN /\ Len(queue) \in Nat
      /\ seen \in Nat /\ minLive \in Nat
  BY SyncAssumption, EventIs DEF StreamTypes, SaveTypes
<1>2. /\ UNCHANGED <<buffer, conn, wire, minLive, seen, loads, seq>>
      /\ Pushed' = Pushed /\ Sent' = seq /\ Sent = seq - 1 /\ Sent \in Int
  BY <1>1 DEF SendStep, client
<1>3. Known'
  BY <1>2 DEF Known
<1>4. CASE conn = "off"
  <2>1. queue = <<>> /\ UNCHANGED <<queue, lagged>>
    BY <1>4 DEF SendStep, Attached
  <2>2. InOrder'
    BY <1>2, <2>1 DEF InOrder, Gapless
  <2> QED
    BY <1>2, <1>3, <1>4, <2>1, <2>2 DEF Attached
<1>5. CASE conn # "off"
  <2>1. /\ queue' = Append(IF Len(queue) >= ChannelCap THEN Tail(queue) ELSE queue, EventOf(Sole))
        /\ lagged' = (lagged \/ Len(queue) >= ChannelCap) /\ EventOf(Sole).seq = seq
    BY <1>5 DEF SendStep
  <2>0. Gapless(queue, seq - 1)
    BY <1>2 DEF InOrder
  <2>2. /\ queue' \in Seq(Event) /\ Gapless(queue', seq)
        /\ Len(queue') = IF Len(queue) >= ChannelCap THEN Len(queue) ELSE Len(queue) + 1
    <3>1. PICK e, q : e = EventOf(Sole) /\ q = queue'
      OBVIOUS
    <3>2. q = Append(IF Len(queue) >= ChannelCap THEN Tail(queue) ELSE queue, e)
      BY <2>1, <3>1
    <3>3. e \in Event /\ e.type # "reset" /\ e.seq = seq
      BY <1>1, <2>1, <3>1
    <3>4. q \in Seq(Event) /\ Gapless(q, seq)
      BY <1>1, <2>0, <3>2, <3>3, GaplessPush
    <3>5. Len(q) = IF Len(queue) >= ChannelCap THEN Len(queue) ELSE Len(queue) + 1
      BY <1>1, <3>2, <3>3, PushedIs
    <3> QED
      BY <3>1, <3>4, <3>5
  <2>3. ~lagged' => ~lagged /\ Sent' - Len(queue') = Sent - Len(queue)
    <3> SUFFICES ASSUME ~lagged' PROVE ~lagged /\ Sent' - Len(queue') = Sent - Len(queue)
      OBVIOUS
    <3>1. ~lagged /\ ~(Len(queue) >= ChannelCap)
      BY <2>1
    <3>2. Len(queue') = Len(queue) + 1
      BY <2>2, <3>1
    <3>3. seq - (Len(queue) + 1) = seq - 1 - Len(queue)
      BY <1>1
    <3> QED
      BY <1>2, <3>1, <3>2, <3>3
  <2>4. InOrder'
    BY <1>2, <2>2 DEF InOrder, Gapless
  <2>5. Joined => Joined'
    BY <1>2, <2>3 DEF Joined, Gapless
  <2> QED
    BY <1>2, <1>3, <1>5, <2>4, <2>5 DEF Attached
<1> QED
  BY <1>4, <1>5

(* What the client has heard of: an event, or a reset to where the server is. *)
LEMMA TakeIs ==
  ASSUME StreamTypes, NEW ev \in Event, Take(ev)
  PROVE  /\ ev.type = "reset" => seen' = ev.seq /\ view' = view
         /\ ev.type # "reset" => \/ ev.seq <= seen /\ seen' = seen /\ view' = view
                                 \/ seen' = ev.seq /\ (seen > 0 => ev.seq > seen)
         /\ ev.seq \in Nat /\ seen \in Nat
<1>1. ev.seq \in Nat /\ seen \in Nat
  BY DEF Event, StreamTypes
<1> QED
  BY <1>1 DEF Take

LEMMA OpenKeeps ==
  ASSUME SaveTypes, StreamTypes, Known, InOrder, Attached, UNCHANGED smix,
         Open \/ Drop \/ Exit \/ Poll \/ LoadRead
  PROVE  (Known /\ InOrder /\ Attached)'
<1>1. seq \in Nat /\ seen \in Nat /\ minLive \in Nat /\ Sole' = Sole
  BY DEF SaveTypes, StreamTypes, Sole
<1>2. UNCHANGED <<seq, buffer, job, seen>> /\ Pushed' = Pushed /\ Sent' = Sent
  BY <1>1 DEF Open, Drop, Exit, Poll, LoadRead, server, client, Pushed, Sent
<1>3. Known'
  <2>1. \A l \in loads' : l \in loads \/ l.seq = -1
    BY DEF Open, Drop, Exit, Hangup, Poll, LoadRead, client, Unnumbered
  <2>2. \A l \in loads' : l.seq <= seq
    BY <1>1, <2>1 DEF Known
  <2> QED
    BY <1>2, <2>2 DEF Known
<1>4. CASE Open
  <2>1. queue = <<>> /\ UNCHANGED <<queue, lagged, wire>> /\ conn' = "open" /\ minLive' <= seen /\ wire = <<>>
    BY <1>1, <1>4 DEF Open, Attached
  <2>2. InOrder' /\ Attached'
    BY <1>2, <2>1 DEF InOrder, Gapless, Attached
  <2> QED
    BY <1>3, <2>2
<1>5. CASE Drop \/ Exit
  <2>1. queue' = <<>> /\ ~lagged' /\ minLive' = 0 /\ wire' = <<>> /\ conn' = "off"
    BY <1>5 DEF Drop, Exit, Hangup
  <2>2. InOrder' /\ Attached'
    BY <1>2, <2>1 DEF InOrder, Gapless, Attached
  <2> QED
    BY <1>3, <2>2
<1>6. CASE Poll \/ LoadRead
  <2>1. UNCHANGED <<conn, queue, lagged, wire, minLive>>
    BY <1>6 DEF Poll, LoadRead, stream
  <2>2. InOrder' /\ Attached'
    BY <1>2, <2>1 DEF InOrder, Gapless, Attached, Joined
  <2> QED
    BY <1>3, <2>2
<1> QED
  BY <1>4, <1>5, <1>6

LEMMA SubscribeKeeps ==
  ASSUME SaveTypes, StreamTypes, Known, InOrder, Attached, Subscribe, UNCHANGED smix
  PROVE  (Known /\ InOrder /\ Attached)'
<1>1. /\ seq \in Nat /\ seen \in Nat /\ minLive \in Nat /\ queue \in Seq(Event) /\ Sole' = Sole
      /\ seen <= seq
  BY DEF SaveTypes, StreamTypes, Sole, Known
<1>2. /\ UNCHANGED <<seq, buffer, job, seen, loads, queue, lagged>> /\ Pushed' = Pushed /\ Sent' = Sent
      /\ conn = "open" /\ conn' = "live" /\ minLive <= seen
  BY <1>1 DEF Subscribe, server, client, Pushed, Sent, Attached
<1>3. Known' /\ InOrder'
  BY <1>2 DEF Known, InOrder, Gapless
<1>4. PICK m : m = IF minLive > 0 THEN CatchUp(minLive) ELSE <<>>
  OBVIOUS
<1>5. wire' = m /\ minLive' = IF m = <<>> THEN minLive ELSE Last(m).seq
  BY <1>4 DEF Subscribe
<1>6. /\ Pushed \in {seq - 1, seq} /\ Pushed \in Int /\ Sent \in Int /\ Sent <= Pushed
      /\ Len(queue) \in Nat
  BY <1>1, PlaceIs
<1>7. CASE minLive = 0
  <2>1. m = <<>>
    BY <1>1, <1>4, <1>7
  <2>2. wire' = <<>> /\ minLive' = 0
    BY <1>5, <1>7, <2>1
  <2> QED
    BY <1>2, <1>3, <2>2 DEF Attached
<1>8. CASE minLive > 0
  <2>1. m = CatchUp(minLive) /\ seen > 0
    BY <1>1, <1>2, <1>4, <1>8
  <2>2. \/ m = <<>> /\ Pushed <= minLive
        \/ m = <<Reset(seq)>>
        \/ /\ m # <<>> /\ Gapless(m, Pushed) /\ Pushed > minLive
           /\ Len(m) = Pushed - minLive /\ Last(m).seq = Pushed
    BY <1>1, <1>2, <1>6, <1>8, <2>1, CaughtUp
  <2>3. CASE m = <<>> /\ Pushed <= minLive
    <3>1. wire' = <<>> /\ minLive' = minLive
      BY <1>5, <2>3
    <3>2. Sent - Len(queue) <= seen /\ minLive <= seq
      BY <1>1, <1>2, <1>6, <2>3
    <3>3. Joined'
      BY <1>2, <2>1, <3>1, <3>2 DEF Joined
    <3> QED
      BY <1>2, <1>3, <3>1, <3>3 DEF Attached
  <2>4. CASE m = <<Reset(seq)>>
    <3>1. Last(m).seq = seq /\ Len(m) = 1 /\ m # <<>> /\ m[1].type = "reset" /\ m[1].seq = seq
      BY <2>4 DEF Last, Reset
    <3>2. wire' = m /\ minLive' = seq
      BY <1>5, <3>1
    <3>3. Sent - Len(queue) <= seq /\ seq <= seq
      BY <1>1, <1>6
    <3>4. Joined'
      BY <1>2, <2>1, <3>1, <3>2, <3>3 DEF Joined
    <3>5. minLive' # 0
      BY <1>1, <2>1, <3>2
    <3> QED
      BY <1>2, <1>3, <3>4, <3>5 DEF Attached
  <2>5. CASE /\ m # <<>> /\ Gapless(m, Pushed) /\ Pushed > minLive
             /\ Len(m) = Pushed - minLive /\ Last(m).seq = Pushed
    <3>1. wire' = m /\ minLive' = Pushed
      BY <1>5, <2>5
    <3>2. /\ Sent - Len(queue) <= Pushed /\ Pushed <= seq /\ Pushed # 0
          /\ Pushed - Len(m) <= seen
      BY <1>1, <1>2, <1>6, <1>8, <2>5
    <3>3. Gapless(wire, minLive)'
      BY <2>5, <3>1 DEF Gapless
    <3>4. Joined'
      BY <1>2, <2>1, <2>5, <3>1, <3>2, <3>3 DEF Joined
    <3> QED
      BY <1>2, <1>3, <3>1, <3>2, <3>4 DEF Attached
  <2> QED
    BY <2>2, <2>3, <2>4, <2>5
<1> QED
  BY <1>1, <1>7, <1>8

LEMMA HearMissedKeeps ==
  ASSUME SaveTypes, StreamTypes, Known, InOrder, Attached, HearMissed, UNCHANGED smix
  PROVE  /\ (Known /\ InOrder /\ Attached)'
         /\ minLive > 0 /\ (view' = view \/ seen' = seen + 1)
<1>1. /\ seq \in Nat /\ seen \in Nat /\ minLive \in Nat /\ queue \in Seq(Event) /\ wire \in Seq(Event)
      /\ Sole' = Sole /\ seen <= seq /\ Len(queue) \in Nat /\ Len(wire) \in Nat
  BY DEF SaveTypes, StreamTypes, Sole, Known
<1>2. /\ UNCHANGED <<seq, buffer, job, loads, queue, lagged, conn, minLive>>
      /\ Pushed' = Pushed /\ Sent' = Sent /\ Sent \in Int
      /\ conn = "live" /\ wire # <<>> /\ wire' = Tail(wire) /\ Take(Head(wire))
  BY <1>1, PlaceIs DEF HearMissed, server, Pushed, Sent
<1>3. minLive > 0 /\ Joined
  BY <1>1, <1>2 DEF Attached
<1>4. /\ seen > 0 /\ minLive <= seq /\ (~lagged => Sent - Len(queue) <= minLive)
      /\ \/ Len(wire) = 1 /\ wire[1].type = "reset" /\ wire[1].seq = minLive
         \/ Gapless(wire, minLive) /\ minLive - Len(wire) <= seen
  BY <1>2, <1>3 DEF Joined
<1>5. InOrder'
  BY <1>2 DEF InOrder, Gapless
<1>6. Head(wire) \in Event /\ Head(wire) = wire[1]
  BY <1>1, <1>2
<1>7. CASE Len(wire) = 1 /\ wire[1].type = "reset" /\ wire[1].seq = minLive
  <2>1. seen' = minLive /\ view' = view /\ wire' = <<>>
    <3>1. Tail(wire) = <<>>
      <4>1. wire # <<>>
        BY <1>2
      <4>2. PICK r : r = Tail(wire)
        OBVIOUS
      <4>3. r \in Seq(Event) /\ Len(r) = 0
        BY <1>1, <1>7, <4>1, <4>2
      <4> QED
        BY <4>2, <4>3
    <3> QED
      BY <1>2, <1>6, <1>7, <3>1, TakeIs
  <2>2. Known'
    BY <1>2, <1>4, <2>1 DEF Known
  <2>3. Joined'
    BY <1>1, <1>2, <1>3, <1>4, <2>1 DEF Joined
  <2> QED
    BY <1>2, <1>3, <1>5, <2>1, <2>2, <2>3 DEF Attached
<1>8. CASE Gapless(wire, minLive) /\ minLive - Len(wire) <= seen
  <2>1. /\ Head(wire).type # "reset" /\ Head(wire).seq = minLive - Len(wire) + 1
        /\ wire' \in Seq(Event) /\ Len(wire') = Len(wire) - 1 /\ Gapless(wire', minLive)
    BY <1>1, <1>2, <1>8, GaplessTail
  <2>2. \/ Head(wire).seq <= seen /\ seen' = seen /\ view' = view
        \/ seen' = Head(wire).seq /\ Head(wire).seq > seen
    BY <1>2, <1>4, <1>6, <2>1, TakeIs
  <2>3. seen' \in Nat /\ Len(wire) > 0
    <3>1. Head(wire).seq \in Nat
      BY <1>6 DEF Event
    <3> QED
      BY <1>1, <1>2, <2>2, <3>1
  <2>4. view' = view \/ seen' = seen + 1
    BY <1>1, <1>8, <2>1, <2>2
  <2>5. seen' > 0 /\ minLive - Len(wire') <= seen' /\ seen' <= seq
    BY <1>1, <1>4, <1>8, <2>1, <2>2, <2>3
  <2>6. wire' = <<>> => minLive <= seen' /\ (~lagged => Sent - Len(queue) <= seen')
    <3>1. wire' = <<>> => Len(wire') = 0
      OBVIOUS
    <3>2. wire' = <<>> => minLive <= seen'
      <4> SUFFICES ASSUME wire' = <<>> PROVE minLive <= seen'
        OBVIOUS
      <4>1. minLive - 0 <= seen'
        BY <2>5, <3>1
      <4> QED
        BY <1>1, <2>3, <4>1
    <3> QED
      BY <1>1, <1>2, <1>4, <2>3, <3>2
  <2>7. Joined'
    BY <1>2, <1>4, <2>1, <2>5, <2>6 DEF Joined, Gapless
  <2>8. Known'
    BY <1>2, <2>5 DEF Known
  <2> QED
    BY <1>2, <1>3, <1>5, <2>4, <2>7, <2>8 DEF Attached
<1> QED
  BY <1>4, <1>7, <1>8

LEMMA HearLagKeeps ==
  ASSUME SaveTypes, StreamTypes, Known, InOrder, Attached, HearLag, UNCHANGED smix
  PROVE  (Known /\ InOrder /\ Attached)'
<1>1. /\ seq \in Nat /\ minLive \in Nat /\ queue \in Seq(Event) /\ Sole' = Sole /\ Len(queue) \in Nat
  BY DEF SaveTypes, StreamTypes, Sole
<1>2. /\ UNCHANGED <<seq, buffer, job, loads, queue, wire, conn, minLive>>
      /\ Pushed' = Pushed /\ Sent' = Sent /\ conn = "live" /\ wire = <<>>
  BY <1>1 DEF HearLag, server, Pushed, Sent
<1>3. seen' = seq
  BY <1>2 DEF HearLag, LagReset, Take, Reset
<1>4. InOrder'
  BY <1>2 DEF InOrder, Gapless
<1>5. Known'
  BY <1>1, <1>2, <1>3 DEF Known
<1>6. Sent \in Int /\ Sent <= seq
  BY <1>1, PlaceIs
<1>7. minLive > 0 => Joined'
  <2> SUFFICES ASSUME minLive > 0 PROVE Joined'
    OBVIOUS
  <2>1. minLive <= seq
    BY <1>2 DEF Attached, Joined
  <2>2. seq > 0 /\ Sent - Len(queue) <= seq
    BY <1>1, <1>6, <2>1
  <2> QED
    BY <1>2, <1>3, <2>1, <2>2 DEF Joined
<1>8. Attached'
  BY <1>1, <1>2, <1>7 DEF Attached
<1> QED
  BY <1>4, <1>5, <1>8

LEMMA HearLiveKeeps ==
  ASSUME SaveTypes, StreamTypes, Known, InOrder, Attached, HearLive, UNCHANGED smix
  PROVE  /\ (Known /\ InOrder /\ Attached)'
         /\ minLive > 0 => view' = view \/ seen' = seen + 1
<1>1. /\ seq \in Nat /\ seen \in Nat /\ minLive \in Nat /\ queue \in Seq(Event)
      /\ Sole' = Sole /\ seen <= seq /\ Len(queue) \in Nat
  BY DEF SaveTypes, StreamTypes, Sole, Known
<1>2. /\ UNCHANGED <<seq, buffer, job, loads, wire, lagged, conn, minLive>>
      /\ Pushed' = Pushed /\ Sent' = Sent /\ Sent \in Int /\ Sent <= seq
      /\ conn = "live" /\ wire = <<>> /\ ~lagged /\ queue # <<>> /\ queue' = Tail(queue)
      /\ IF Head(queue).seq > minLive THEN Take(Head(queue)) ELSE UNCHANGED <<seen, view, asked>>
  BY <1>1, PlaceIs DEF HearLive, server, Pushed, Sent
<1>3. Gapless(queue, Sent)
  BY DEF InOrder
<1>4. /\ Head(queue) \in Event /\ Head(queue).type # "reset"
      /\ Head(queue).seq = Sent - Len(queue) + 1
      /\ queue' \in Seq(Event) /\ Len(queue') = Len(queue) - 1 /\ Gapless(queue', Sent)
  BY <1>1, <1>2, <1>3, GaplessTail
<1>5. Head(queue).seq \in Nat /\ Len(queue) > 0 /\ Head(queue).seq <= seq
  <2>1. Head(queue).seq \in Nat
    BY <1>4 DEF Event
  <2>2. Len(queue) > 0
    BY <1>1, <1>2
  <2> QED
    BY <1>1, <1>2, <1>4, <2>1, <2>2
<1>6. \/ seen' = seen /\ view' = view /\ (Head(queue).seq <= minLive \/ Head(queue).seq <= seen)
      \/ seen' = Head(queue).seq /\ (seen > 0 => Head(queue).seq > seen)
  <2>1. CASE Head(queue).seq > minLive
    BY <1>2, <1>4, <2>1, TakeIs
  <2>2. CASE ~(Head(queue).seq > minLive)
    BY <1>1, <1>2, <1>5, <2>2
  <2> QED
    BY <2>1, <2>2
<1>7. InOrder'
  BY <1>2, <1>4 DEF InOrder, Gapless
<1>8. Known'
  <2>1. seen' <= seq
    BY <1>1, <1>5, <1>6
  <2> QED
    BY <1>2, <2>1 DEF Known
<1>9. ASSUME minLive > 0
      PROVE  Joined' /\ (view' = view \/ seen' = seen + 1)
  <2>1. seen > 0 /\ minLive <= seq /\ minLive <= seen /\ Sent - Len(queue) <= seen
    BY <1>2, <1>9 DEF Attached, Joined
  <2>2. view' = view \/ seen' = seen + 1
    BY <1>1, <1>2, <1>4, <1>6, <2>1
  <2>3. /\ seen' > 0 /\ minLive <= seen' /\ Sent - Len(queue') <= seen'
    BY <1>1, <1>2, <1>4, <1>5, <1>6, <2>1
  <2> QED
    BY <1>2, <2>1, <2>2, <2>3 DEF Joined
<1>10. Attached'
  BY <1>1, <1>2, <1>9 DEF Attached
<1> QED
  BY <1>7, <1>8, <1>9, <1>10

LEMMA LoadKeeps ==
  ASSUME SaveTypes, StreamTypes, Known, InOrder, Attached, UNCHANGED smix,
         NEW l \in loads, LoadNumber(l) \/ (LoadLands(l) /\ ~FarBehind)
  PROVE  (Known /\ InOrder /\ Attached)'
<1>1. /\ seq \in Nat /\ seen \in Nat /\ minLive \in Nat /\ Sole' = Sole /\ seen <= seq
      /\ l.seq \in Int /\ l.seq <= seq
  BY DEF SaveTypes, StreamTypes, Sole, Known, Unnumbered
<1>2. /\ UNCHANGED <<seq, buffer, job, conn, queue, lagged, wire, minLive>>
      /\ Pushed' = Pushed /\ Sent' = Sent
  BY <1>1 DEF LoadNumber, LoadLands, server, stream, Pushed, Sent
<1>3. InOrder'
  BY <1>2 DEF InOrder, Gapless
<1>4. CASE LoadNumber(l)
  <2>1. seen' = seen
    BY <1>4 DEF LoadNumber
  <2>2. \A k \in loads' : k \in loads \/ k.seq = seq
    <3>1. l \in [items: Boards, seq: Nat \cup {Unnumbered}]
      BY DEF StreamTypes
    <3>2. [l EXCEPT !.seq = seq].seq = seq
      BY <3>1
    <3> QED
      BY <1>4, <3>2 DEF LoadNumber
  <2>3. Known'
    BY <1>1, <1>2, <2>1, <2>2 DEF Known
  <2>4. Attached'
    BY <1>2, <2>1 DEF Attached, Joined, Gapless
  <2> QED
    BY <1>3, <2>3, <2>4
<1>5. CASE LoadLands(l) /\ ~FarBehind
  <2>1. loads' \subseteq loads /\ l.seq # Unnumbered
    BY <1>5 DEF LoadLands
  <2>2. /\ seen' \in {seen, l.seq} /\ seen' \in Nat
        /\ conn = "off" \/ seen' >= seen
    <3>1. CASE Outrun(l)
      BY <1>1, <1>5, <3>1 DEF LoadLands
    <3>2. CASE ~Outrun(l)
      <4>1. seen' = l.seq /\ l.seq \in Nat
        BY <1>5, <2>1, <3>2 DEF LoadLands, StreamTypes
      <4>2. conn = "off" \/ ~Older(l)
        BY <1>5, <3>2 DEF FarBehind
      <4>3. ~Older(l) => l.seq >= seen
        BY <1>1, <4>1 DEF Older
      <4> QED
        BY <4>1, <4>2, <4>3
    <3> QED
      BY <3>1, <3>2
  <2>3. Known'
    BY <1>1, <1>2, <2>1, <2>2 DEF Known
  <2>4. ASSUME conn # "off", Joined
        PROVE  Joined'
    <3>1. seen' >= seen /\ seen > 0
      BY <2>2, <2>4 DEF Joined
    <3>2. Sent \in Int /\ Len(queue) \in Nat /\ Len(wire) \in Nat
      BY PlaceIs DEF StreamTypes
    <3> QED
      BY <1>1, <1>2, <2>2, <2>4, <3>1, <3>2 DEF Joined, Gapless
  <2>5. Attached'
    BY <1>1, <1>2, <2>2, <2>4 DEF Attached
  <2> QED
    BY <1>3, <2>3, <2>5
<1> QED
  BY <1>4, <1>5

LEMMA GapNext ==
  SaveTypes /\ SaveTypes' /\ StreamTypes /\ GapInv /\ [SyncNext]_syncVars /\ [~FarBehind]_syncVars => GapInv'
<1> SUFFICES ASSUME SaveTypes, SaveTypes', StreamTypes, GapInv, [SyncNext]_syncVars,
                    [~FarBehind]_syncVars, Lone
             PROVE  (OneWriter /\ Known /\ InOrder /\ Attached)'
  BY MixStays DEF GapInv
<1>1. /\ smix' = smix /\ Sole' = Sole /\ Sole \in Writers /\ up # "down" /\ ~(restarts < smix.crashes)
      /\ OneWriter /\ Known /\ InOrder /\ Attached
  BY MixStays, LoneIs DEF GapInv
<1>2. ASSUME OneWriter' /\ (Unheard \/ PushStep \/ SendStep)
      PROVE  (OneWriter /\ Known /\ InOrder /\ Attached)'
  BY <1>1, <1>2, UnheardKeeps, PushKeeps, SendKeeps
<1>3. CASE Verbs
  BY <1>1, <1>2, <1>3, WriterStep DEF Verbs
<1>4. CASE \/ \E t \in Threads : Flush(t)
           \/ Tick \/ Interrupt \/ LastFlush \/ UNCHANGED syncVars
  <2>1. "tick" \in Threads
    BY DEF Threads
  <2> QED
    BY <1>1, <1>2, <1>4, <2>1, FlushStep
<1>5. CASE Crash \/ Restart
  BY <1>1, <1>5 DEF Crash, Restart
<1>7. CASE Exit
  <2>1. OneWriter'
    BY <1>1, <1>7 DEF OneWriter, Idle, Exit
  <2> QED
    BY <1>1, <1>7, <2>1, OpenKeeps
<1>6. CASE Outside /\ ~FarBehind
  <2>1. OneWriter'
    BY <1>1, <1>6, OutsideFrame DEF OneWriter, Idle, server
  <2>2. CASE Open \/ Drop \/ Poll \/ LoadRead
    BY <1>1, <2>1, <2>2, OpenKeeps
  <2>3. CASE Subscribe
    BY <1>1, <2>1, <2>3, SubscribeKeeps
  <2>4. CASE Hear
    BY <1>1, <2>1, <2>4, HearMissedKeeps, HearLagKeeps, HearLiveKeeps DEF Hear
  <2>5. CASE \E l \in loads : LoadNumber(l) \/ LoadLands(l)
    BY <1>1, <1>6, <2>1, <2>5, LoadKeeps
  <2> QED
    BY <1>6, <2>2, <2>3, <2>4, <2>5 DEF Outside, Load
<1> QED
  BY <1>3, <1>4, <1>5, <1>6, <1>7 DEF SyncNext, Outside

(* What a step of the stream shows the client. *)
NoGapStep ==
  /\ Cardinality(smix.writers) = 1 /\ smix.crashes = 0
  /\ minLive > 0 /\ view' # view /\ <<wire, queue>>' # <<wire, queue>>
  => seen' = seen + 1

LEMMA ShowsNext ==
  SaveTypes /\ StreamTypes /\ GapInv /\ [SyncNext]_syncVars => NoGapStep
<1> SUFFICES ASSUME SaveTypes, StreamTypes, GapInv, [SyncNext]_syncVars, Lone,
                    minLive > 0, view' # view, <<wire, queue>>' # <<wire, queue>>
             PROVE  seen' = seen + 1
  BY DEF NoGapStep, Lone
<1>1. smix' = smix /\ Known /\ InOrder /\ Attached
  BY MixStays DEF GapInv
<1>2. HearMissed \/ HearLive
  BY DEF SyncNext, Verbs, Flush, Set, Delete, Number, Push, Send, Mark, Swap, Clone, Save, SaveFails,
         Tick, Interrupt, LastFlush, Exit, Crash, Restart, Open, Subscribe, Drop, Hear, HearLag, Poll,
         Load, LoadRead, LoadNumber, LoadLands, syncVars, server, stream, client
<1> QED
  BY <1>1, <1>2, HearMissedKeeps, HearLiveKeeps

LEMMA SkipsNothing == SyncSafe /\ [][~FarBehind]_syncVars => NoSilentGap
<1>1. SyncInit(SyncMix) => SaveTypes /\ StreamTypes /\ GapInv
  BY TypesInit, StreamInit, GapStart
<1>2. SaveTypes /\ StreamTypes /\ [SyncNext]_syncVars => (SaveTypes /\ StreamTypes)'
  BY TypesNext, StreamNext
<1>3. SaveTypes /\ SaveTypes' /\ StreamTypes /\ GapInv /\ [SyncNext]_syncVars /\ [~FarBehind]_syncVars => GapInv'
  BY GapNext
<1>4. SaveTypes /\ StreamTypes /\ GapInv /\ [SyncNext]_syncVars => [NoGapStep]_syncVars
  BY ShowsNext
<1>5. SyncSafe /\ [][~FarBehind]_syncVars => [][NoGapStep]_syncVars
  BY <1>1, <1>2, <1>3, <1>4, PTL DEF SyncSafe
<1>6. NoSilentGap <=> [][NoGapStep]_syncVars
  BY DEF NoSilentGap, NoGapStep
<1> QED
  BY <1>5, <1>6

(* A socket's client meets every number, or is told to load the board: between *)
(* the buffer, the catch-up, a slow receiver and the live stream nothing is    *)
(* left out (emit and catch_up of src/store.rs, handle_socket of src/ws.rs),   *)
(* for any buffer and channel, any drops and any snapshots, unless one lands   *)
(* so far behind the stream that the client takes it for another server's.     *)
THEOREM NothingSkipped == SyncSpec /\ [][~FarBehind]_syncVars => NoSilentGap
  BY SyncIsSafe, SkipsNothing
================================================================================

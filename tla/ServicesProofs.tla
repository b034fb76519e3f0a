---------------------------- MODULE ServicesProofs ----------------------------
(***************************************************************************)
(* What the services around the Board say, each of its own.  Cockpit, of   *)
(* the operator who stops a session and starts the next while the gateway  *)
(* is still deleting, for any number of sessions, faults, parks and        *)
(* crashes.  PullRequests, "Done only when every listed PR is merged": for *)
(* any number of pull requests, reviews, advances of main and runs, with   *)
(* webhooks late, lost and beside the poll, a card is closed only for pull *)
(* requests that are merged, as far as they were listed when that was      *)
(* decided.  And of the three together with the board's copy: a behaviour  *)
(* of the instance is one of each, so all that is proved of each holds.    *)
(***************************************************************************)
EXTENDS MCServices, BoardSyncProofs

(* Each but its fairness, and whatever the mix. *)
CockpitSafe == CockpitInit(CockpitMix) /\ [][CockpitNext]_cockpitVars
PullSafe == PullInit(PullMix) /\ [][PullNext]_pullVars

LEMMA OthersAreSafe == (CockpitSpec => CockpitSafe) /\ (PullSpec => PullSafe)
<1>1. CockpitInit(CockpitMixes) => CockpitInit(CockpitMix)
  BY CockpitAssumption DEF CockpitInit
<1>2. PullInit(PullMixes) => PullInit(PullMix)
  <2>1. PullMixes \subseteq PullMix
    BY PullAssumption
  <2> QED
    BY <2>1 DEF PullInit
<1> QED
  BY <1>1, <1>2 DEF CockpitSpec, CockpitSafe, PullSpec, PullSafe

(* A session is named by its created_at, and none is named like a later one; *)
(* a seat past its start has looked at a session that there was.             *)
NamesGrow ==
  /\ cs.at \in 0 .. started /\ seat.at \in 0 .. started
  /\ seat.pc \notin {"off", "start"} => seat.at # 0

(* A seat about to create, for the session there is, has seen no delete under *)
(* way; and a reap that looked since saw that session, and let it be.         *)
NoneUnasked ==
  seat.pc = "create" /\ cs.at = seat.at => reap.pc # "sent" \/ reap.force

CreateInv == CockpitTypeOK /\ NamesGrow /\ NoneUnasked

LEMMA CockpitTypesInit == CockpitInit(CockpitMix) => CreateInv
<1> SUFFICES ASSUME CockpitInit(CockpitMix)
             PROVE  CreateInv
    OBVIOUS
<1>1. cmix \in CockpitMix /\ MaxStarts \in Nat
  BY CockpitAssumption DEF CockpitInit
<1>2. /\ cs = NoSession /\ seat = NoSeat /\ fin = NoFin /\ reap = NoReap /\ box = "none"
      /\ relay = FALSE /\ term = "off"
      /\ started = 0 /\ parked = 0 /\ faulted = 0 /\ crashed = 0
  BY DEF CockpitInit
<1>3. NoSession \in Sessions /\ NoSeat \in Seats /\ NoFin \in Fins /\ NoReap \in Reaps
  BY <1>1 DEF NoSession, Sessions, NoSeat, Seats, NoFin, Fins, NoReap, Reaps, Chats, Phases, SeatPc,
              Whys
<1>4. CockpitTypeOK
  <2>1. cmix.starts \in Nat /\ cmix.parks \in Nat /\ cmix.faults \in Nat /\ cmix.crashes \in Nat
    BY <1>1 DEF CockpitMix
  <2>2. /\ started \in 0 .. cmix.starts /\ parked \in 0 .. cmix.parks
        /\ faulted \in 0 .. cmix.faults /\ crashed \in 0 .. cmix.crashes
    BY <1>2, <2>1
  <2>3. box \in Boxes /\ relay \in BOOLEAN /\ term \in {"off", "gate", "on"}
    BY <1>2 DEF Boxes
  <2> QED
    BY <1>1, <1>2, <1>3, <2>2, <2>3 DEF CockpitTypeOK
<1> QED
  BY <1>2, <1>4 DEF CreateInv, NamesGrow, NoneUnasked, NoSession, NoSeat

-------------------------------------------------------------------------------
(* The pieces of a step. *)

SessionOK(s) == s \in Sessions /\ (s.at = 0 => s = NoSession)

LEMMA InPhaseOK ==
  ASSUME NEW s, SessionOK(s), NEW ph \in Phases
  PROVE  SessionOK(InPhase(s, ph)) /\ InPhase(s, ph).at = s.at
  BY DEF SessionOK, InPhase, Sessions

(* Where a seat can be sent. *)
LEMMA SeatToOK ==
  ASSUME seat \in Seats, NEW pc \in SeatPc, SeatTo(pc)
  PROVE  seat' \in Seats /\ seat'.pc = pc /\ seat'.at = seat.at
  BY DEF SeatTo, Seats

LEMMA NothingOK ==
  /\ NoSession \in Sessions /\ NoSession.at = 0
         /\ NoSeat \in Seats /\ NoSeat.pc = "off" /\ NoSeat.at = 0
         /\ NoFin \in Fins /\ NoReap \in Reaps /\ NoReap.pc = "off"
<1>1. 0 \in 0 .. MaxStarts
  BY CockpitAssumption
<1>2. NoSession \in Sessions /\ NoSession.at = 0
  BY <1>1 DEF NoSession, Sessions, Chats, Phases
<1>3. NoSeat \in Seats /\ NoSeat.pc = "off" /\ NoSeat.at = 0
  BY <1>1 DEF NoSeat, Seats, SeatPc
<1>4. NoFin \in Fins
  BY DEF NoFin, Fins, Whys
<1>5. NoReap \in Reaps /\ NoReap.pc = "off"
  BY DEF NoReap, Reaps
<1> QED
  BY <1>2, <1>3, <1>4, <1>5

LEMMA SpawnOK ==
  ASSUME reap \in Reaps, NEW force \in BOOLEAN, SpawnReap(force)
  PROVE  reap' \in Reaps /\ (reap'.pc = "sent" => reap' = reap)
  BY DEF SpawnReap, Reaps

(* A seat that ends leaves the session where it is, and at most a cleanup. *)
LEMMA EndsOK ==
  ASSUME SessionOK(cs), fin \in Fins, NEW why \in Whys, EndsWith(why)
  PROVE  SessionOK(cs') /\ cs'.at = cs.at /\ seat' = NoSeat /\ fin' \in Fins
<1>1. "error" \in Phases
  BY DEF Phases
<1>2. SessionOK(cs') /\ cs'.at = cs.at
  BY <1>1, InPhaseOK DEF EndsWith, Show
<1>3. fin' \in Fins
  BY DEF EndsWith, Fins
<1> QED
  BY <1>2, <1>3 DEF EndsWith

LEMMA AmissIsWhy ==
  ASSUME NEW at
  PROVE  /\ Amiss(at) # "no" => Amiss(at) \in Whys
         /\ Amiss(at) = "no" => cs.at # 0 /\ cs.at = at
  BY DEF Amiss, Whys

-------------------------------------------------------------------------------
(* A step of the seat: it names the session it began with, and is about to     *)
(* create only when it has just found the name free.                           *)
SeatKeeps ==
  /\ SessionOK(cs') /\ cs'.at = cs.at
  /\ seat' \in Seats /\ seat'.at \in {0, seat.at, cs.at}
  /\ seat'.pc \notin {"off", "start"} => seat'.at # 0
  /\ seat'.pc = "create" => reap.pc = "off" /\ reap' = reap
  /\ fin' \in Fins /\ reap' \in Reaps /\ box' \in Boxes /\ relay' \in BOOLEAN
  /\ UNCHANGED <<term, counts>>

LEMMA EndKeeps ==
  ASSUME CockpitTypeOK, NamesGrow, NEW why \in Whys, EndsWith(why),
         UNCHANGED <<reap, box, term, counts>>, relay' \in BOOLEAN
  PROVE  SeatKeeps
<1>1. SessionOK(cs) /\ fin \in Fins /\ reap \in Reaps /\ box \in Boxes
  BY DEF CockpitTypeOK, SessionOK
<1> QED
  BY <1>1, EndsOK, NothingOK DEF SeatKeeps

LEMMA OnKeeps ==
  ASSUME CockpitTypeOK, NamesGrow, NEW pc \in SeatPc \ {"off", "start", "create"},
         SeatTo(pc), seat.pc \notin {"off", "start"}, SessionOK(cs'), cs'.at = cs.at,
         UNCHANGED <<fin, reap, term, counts>>, box' \in Boxes, relay' \in BOOLEAN
  PROVE  SeatKeeps
<1>1. seat \in Seats /\ fin \in Fins /\ reap \in Reaps
  BY DEF CockpitTypeOK
<1> QED
  BY <1>1, SeatToOK DEF SeatKeeps, NamesGrow

LEMMA SeatSteps ==
  ASSUME CockpitTypeOK, NamesGrow, Seat
  PROVE  SeatKeeps
<1>0. /\ SessionOK(cs) /\ cs \in Sessions /\ seat \in Seats /\ fin \in Fins /\ reap \in Reaps
      /\ box \in Boxes /\ relay \in BOOLEAN
  BY DEF CockpitTypeOK, SessionOK
<1>a. "failed" \in Whys /\ "unusable" \in Whys
  BY DEF Whys
<1>b. {"look", "probe", "free", "making", "publish", "ready", "relay", "arm", "hold"}
        \subseteq SeatPc \ {"off", "start", "create"}
  BY DEF SeatPc
<1>c. {"starting", "provisioning", "waiting", "ready", "error"} \subseteq Phases
  BY DEF Phases
<1>1. CASE SeatStarts
  <2>1. CASE Amiss(cs.at) # "no"
    BY <1>0, <1>1, <2>1, AmissIsWhy, EndKeeps DEF SeatStarts
  <2>2. CASE Amiss(cs.at) = "no"
    <3>1. /\ \E pc \in {"look", "probe"} : seat' = [seat EXCEPT !.at = cs.at, !.pc = pc]
          /\ UNCHANGED <<cs, fin, reap, box, relay, term, counts>>
      BY <1>1, <2>2 DEF SeatStarts
    <3>2. cs.at \in 0 .. MaxStarts /\ cs.at # 0
      BY <1>0, <2>2, AmissIsWhy DEF Sessions
    <3>3. seat' \in Seats /\ seat'.at = cs.at /\ seat'.pc \in {"look", "probe"}
      BY <1>0, <1>b, <3>1, <3>2 DEF Seats
    <3> QED
      BY <1>0, <3>1, <3>2, <3>3 DEF SeatKeeps
  <2> QED
    BY <2>1, <2>2
<1>2. CASE SeatCancelled
  BY <1>0, <1>2, AmissIsWhy, EndKeeps DEF SeatCancelled
<1>3. CASE SeatLooks
  BY <1>0, <1>3, <1>b, OnKeeps DEF SeatLooks
<1>4. CASE SeatProbes
  <2>1. CASE cs.at = 0
    BY <1>0, <1>4, <1>a, <2>1, EndKeeps DEF SeatProbes
  <2>2. CASE cs.at # 0
    <3>1. PICK pc \in {"ready", "free"} : SeatTo(pc)
      BY <1>4, <2>2 DEF SeatProbes
    <3>2. \/ cs' = [cs EXCEPT !.env = TRUE, !.phase = "provisioning"]
          \/ cs' = [cs EXCEPT !.env = FALSE, !.chat = "none", !.phase = "starting"]
      BY <1>4, <2>2 DEF SeatProbes
    <3>3. SessionOK(cs') /\ cs'.at = cs.at
      BY <1>0, <1>c, <2>2, <3>2 DEF SessionOK, Sessions, Chats
    <3> QED
      BY <1>0, <1>4, <1>b, <2>2, <3>1, <3>3, OnKeeps DEF SeatProbes
  <2> QED
    BY <2>1, <2>2
<1>5. CASE SeatFindsFree
  <2>1. "create" \in SeatPc
    BY DEF SeatPc
  <2>2. seat' \in Seats /\ seat'.pc = "create" /\ seat'.at = seat.at /\ seat.at # 0
    BY <1>0, <1>5, <2>1, SeatToOK DEF SeatFindsFree, NamesGrow
  <2>3. SessionOK(cs') /\ cs'.at = cs.at
    BY <1>0, <1>5, <1>c, InPhaseOK DEF SeatFindsFree, Show
  <2> QED
    BY <1>0, <1>5, <2>2, <2>3 DEF SeatFindsFree, SeatKeeps, NameFree
<1>6. CASE SeatKicks
  <2>1. seat' = [seat EXCEPT !.kicked = TRUE] /\ seat.pc = "free"
    BY <1>6 DEF SeatKicks
  <2>2. seat' \in Seats /\ seat'.pc = "free" /\ seat'.at = seat.at /\ seat.at # 0
    BY <1>0, <2>1 DEF Seats, NamesGrow
  <2>3. SessionOK(cs') /\ cs'.at = cs.at
    BY <1>0, <1>6, <1>c, InPhaseOK DEF SeatKicks, Show
  <2>4. reap' \in Reaps
    BY <1>0, <1>6, SpawnOK DEF SeatKicks
  <2> QED
    BY <1>0, <1>6, <2>2, <2>3, <2>4 DEF SeatKicks, SeatKeeps
<1>7. CASE SeatGivesUp
  BY <1>0, <1>7, <1>a, EndKeeps DEF SeatGivesUp
<1>8. CASE SeatCreates
  <2>1. CASE Listed
    BY <1>0, <1>8, <1>a, <2>1, EndKeeps DEF SeatCreates
  <2>2. CASE ~Listed
    <3>1. "starting" \in Boxes
      BY DEF Boxes
    <3> QED
      BY <1>0, <1>8, <1>b, <2>2, <3>1, OnKeeps DEF SeatCreates
  <2> QED
    BY <2>1, <2>2
<1>9. CASE SeatMade
  BY <1>0, <1>9, <1>a, <1>b, EndKeeps, OnKeeps DEF SeatMade
<1>10. CASE SeatPublishes
  <2>1. CASE cs.at = 0
    BY <1>0, <1>10, <1>a, <2>1, EndKeeps DEF SeatPublishes
  <2>2. CASE cs.at # 0
    <3>1. SessionOK(cs') /\ cs'.at = cs.at
      BY <1>0, <1>10, <2>2 DEF SeatPublishes, SessionOK, Sessions
    <3> QED
      BY <1>0, <1>10, <1>b, <2>2, <3>1, OnKeeps DEF SeatPublishes
  <2> QED
    BY <2>1, <2>2
<1>11. CASE SeatReady
  <2>1. CASE SeatTo("relay") /\ Show("provisioning") /\ UNCHANGED fin
    <3>1. SessionOK(cs') /\ cs'.at = cs.at
      BY <1>0, <1>c, <2>1, InPhaseOK DEF Show
    <3> QED
      BY <1>0, <1>11, <1>b, <2>1, <3>1, OnKeeps DEF SeatReady
  <2>2. CASE EndsWith("failed")
    BY <1>0, <1>11, <1>a, <2>2, EndKeeps DEF SeatReady
  <2> QED
    BY <1>11, <2>1, <2>2 DEF SeatReady
<1>12. CASE SeatRelays
  BY <1>0, <1>12, <1>a, <1>b, EndKeeps, OnKeeps DEF SeatRelays
<1>13. CASE SeatArms
  <2>1. SessionOK(cs') /\ cs'.at = cs.at
    BY <1>0, <1>13, <1>c, InPhaseOK DEF SeatArms, Show
  <2> QED
    BY <1>0, <1>13, <1>b, <2>1, OnKeeps DEF SeatArms
<1>14. CASE SeatLoses
  BY <1>0, <1>14, <1>a, EndKeeps DEF SeatLoses
<1> QED
  BY <1>1, <1>2, <1>3, <1>4, <1>5, <1>6, <1>7, <1>8, <1>9, <1>10, <1>11, <1>12, <1>13, <1>14 DEF
     Seat

(* Everybody else: the operator makes a session nobody was named after, and a *)
(* reap that is not forced goes on only while there is no session.            *)
OthersKeep ==
  /\ SessionOK(cs') /\ (cs'.at \in {0, cs.at} \/ (cs'.at = started + 1 /\ started' = started + 1))
  /\ seat' \in Seats /\ (seat' = seat \/ (seat'.pc \in {"off", "start"} /\ seat'.at = 0))
  /\ fin' \in Fins /\ reap' \in Reaps /\ box' \in Boxes /\ relay' \in BOOLEAN
  /\ term' \in {"off", "gate", "on"} /\ cmix' = cmix
  /\ started' \in 0 .. cmix.starts /\ parked' \in 0 .. cmix.parks
  /\ faulted' \in 0 .. cmix.faults /\ crashed' \in 0 .. cmix.crashes /\ started' >= started
  /\ reap'.pc = "sent" => reap' = reap \/ reap'.force \/ cs'.at = 0

LEMMA OtherSteps ==
  ASSUME CockpitTypeOK, NamesGrow,
         Operator \/ Reaper \/ TickSeats \/ Cleanup \/ Terminal \/ Gateway \/ Crashes
  PROVE  OthersKeep
<1>0. /\ SessionOK(cs) /\ cs \in Sessions /\ seat \in Seats /\ fin \in Fins /\ reap \in Reaps
      /\ box \in Boxes /\ relay \in BOOLEAN /\ term \in {"off", "gate", "on"}
  BY DEF CockpitTypeOK, SessionOK
<1>n. /\ MaxStarts \in Nat /\ cmix.starts \in 1 .. MaxStarts /\ cmix.parks \in Nat
      /\ cmix.faults \in Nat /\ cmix.crashes \in Nat
      /\ started \in 0 .. cmix.starts /\ parked \in 0 .. cmix.parks
      /\ faulted \in 0 .. cmix.faults /\ crashed \in 0 .. cmix.crashes
  BY CockpitAssumption DEF CockpitTypeOK, CockpitMix
<1>1. CASE Operator
  <2>1. CASE Start
    <3>1. started + 1 \in 0 .. MaxStarts /\ started + 1 \in 0 .. cmix.starts /\ started + 1 # 0
      BY <1>n, <2>1 DEF Start
    <3>2. SessionOK(cs') /\ cs'.at = started + 1
      BY <2>1, <3>1, NothingOK DEF Start, SessionOK, Sessions, Phases
    <3> QED
      BY <1>0, <1>n, <2>1, <3>1, <3>2 DEF Start, OthersKeep
  <2>2. CASE Stop
    <3>1. SessionOK(cs') /\ cs'.at = 0
      BY <2>2, NothingOK DEF Stop, SessionOK
    <3> QED
      BY <1>0, <1>n, <2>2, <3>1 DEF Stop, OthersKeep, counts
  <2>3. CASE Park
    <3>1. SessionOK(cs') /\ cs'.at = cs.at
      BY <1>0, <2>3 DEF Park, SessionOK, Sessions, Wanted
    <3> QED
      BY <1>0, <1>n, <2>3, <3>1 DEF Park, OthersKeep
  <2>4. CASE Resume
    <3>1. SessionOK(cs') /\ cs'.at = cs.at
      BY <1>0, <2>4 DEF Resume, SessionOK, Sessions, Wanted
    <3> QED
      BY <1>0, <1>n, <2>4, <3>1 DEF Resume, OthersKeep, counts
  <2> QED
    BY <1>1, <2>1, <2>2, <2>3, <2>4 DEF Operator
<1>2. CASE Reaper
  <2>1. CASE ReapLooks
    <3>1. reap' \in Reaps /\ (reap'.pc = "sent" => reap'.force = reap.force)
      BY <1>0, <2>1, NothingOK DEF ReapLooks, Reaps
    <3>2. reap'.pc = "sent" => reap.force \/ cs.at = 0
      BY <2>1, NothingOK DEF ReapLooks, Skips, Wanted
    <3> QED
      BY <1>0, <1>n, <2>1, <3>1, <3>2 DEF ReapLooks, OthersKeep, counts
  <2>2. CASE ReapDeletes
    <3>1. box' \in Boxes
      BY <1>0, <2>2 DEF ReapDeletes, Boxes
    <3> QED
      BY <1>0, <1>n, <2>2, <3>1, NothingOK DEF ReapDeletes, OthersKeep, counts
  <2>3. CASE TickReaps
    <3>1. reap' \in Reaps /\ (reap'.pc = "sent" => reap' = reap)
      BY <1>0, <2>3, SpawnOK DEF TickReaps
    <3> QED
      BY <1>0, <1>n, <2>3, <3>1 DEF TickReaps, OthersKeep, counts
  <2> QED
    BY <1>2, <2>1, <2>2, <2>3 DEF Reaper
<1>3. CASE TickSeats
  <2>1. seat' \in Seats /\ seat'.pc = "start" /\ seat'.at = 0
    BY <1>3, NothingOK DEF TickSeats, Seats, SeatPc
  <2> QED
    BY <1>0, <1>n, <1>3, <2>1 DEF TickSeats, OthersKeep, counts
<1>4. CASE Cleanup
  <2>1. CASE FinChecks \/ FinCuts
    <3>1. fin' \in Fins /\ relay' \in BOOLEAN
      BY <1>0, <2>1, NothingOK DEF FinChecks, FinCuts, FinTo, Fins
    <3> QED
      BY <1>0, <1>n, <2>1, <3>1 DEF FinChecks, FinCuts, OthersKeep, counts
  <2>2. CASE FinReaps
    <3>1. SessionOK(cs') /\ cs'.at = cs.at
      BY <1>0, <2>2, InPhaseOK DEF FinReaps, Show, Phases
    <3>2. reap' \in Reaps /\ (reap'.pc = "sent" => reap' = reap)
      BY <1>0, <2>2, SpawnOK DEF FinReaps
    <3> QED
      BY <1>0, <1>n, <2>2, <3>1, <3>2, NothingOK DEF FinReaps, OthersKeep, counts
  <2> QED
    BY <1>4, <2>1, <2>2 DEF Cleanup
<1>5. CASE Terminal
  <2>1. SessionOK(cs') /\ cs'.at = cs.at
    BY <1>0, <1>5 DEF Terminal, TermGate, TermOn, TermEnds, SessionOK, Sessions, Chats, Wanted
  <2>2. term' \in {"off", "gate", "on"} /\ relay' \in BOOLEAN
    BY <1>0, <1>5 DEF Terminal, TermGate, TermOn, TermEnds
  <2> QED
    BY <1>0, <1>n, <1>5, <2>1, <2>2 DEF Terminal, TermGate, TermOn, TermEnds, OthersKeep, counts
<1>6. CASE Gateway
  <2>1. SessionOK(cs') /\ cs'.at = cs.at
    BY <1>0, <1>6 DEF Gateway, BoxUp, BoxGone, BoxDies, DeleteRefused, RelayEnds, SessionOK,
       Sessions,
                      Chats, NoSession
  <2>2. box' \in Boxes /\ relay' \in BOOLEAN /\ reap' \in Reaps /\ (reap'.pc = "sent" => reap' = reap)
    BY <1>0, <1>6, NothingOK DEF Gateway, BoxUp, BoxGone, BoxDies, DeleteRefused, RelayEnds, Boxes
  <2>3. faulted' \in 0 .. cmix.faults /\ UNCHANGED <<seat, fin, term, started, parked, crashed, cmix>>
    BY <1>n, <1>6 DEF Gateway, BoxUp, BoxGone, BoxDies, DeleteRefused, RelayEnds, counts
  <2> QED
    BY <1>0, <1>n, <2>1, <2>2, <2>3 DEF OthersKeep
<1>7. CASE Crashes
  <2>1. /\ seat' \in Seats /\ seat'.pc = "off" /\ seat'.at = 0
        /\ fin' \in Fins /\ reap' \in Reaps /\ reap'.pc = "off"
    BY <1>7, NothingOK DEF Crashes
  <2>2. crashed' \in 0 .. cmix.crashes
    BY <1>n, <1>7 DEF Crashes
  <2>3. relay' \in BOOLEAN /\ term' \in {"off", "gate", "on"}
    BY <1>7 DEF Crashes
  <2> QED
    BY <1>0, <1>n, <1>7, <2>1, <2>2, <2>3 DEF Crashes, OthersKeep
<1> QED
  BY <1>1, <1>2, <1>3, <1>4, <1>5, <1>6, <1>7

LEMMA CreateNext == CreateInv /\ [CockpitNext]_cockpitVars => CreateInv'
<1> SUFFICES ASSUME CreateInv, [CockpitNext]_cockpitVars
             PROVE  CreateInv'
    OBVIOUS
<1>0. /\ MaxStarts \in Nat /\ cmix.starts \in 1 .. MaxStarts /\ started \in 0 .. cmix.starts
      /\ cs.at \in 0 .. started /\ seat.at \in 0 .. started
  BY CockpitAssumption DEF CreateInv, CockpitTypeOK, CockpitMix, NamesGrow
<1>1. CASE UNCHANGED cockpitVars
  BY <1>1 DEF cockpitVars, CreateInv, CockpitTypeOK, NamesGrow, NoneUnasked
<1>2. CASE Seat
  <2>1. SeatKeeps
    BY <1>2, SeatSteps DEF CreateInv
  <2>2. CockpitTypeOK'
    BY <2>1 DEF SeatKeeps, CreateInv, CockpitTypeOK, SessionOK, counts
  <2>3. NamesGrow'
    BY <1>0, <2>1 DEF SeatKeeps, NamesGrow, counts
  <2>4. NoneUnasked'
    BY <2>1 DEF SeatKeeps, NoneUnasked
  <2> QED
    BY <2>2, <2>3, <2>4 DEF CreateInv
<1>3. CASE Operator \/ Reaper \/ TickSeats \/ Cleanup \/ Terminal \/ Gateway \/ Crashes
  <2>1. OthersKeep
    BY <1>3, OtherSteps DEF CreateInv
  <2>2. CockpitTypeOK'
    BY <2>1 DEF OthersKeep, CreateInv, CockpitTypeOK, SessionOK
  <2>3. started' \in Nat /\ started' >= started
    BY <1>0, <2>1 DEF OthersKeep
  <2>4. NamesGrow'
    BY <1>0, <2>1, <2>3 DEF OthersKeep, NamesGrow, CreateInv
  <2>5. ASSUME seat'.pc = "create", cs'.at = seat'.at, reap'.pc = "sent", ~reap'.force
        PROVE  FALSE
    <3>1. seat' = seat /\ cs'.at # 0 /\ reap' = reap
      BY <2>1, <2>5 DEF OthersKeep, CreateInv, NamesGrow
    <3>2. cs'.at = cs.at
      BY <1>0, <2>1, <2>5, <3>1 DEF OthersKeep
    <3> QED
      BY <2>5, <3>1, <3>2 DEF CreateInv, NoneUnasked
  <2> QED
    BY <2>2, <2>4, <2>5 DEF CreateInv, NoneUnasked
<1> QED
  BY <1>1, <1>2, <1>3 DEF CockpitNext

LEMMA CreateHolds == CockpitSafe => []CreateInv
<1>1. CockpitInit(CockpitMix) => CreateInv
  BY CockpitTypesInit
<1>2. CreateInv /\ [CockpitNext]_cockpitVars => CreateInv'
  BY CreateNext
<1> QED
  BY <1>1, <1>2, PTL DEF CockpitSafe

LEMMA CockpitTypesSafe == CockpitSafe => []CockpitTypeOK
<1>1. CreateInv => CockpitTypeOK
  BY DEF CreateInv
<1> QED
  BY <1>1, CreateHolds, PTL

(* The session, its seat, the cleanup and the reap keep their types, and a    *)
(* session that was stopped shows nothing (set_cockpit_sandbox_phase and      *)
(* stop_cockpit of src/store.rs).                                             *)
THEOREM CockpitTypes == CockpitSpec => []CockpitTypeOK
  BY OthersAreSafe, CockpitTypesSafe

LEMMA CreatesSafe == CockpitSafe => CreateIsAlone
<1>1. CreateInv /\ [CockpitNext]_cockpitVars
        => [SeatCreates /\ box' # box /\ cs.at = seat.at
              => reap.pc # "sent" \/ reap.force]_cockpitVars
  BY DEF CreateInv, NoneUnasked, SeatCreates
<1> QED
  BY <1>1, CreateHolds, PTL DEF CockpitSafe, CreateIsAlone

(* When the seat of the present session creates its sandbox, no delete that a *)
(* Stop asked for is still on its way (run_cockpit_seat and                   *)
(* wait_cockpit_name_free of src/supervisor.rs): the name was free when it    *)
(* looked, and a reap that looks at the Board after that finds the session.   *)
THEOREM CreatesAlone == CockpitSpec => CreateIsAlone
  BY OthersAreSafe, CreatesSafe

-------------------------------------------------------------------------------
(* Pull requests. *)

(* A card that waits for an answer has something to ask about, and what it was *)
(* marked with is merged.                                                      *)
CardOK(c, merged) ==
  /\ c \in Cards /\ c.merged \subseteq merged
  /\ c.retry => c.state = "Review" /\ c.prs # {}
  /\ c.run # "none" <=> c.state = "Running"

(* An actor that takes a pull request for merged, or all of them, is right.    *)
JobOK(j, merged, prs) ==
  /\ j \in Act
  /\ j.pc \in {"find", "mark"} => j.pr \in merged
  /\ j.pc = "done" => j.looked \subseteq merged
  /\ j.pc = "cursor" => j.saw \in 0 .. MaxReviews
  /\ j.pc \in {"fetch", "outcome"} => prs # {}

(* So is a webhook, however late it comes. *)
HookOK(h, merged) ==
  /\ h \in Hook
  /\ h.type = "merge" => h.pr \in merged
  /\ h.type = "review" => MaxReviews > 0

PullInv ==
  /\ CardOK(pcard, gh.merged) /\ gh \in Hub
  /\ act \in [Actors -> Act] /\ \A a \in Actors : JobOK(act[a], gh.merged, pcard.prs)
  /\ \A h \in hooks : HookOK(h, gh.merged)
  /\ cursor \in [PRs -> Unseeded .. MaxReviews] /\ tip \in Int
  /\ unread \subseteq PRs \X (1 .. MaxReviews) /\ pmix \in PullMix

-------------------------------------------------------------------------------
(* The least of some numbers is one of them. *)
LEMMA MinIn ==
  ASSUME NEW S \in SUBSET Nat, S # {}
  PROVE  Min(S) \in S
<1> DEFINE R == {p \in Nat \X Nat : p[1] < p[2]}
<1>1. IsWellFoundedOn(R, Nat)
  BY NatLessThanWellFounded DEF OpToRel
<1>2. \E x \in S : \A y \in S : ~(<<y, x>> \in R)
  <2> HIDE DEF R
  <2>1. S \subseteq Nat /\ S # {}
    OBVIOUS
  <2> QED
    BY <1>1, <2>1, WFMin, Zenon
<1>3. PICK x \in S : \A y \in S : ~(<<y, x>> \in R)
  BY <1>2
<1>4. \A y \in S : x <= y
  <2> TAKE y \in S
  <2>1. x \in Nat /\ y \in Nat
    OBVIOUS
  <2>2. <<y, x>> \in R <=> y < x
    BY <2>1
  <2> QED
    BY <1>3, <2>1, <2>2
<1> QED
  BY <1>4 DEF Min

LEMMA PRsMin ==
  ASSUME NEW S \in SUBSET PRs, S # {}
  PROVE  Min(S) \in PRs
  BY MinIn, PullAssumption

LEMMA UrlIsOne ==
  ASSUME pcard \in Cards, pcard.prs # {}
  PROVE  PrUrl \in PRs
  BY PRsMin DEF PrUrl, Cards

(* Where an actor only goes on, nothing depends on what it knows. *)
Plain(j) ==
  j \in Act /\ j.pc \notin {"find", "mark", "done", "cursor", "fetch", "outcome"}

LEMMA PlainOK ==
  ASSUME NEW j, NEW merged, NEW prs, Plain(j)
  PROVE  JobOK(j, merged, prs)
  BY DEF Plain, JobOK

LEMMA QuietOK ==
  Quiet \in Act /\ Quiet.pc = "idle" /\ Plain(Quiet)
<1>1. NoPR \in PRs
  BY PRsMin, PullAssumption DEF NoPR
<1> QED
  BY <1>1 DEF Quiet, Act, Plain

LEMMA AloneOK ==
  ASSUME NEW pc \in {"steer", "park", "catch", "tip", "revs"}
  PROVE  Plain(Alone(pc))
  BY QuietOK DEF Alone, Act, Plain

(* An actor's next record; the others keep theirs. *)
Turns(a, j) == act' = [act EXCEPT ![a] = j]

LEMMA OntoOK ==
  ASSUME PullInv, NEW a \in Actors,
         NEW pc \in {"mark", "steer", "revs", "back", "park", "catch", "find"}, Onto(a, pc)
  PROVE  \E j : /\ Turns(a, j) /\ j \in Act /\ j.pc = pc
                /\ pc \notin {"steer", "park", "catch"} => j.pr = act[a].pr
<1>1. act[a] \in Act
  BY DEF PullInv
<1>2. CASE pc \in {"steer", "park", "catch"}
  BY <1>2, AloneOK, QuietOK DEF Onto, Turns, Alone, Act, Plain
<1>3. CASE pc \notin {"steer", "park", "catch"}
  <2> DEFINE j == [act[a] EXCEPT !.pc = pc]
  <2>1. act' = [act EXCEPT ![a] = j]
    BY <1>3 DEF Onto
  <2>2. j \in Act /\ j.pc = pc /\ j.pr = act[a].pr
    BY <1>1 DEF Act
  <2> HIDE DEF j
  <2> QED
    BY <2>1, <2>2 DEF Turns
<1> QED
  BY <1>2, <1>3

LEMMA NextTargetOK ==
  ASSUME NEW a \in Actors, NEW left \in SUBSET PRs, NextTarget(a, left)
  PROVE  \E j : Turns(a, j) /\ Plain(j)
<1>1. CASE left = {}
  BY <1>1, AloneOK DEF NextTarget, Turns
<1>2. CASE left # {}
  <2> DEFINE j == [Quiet EXCEPT !.pc = "pull", !.pr = Min(left), !.left = left]
  <2>1. Min(left) \in PRs
    BY <1>2, PRsMin
  <2>2. Plain(j)
    BY <2>1, QuietOK DEF Act, Plain
  <2> QED
    BY <1>2, <2>2 DEF NextTarget, Turns
<1> QED
  BY <1>1, <1>2

LEMMA NextNewsOK ==
  ASSUME PullInv, NEW a \in Actors, NEW news \in SUBSET (1 .. MaxReviews),
         NextNews(a, news)
  PROVE  \E j : Turns(a, j) /\ Plain(j)
<1>1. act[a] \in Act
  BY DEF PullInv
<1>2. CASE news # {}
  <2> DEFINE j == [act[a] EXCEPT !.pc = "match", !.news = news]
  <2>1. act' = [act EXCEPT ![a] = j]
    BY <1>2 DEF NextNews, PullInv
  <2>2. Plain(j)
    BY <1>1 DEF Act, Plain
  <2> HIDE DEF j
  <2> QED
    BY <2>1, <2>2 DEF Turns
<1>3. CASE news = {} /\ a = "poll"
  BY <1>1, <1>3, NextTargetOK DEF NextNews, Act
<1>4. CASE news = {} /\ a # "poll"
  BY <1>4, QuietOK DEF NextNews, Turns
<1> QED
  BY <1>2, <1>3, <1>4

-------------------------------------------------------------------------------
(* What each step has to show: the card is right, at most one actor moved, and *)
(* GitHub unmerges nothing.                                                    *)
LEMMA Keeps ==
  ASSUME PullInv,
         CardOK(pcard', gh'.merged), gh' \in Hub,
         gh.merged \subseteq gh'.merged, pcard.prs \subseteq pcard'.prs,
         \/ act' = act
         \/ \E a \in Actors : \E j : Turns(a, j) /\ JobOK(j, gh'.merged, pcard'.prs),
         \A h \in hooks' : h \in hooks \/ HookOK(h, gh'.merged),
         cursor' \in [PRs -> Unseeded .. MaxReviews], tip' \in Int,
         unread' \subseteq PRs \X (1 .. MaxReviews), pmix' = pmix
  PROVE  PullInv'
<1>1. \A a \in Actors : JobOK(act[a], gh'.merged, pcard'.prs)
  BY DEF PullInv, JobOK
<1>2. act' \in [Actors -> Act] /\ \A a \in Actors : JobOK(act'[a], gh'.merged, pcard'.prs)
  <2>1. CASE act' = act
    BY <1>1, <2>1 DEF PullInv
  <2>2. CASE act' # act
    <3>0. PICK a \in Actors : \E j : Turns(a, j) /\ JobOK(j, gh'.merged, pcard'.prs)
      BY <2>2
    <3>1. PICK j : Turns(a, j) /\ JobOK(j, gh'.merged, pcard'.prs)
      BY <3>0
    <3>2. j \in Act
      BY <3>1 DEF JobOK
    <3> QED
      BY <1>1, <3>1, <3>2 DEF PullInv, Turns
  <2> QED
    BY <2>1, <2>2
<1>3. \A h \in hooks' : HookOK(h, gh'.merged)
  BY DEF PullInv, HookOK
<1> QED
  BY <1>2, <1>3 DEF PullInv

(* Steps that leave the card and GitHub alone. *)
LEMMA ActorKeeps ==
  ASSUME PullInv, UNCHANGED <<pcard, gh, unread, pmix>>, hooks' \subseteq hooks,
         cursor' \in [PRs -> Unseeded .. MaxReviews], tip' \in Int,
         \/ act' = act
         \/ \E a \in Actors : \E j : Turns(a, j) /\ JobOK(j, gh.merged, pcard.prs)
  PROVE  PullInv'
<1>1. CardOK(pcard', gh'.merged) /\ gh' \in Hub /\ unread' \subseteq PRs \X (1 .. MaxReviews)
  BY DEF PullInv
<1>2. gh'.merged = gh.merged /\ pcard'.prs = pcard.prs
  OBVIOUS
<1> QED
  BY <1>1, <1>2, Keeps

(* Steps of an actor that may move the card. *)
LEMMA CardKeeps ==
  ASSUME PullInv, UNCHANGED <<gh, hooks, cursor, tip, pmix>>,
         CardOK(pcard', gh.merged), pcard.prs \subseteq pcard'.prs,
         unread' \in {unread, {}},
         \/ act' = act
         \/ \E a \in Actors : \E j : Turns(a, j) /\ JobOK(j, gh.merged, pcard'.prs)
  PROVE  PullInv'
<1>1. /\ gh' \in Hub /\ unread' \subseteq PRs \X (1 .. MaxReviews)
      /\ cursor' \in [PRs -> Unseeded .. MaxReviews] /\ tip' \in Int
  BY DEF PullInv
<1>2. gh'.merged = gh.merged
  OBVIOUS
<1> QED
  BY <1>1, <1>2, Keeps

(* The moves of the card. *)
LEMMA Moves ==
  ASSUME NEW c, NEW merged, CardOK(c, merged)
  PROVE  /\ CardOK(Backlog(c), merged) /\ Backlog(c).prs = c.prs
         /\ c.run = "none" =>
              CardOK([c EXCEPT !.state = "Done", !.retry = FALSE, !.run = "none"], merged)
  BY DEF CardOK, Cards, Backlog

LEMMA BouncesOK ==
  ASSUME PullInv, Bounced
  PROVE  CardOK(pcard', gh.merged) /\ pcard'.prs = pcard.prs /\ unread' \in {unread, {}}
  BY Moves DEF PullInv, Bounced, Card

-------------------------------------------------------------------------------
(* A merge: found, marked, completed. *)
LEMMA MergeSteps ==
  ASSUME PullInv, NEW a \in Actors, Find(a) \/ MarkMerged(a) \/ Complete(a)
  PROVE  PullInv'
<1>0. /\ act[a] \in Act /\ JobOK(act[a], gh.merged, pcard.prs) /\ CardOK(pcard, gh.merged)
      /\ pcard \in Cards
  BY DEF PullInv, CardOK
<1>1. CASE Find(a)
  <2>0. /\ act[a].pc = "find" /\ UNCHANGED <<pcard, gh, hooks, cursor, tip, unread, pmix>>
        /\ cursor' \in [PRs -> Unseeded .. MaxReviews] /\ tip' \in Int
    BY <1>1 DEF Find, At, PullInv
  <2>1. PICK pc \in {"mark", "steer", "revs"} : Onto(a, pc)
    BY <1>1 DEF Find, After
  <2>2. PICK j : /\ Turns(a, j) /\ j \in Act /\ j.pc = pc
                 /\ pc \notin {"steer", "park", "catch"} => j.pr = act[a].pr
    BY <2>1, OntoOK
  <2>3. JobOK(j, gh.merged, pcard.prs)
    BY <1>0, <2>0, <2>1, <2>2 DEF JobOK
  <2> QED
    BY <2>0, <2>2, <2>3, ActorKeeps
<1>2. CASE MarkMerged(a)
  <2> DEFINE c == [pcard EXCEPT !.merged = @ \cup {act[a].pr}]
  <2>0. /\ act[a].pc = "mark" /\ UNCHANGED <<gh, hooks, cursor, tip, pmix>>
        /\ Card(c)
        /\ IF AllMerged(c) /\ InLane
            THEN act' = [act EXCEPT ![a].pc = "done", ![a].looked = c.prs]
            ELSE Onto(a, After(a))
    BY <1>2 DEF MarkMerged, At
  <2>1. act[a].pr \in gh.merged /\ act[a].pr \in PRs
    BY <1>0, <2>0 DEF JobOK, Act
  <2>2. CardOK(c, gh.merged) /\ c.prs = pcard.prs /\ c \in Cards
    BY <1>0, <2>1 DEF CardOK, Cards
  <2>3. pcard' = c /\ unread' \in {unread, {}}
    BY <2>0 DEF Card
  <2>4. \E j : Turns(a, j) /\ JobOK(j, gh.merged, pcard'.prs)
    <3>1. CASE AllMerged(c) /\ InLane
      <4> DEFINE j == [act[a] EXCEPT !.pc = "done", !.looked = c.prs]
      <4>1. act' = [act EXCEPT ![a] = j]
        BY <2>0, <3>1 DEF PullInv
      <4>2. c.prs \subseteq gh.merged /\ c.prs \subseteq PRs
        BY <2>2, <3>1 DEF AllMerged, CardOK, Cards
      <4>3. j \in Act /\ j.pc = "done" /\ j.looked = c.prs
        BY <1>0, <4>2 DEF Act
      <4> HIDE DEF j, c
      <4>4. JobOK(j, gh.merged, pcard'.prs)
        BY <4>2, <4>3 DEF JobOK
      <4> QED
        BY <4>1, <4>4 DEF Turns
    <3>2. CASE ~(AllMerged(c) /\ InLane)
      <4>1. PICK pc \in {"steer", "revs"} : Onto(a, pc)
        BY <2>0, <3>2 DEF After
      <4>2. PICK j : Turns(a, j) /\ j \in Act /\ j.pc = pc
        BY <4>1, OntoOK
      <4>3. JobOK(j, gh.merged, pcard'.prs)
        BY <4>1, <4>2 DEF JobOK
      <4> QED
        BY <4>2, <4>3
    <3> QED
      BY <3>1, <3>2
  <2> HIDE DEF c
  <2>5. CardOK(pcard', gh.merged) /\ pcard.prs \subseteq pcard'.prs
    BY <2>2, <2>3
  <2> QED
    BY <2>0, <2>3, <2>4, <2>5, CardKeeps
<1>3. CASE Complete(a)
  <2>0. /\ UNCHANGED <<gh, hooks, cursor, tip, pmix>>
        /\ act' = [act EXCEPT ![a] = IF a = "hook" THEN Alone("steer")
                                     ELSE [@ EXCEPT !.pc = "revs", !.looked = {}]]
        /\ IF pcard.state = "Done" THEN UNCHANGED <<pcard, unread>>
           ELSE Card([pcard EXCEPT !.state = "Done", !.retry = FALSE, !.run = "none"])
    BY <1>3 DEF Complete
  <2>1. CardOK(pcard', gh.merged) /\ pcard'.prs = pcard.prs /\ unread' \in {unread, {}}
    BY <1>0, <2>0 DEF CardOK, Cards, Card
  <2>2. \E j : Turns(a, j) /\ Plain(j)
    <3>1. CASE a = "hook"
      BY <2>0, <3>1, AloneOK DEF Turns
    <3>2. CASE a # "hook"
      <4> DEFINE j == [act[a] EXCEPT !.pc = "revs", !.looked = {}]
      <4>1. act' = [act EXCEPT ![a] = j]
        BY <2>0, <3>2
      <4>2. Plain(j)
        BY <1>0 DEF Act, Plain
      <4> HIDE DEF j
      <4> QED
        BY <4>1, <4>2 DEF Turns
    <3> QED
      BY <3>1, <3>2
  <2> QED
    BY <2>0, <2>1, <2>2, PlainOK, CardKeeps
<1> QED
  BY <1>1, <1>2, <1>3

(* A review: matched, and the card sent back. *)
LEMMA ReviewSteps ==
  ASSUME PullInv, NEW a \in Actors, Match(a) \/ Back(a)
  PROVE  PullInv'
<1>0. act[a] \in Act /\ CardOK(pcard, gh.merged) /\ pcard \in Cards
  BY DEF PullInv, CardOK
<1>1. act[a].news \ {Min(act[a].news)} \in SUBSET (1 .. MaxReviews)
  BY <1>0 DEF Act
<1>2. CASE Match(a)
  <2>0. /\ UNCHANGED <<pcard, gh, hooks, cursor, tip, unread, pmix>>
        /\ cursor' \in [PRs -> Unseeded .. MaxReviews] /\ tip' \in Int
        /\ Onto(a, "back") \/ NextNews(a, act[a].news \ {Min(act[a].news)})
    BY <1>2 DEF Match, PullInv
  <2>1. CASE Onto(a, "back")
    <3>1. PICK j : Turns(a, j) /\ j \in Act /\ j.pc = "back"
      BY <2>1, OntoOK
    <3>2. Plain(j)
      BY <3>1 DEF Plain
    <3> QED
      BY <2>0, <3>1, <3>2, PlainOK, ActorKeeps
  <2>2. CASE NextNews(a, act[a].news \ {Min(act[a].news)})
    <3>1. \E j : Turns(a, j) /\ Plain(j)
      BY <1>1, <2>2, NextNewsOK
    <3> QED
      BY <2>0, <3>1, PlainOK, ActorKeeps
  <2> QED
    BY <2>0, <2>1, <2>2
<1>3. CASE Back(a)
  <2>1. \E j : Turns(a, j) /\ Plain(j)
    BY <1>1, <1>3, NextNewsOK DEF Back
  <2>2. CardOK(pcard', gh.merged) /\ pcard'.prs = pcard.prs /\ unread' \in {unread, {}}
    BY <1>0, <1>3, BouncesOK DEF Back
  <2> QED
    BY <1>3, <2>1, <2>2, PlainOK, CardKeeps DEF Back
<1> QED
  BY <1>2, <1>3

-------------------------------------------------------------------------------
(* Main moved: the card is steered and parked, asked about, and the answer      *)
(* recorded.                                                                    *)
LEMMA AsksOK ==
  ASSUME PullInv, NEW a \in Actors, Asks(a), pcard.prs # {}
  PROVE  \E j : Turns(a, j) /\ JobOK(j, gh.merged, pcard.prs)
<1> DEFINE j == [Quiet EXCEPT !.pc = "fetch", !.pr = PrUrl, !.retry = pcard.retry]
<1>1. act' = [act EXCEPT ![a] = j]
  BY DEF Asks
<1>2. PrUrl \in PRs /\ pcard.retry \in BOOLEAN
  <2>1. pcard \in Cards
    BY DEF PullInv, CardOK
  <2> QED
    BY <2>1, UrlIsOne DEF Cards
<1>3. j \in Act /\ j.pc = "fetch"
  BY <1>2, QuietOK DEF Act
<1> HIDE DEF j
<1> QED
  BY <1>1, <1>3 DEF Turns, JobOK

LEMMA SteerSteps ==
  ASSUME PullInv, NEW a \in Actors, Steer(a) \/ ParkLive(a)
  PROVE  PullInv'
<1>1. \A pc \in {"park", "catch"} : Onto(a, pc) => \E j : Turns(a, j) /\ Plain(j)
  BY AloneOK DEF Onto, Turns
<1>2. CASE Steer(a)
  <2>1. \E j : Turns(a, j) /\ Plain(j)
    BY <1>1, <1>2 DEF Steer
  <2>2. /\ UNCHANGED <<pcard, gh, hooks, cursor, tip, unread, pmix>>
        /\ cursor' \in [PRs -> Unseeded .. MaxReviews] /\ tip' \in Int
    BY <1>2 DEF Steer, PullInv
  <2> QED
    BY <2>1, <2>2, PlainOK, ActorKeeps
<1>3. CASE ParkLive(a)
  <2>1. \E j : Turns(a, j) /\ Plain(j)
    BY <1>1, <1>3 DEF ParkLive
  <2>2. CardOK(pcard', gh.merged) /\ pcard'.prs = pcard.prs /\ unread' \in {unread, {}}
    <3>1. CASE Bounced
      BY <3>1, BouncesOK
    <3>2. CASE UNCHANGED <<pcard, unread>>
      BY <3>2 DEF PullInv
    <3> QED
      BY <1>3, <3>1, <3>2 DEF ParkLive
  <2> QED
    BY <1>3, <2>1, <2>2, PlainOK, CardKeeps DEF ParkLive
<1> QED
  BY <1>2, <1>3

LEMMA CatchUpSteps ==
  ASSUME PullInv, NEW a \in Actors,
         CatchesUp(a) \/ Fetch(a) \/ (a = "sweep" /\ Sweep)
  PROVE  PullInv'
<1>0. /\ act[a] \in Act /\ JobOK(act[a], gh.merged, pcard.prs) /\ CardOK(pcard, gh.merged)
  BY DEF PullInv
<1>1. /\ UNCHANGED <<pcard, gh, hooks, cursor, tip, unread, pmix>>
      /\ cursor' \in [PRs -> Unseeded .. MaxReviews] /\ tip' \in Int
  BY DEF CatchesUp, Fetch, Sweep, PullInv
<1>2. \E j : Turns(a, j) /\ JobOK(j, gh.merged, pcard.prs)
  <2>1. CASE Asks(a) /\ pcard.prs # {}
    BY <2>1, AsksOK
  <2>2. CASE act' = [act EXCEPT ![a] = Quiet]
    BY <2>2, QuietOK, PlainOK DEF Turns
  <2>3. CASE Fetch(a)
    <3> DEFINE j == [act[a] EXCEPT !.pc = "outcome", !.answer = Mergeable(act[a].pr)]
    <3>1. act' = [act EXCEPT ![a] = j] /\ act[a].pc = "fetch"
      BY <2>3 DEF Fetch, At, PullInv
    <3>2. Mergeable(act[a].pr) \in {"clean", "conflict", "unknown"}
      BY DEF Mergeable
    <3>3. j \in Act /\ j.pc = "outcome"
      BY <1>0, <3>2 DEF Act
    <3>4. pcard.prs # {}
      BY <1>0, <3>1 DEF JobOK
    <3> HIDE DEF j
    <3> QED
      BY <3>1, <3>3, <3>4 DEF Turns, JobOK
  <2>4. CASE a = "sweep" /\ Sweep
    BY <1>0, <2>1, <2>4 DEF Sweep, CardOK
  <2> QED
    BY <2>1, <2>2, <2>3, <2>4 DEF CatchesUp
<1> QED
  BY <1>1, <1>2, ActorKeeps

LEMMA OutcomeStep ==
  ASSUME PullInv, NEW a \in Actors, Outcome(a)
  PROVE  PullInv'
<1>0. /\ act[a] \in Act /\ JobOK(act[a], gh.merged, pcard.prs) /\ CardOK(pcard, gh.merged)
      /\ act[a].pc = "outcome"
  BY DEF PullInv, Outcome, At
<1>1. \E j : Turns(a, j) /\ Plain(j)
  BY QuietOK DEF Outcome, Turns
<1>2. pcard.prs # {}
  BY <1>0 DEF JobOK
<1>3. CardOK(pcard', gh.merged) /\ pcard'.prs = pcard.prs /\ unread' \in {unread, {}}
  <2>1. CASE Bounced
    BY <2>1, BouncesOK
  <2>2. CASE ~Bounced
    <3>1. /\ unread' = unread
          /\ \/ pcard' = [pcard EXCEPT !.retry = FALSE]
             \/ InLane /\ pcard' = [pcard EXCEPT !.retry = TRUE]
             \/ pcard' = pcard
      BY <2>2 DEF Outcome
    <3> QED
      BY <1>0, <1>2, <3>1 DEF CardOK, Cards, InLane
  <2> QED
    BY <2>1, <2>2
<1> QED
  BY <1>1, <1>3, PlainOK, CardKeeps DEF Outcome

-------------------------------------------------------------------------------
(* The poll. *)
LEMMA PollSteps ==
  ASSUME PullInv, Polls
  PROVE  PullInv'
<1> DEFINE me == act["poll"]
<1>0. /\ "poll" \in Actors /\ me \in Act /\ JobOK(me, gh.merged, pcard.prs)
      /\ CardOK(pcard, gh.merged) /\ gh \in Hub /\ act \in [Actors -> Act]
      /\ cursor \in [PRs -> Unseeded .. MaxReviews] /\ tip \in Int /\ MaxReviews \in Nat
  BY PullAssumption DEF PullInv, Actors
<1>1. UNCHANGED <<pcard, gh, hooks, unread, pmix>>
  BY DEF Polls, PollTick, Pull, Reviews, Cursor, Tip, SetTip
<1>2. CASE PollTick
  <2>1. pcard.prs \in SUBSET PRs
    BY <1>0 DEF CardOK, Cards
  <2>2. \E j : Turns("poll", j) /\ Plain(j)
    BY <1>0, <1>2, <2>1, NextTargetOK DEF PollTick
  <2> QED
    BY <1>0, <1>1, <1>2, <2>2, PlainOK, ActorKeeps DEF PollTick
<1>3. CASE Pull
  <2>1. PICK pc \in {"find", "revs"} :
          Onto("poll", pc) /\ (pc = "find" => me.pr \in gh.merged)
    BY <1>3 DEF Pull
  <2>2. PICK j : Turns("poll", j) /\ j \in Act /\ j.pc = pc /\ j.pr = me.pr
    BY <1>0, <2>1, OntoOK
  <2>3. JobOK(j, gh.merged, pcard.prs)
    BY <2>1, <2>2 DEF JobOK
  <2> QED
    BY <1>0, <1>1, <1>3, <2>2, <2>3, ActorKeeps DEF Pull
<1>4. CASE Reviews
  <2> DEFINE j == [me EXCEPT !.pc = "cursor", !.saw = gh.posted[me.pr]]
  <2>1. act' = [act EXCEPT !["poll"] = j]
    BY <1>0, <1>4 DEF Reviews
  <2>2. gh.posted[me.pr] \in 0 .. MaxReviews
    <3>1. me.pr \in PRs /\ gh.posted \in [PRs -> 0 .. MaxReviews]
      BY <1>0 DEF Act, Hub
    <3> QED
      BY <3>1
  <2>3. gh.posted[me.pr] \in Nat
    BY <1>0, <2>2
  <2>4. j \in Act /\ j.pc = "cursor" /\ j.saw \in 0 .. MaxReviews
    BY <1>0, <2>2, <2>3 DEF Act
  <2> HIDE DEF j
  <2>5. JobOK(j, gh.merged, pcard.prs)
    BY <2>4 DEF JobOK
  <2> QED
    BY <1>0, <1>1, <1>4, <2>1, <2>5, ActorKeeps DEF Reviews, Turns
<1>5. CASE Cursor
  <2> DEFINE p == me.pr
             news == IF cursor[p] = Unseeded THEN {} ELSE FirstNew(cursor[p]) .. me.saw
  <2>1. cursor' = [cursor EXCEPT ![p] = me.saw] /\ NextNews("poll", news) /\ me.pc = "cursor"
    BY <1>5 DEF Cursor, At
  <2>2. p \in PRs /\ me.saw \in 0 .. MaxReviews
    BY <1>0, <2>1 DEF JobOK, Act
  <2>3. cursor[p] \in Unseeded .. MaxReviews
    BY <1>0, <2>2
  <2>4. cursor' \in [PRs -> Unseeded .. MaxReviews]
    <3>1. me.saw \in Unseeded .. MaxReviews
      BY <1>0, <2>2 DEF Unseeded
    <3> HIDE DEF me, p
    <3> QED
      BY <1>0, <2>1, <2>2, <3>1
  <2>5. news \in SUBSET (1 .. MaxReviews)
    BY <1>0, <2>2, <2>3 DEF FirstNew, Unseeded
  <2> HIDE DEF news
  <2>6. \E j : Turns("poll", j) /\ Plain(j)
    BY <1>0, <2>1, <2>5, NextNewsOK
  <2>7. tip' \in Int /\ hooks' \subseteq hooks
    BY <1>0, <1>5 DEF Cursor
  <2> QED
    BY <1>0, <1>1, <2>4, <2>6, <2>7, PlainOK, ActorKeeps
<1>6. CASE Tip
  <2> DEFINE j == [me EXCEPT !.pc = "settip", !.saw = gh.main]
  <2>1. act' = [act EXCEPT !["poll"] = j]
    BY <1>0, <1>6 DEF Tip
  <2>2. gh.main \in Nat
    BY <1>0 DEF Hub
  <2>3. Plain(j)
    BY <1>0, <2>2 DEF Act, Plain
  <2> HIDE DEF j
  <2> QED
    BY <1>0, <1>1, <1>6, <2>1, <2>3, PlainOK, ActorKeeps DEF Tip, Turns
<1>7. CASE SetTip
  <2>1. tip' \in Int
    BY <1>0, <1>7 DEF SetTip, Act
  <2>2. \E j : Turns("poll", j) /\ Plain(j)
    <3>1. CASE act' = [act EXCEPT !["poll"] = Quiet]
      BY <3>1, QuietOK DEF Turns
    <3>2. CASE Onto("poll", "steer")
      BY <3>2, AloneOK DEF Onto, Turns
    <3> QED
      BY <1>7, <3>1, <3>2 DEF SetTip
  <2>3. cursor' = cursor /\ hooks' \subseteq hooks
    BY <1>7 DEF SetTip
  <2> QED
    BY <1>0, <1>1, <2>1, <2>2, <2>3, PlainOK, ActorKeeps
<1> QED
  BY <1>2, <1>3, <1>4, <1>5, <1>6, <1>7 DEF Polls

-------------------------------------------------------------------------------
(* Webhooks come, or do not. *)
LEMMA HookSteps ==
  ASSUME PullInv, NEW h \in hooks, Receive(h) \/ Lose(h)
  PROVE  PullInv'
<1>0. /\ HookOK(h, gh.merged) /\ "hook" \in Actors /\ MaxReviews \in Nat
      /\ cursor \in [PRs -> Unseeded .. MaxReviews] /\ tip \in Int
  BY PullAssumption DEF PullInv, Actors
<1>1. /\ UNCHANGED <<pcard, gh, unread, pmix>> /\ hooks' \subseteq hooks
      /\ UNCHANGED <<cursor, tip>>
  BY DEF Receive, Lose
<1>2. CASE Receive(h)
  <2> DEFINE pc == CASE h.type = "merge" -> "find" [] h.type = "push" -> "steer"
                     [] h.type = "review" -> "match"
             news == IF h.type = "review" THEN {1} ELSE {}
             j == [Quiet EXCEPT !.pr = h.pr, !.news = news, !.pc = pc]
  <2>1. act' = [act EXCEPT !["hook"] = j]
    BY <1>2 DEF Receive
  <2>2. h.pr \in PRs /\ h.type \in {"merge", "push", "review"}
    BY <1>0 DEF HookOK, Hook
  <2>3. /\ pc \in {"find", "steer", "match"}
        /\ pc = "find" => h.pr \in gh.merged
    BY <1>0, <2>2 DEF HookOK
  <2>4. news \in SUBSET (1 .. MaxReviews)
    BY <1>0, <2>2 DEF HookOK
  <2> HIDE DEF pc, news
  <2>5. j \in Act /\ j.pc = pc /\ j.pr = h.pr
    BY <2>2, <2>3, <2>4, QuietOK DEF Act
  <2> HIDE DEF j
  <2>6. JobOK(j, gh.merged, pcard.prs)
    BY <2>3, <2>5 DEF JobOK
  <2> QED
    BY <1>0, <1>1, <2>1, <2>6, ActorKeeps DEF Turns
<1>3. CASE Lose(h)
  BY <1>0, <1>1, <1>3, ActorKeeps DEF Lose
<1> QED
  BY <1>2, <1>3

(* GitHub merges, moves main, learns, and posts reviews. *)
LEMMA MovedOK ==
  ASSUME PullInv, NEW p, NEW merged \in SUBSET PRs, gh.merged \subseteq merged, Moved(p, merged)
  PROVE  gh' \in Hub /\ gh'.merged = merged
<1>0. gh \in Hub /\ pcard.prs \subseteq PRs /\ pmix \in PullMix
  BY DEF PullInv, CardOK, Cards
<1>1. PICK more \in SUBSET PRs :
        gh' = [gh EXCEPT !.merged = merged, !.main = @ + 1, !.known = ~pmix.clashes,
                         !.clash = (@ \cup more) \ merged]
  BY <1>0 DEF Moved
<1>2. (gh.clash \cup more) \ merged \in SUBSET PRs /\ gh.main + 1 \in Nat
      /\ (~pmix.clashes) \in BOOLEAN
  BY <1>0 DEF Hub, PullMix
<1> QED
  BY <1>0, <1>1, <1>2 DEF Hub

LEMMA HubSteps ==
  ASSUME PullInv, GitHub
  PROVE  PullInv'
<1>0. /\ CardOK(pcard, gh.merged) /\ gh \in Hub /\ pmix \in PullMix /\ gh.merged \subseteq PRs
      /\ cursor \in [PRs -> Unseeded .. MaxReviews] /\ tip \in Int /\ MaxReviews \in Nat
      /\ unread \subseteq PRs \X (1 .. MaxReviews) /\ NoPR \in PRs
  BY PRsMin, PullAssumption DEF PullInv, Hub, NoPR
<1>1. UNCHANGED <<pcard, act, cursor, tip, pmix>>
  BY DEF GitHub, Knows, PushMain, Merge, Post
<1>2. ASSUME gh' \in Hub, gh.merged \subseteq gh'.merged,
             \A h \in hooks' : h \in hooks \/ HookOK(h, gh'.merged),
             unread' \subseteq PRs \X (1 .. MaxReviews)
      PROVE  PullInv'
  <2>1. CardOK(pcard', gh'.merged) /\ pcard.prs \subseteq pcard'.prs
    BY <1>0, <1>1, <1>2 DEF CardOK
  <2> QED
    BY <1>0, <1>1, <1>2, <2>1, Keeps
<1>3. \A merged : HookOK(Advance, merged)
  BY <1>0 DEF HookOK, Hook, Advance, News
<1>4. CASE Knows
  <2>1. gh' \in Hub /\ gh'.merged = gh.merged /\ hooks' = hooks /\ unread' = unread
    BY <1>0, <1>4 DEF Knows, Hub
  <2> QED
    BY <1>0, <1>2, <2>1
<1>5. CASE PushMain
  <2>1. gh' \in Hub /\ gh'.merged = gh.merged
    BY <1>0, <1>5, MovedOK DEF PushMain
  <2>2. \A h \in hooks' : h \in hooks \/ HookOK(h, gh'.merged)
    BY <1>3, <1>5 DEF PushMain, Sends
  <2>3. unread' = unread
    BY <1>5 DEF PushMain
  <2> QED
    BY <1>0, <1>2, <2>1, <2>2, <2>3
<1>6. ASSUME NEW p \in PRs, Merge(p) PROVE PullInv'
  <2>0. gh.merged \cup {p} \in SUBSET PRs /\ gh.merged \subseteq gh.merged \cup {p}
    BY <1>0
  <2>1. gh' \in Hub /\ gh'.merged = gh.merged \cup {p}
    BY <1>6, <2>0, MovedOK DEF Merge
  <2>2. HookOK(News("merge", p), gh'.merged)
    BY <2>1 DEF HookOK, Hook, News
  <2>3. \A h \in hooks' : h \in hooks \/ HookOK(h, gh'.merged)
    BY <1>3, <1>6, <2>2 DEF Merge, Sends
  <2>4. unread' = unread
    BY <1>6 DEF Merge
  <2> QED
    BY <1>0, <1>2, <2>1, <2>3, <2>4
<1>7. ASSUME NEW p \in PRs, Post(p) PROVE PullInv'
  <2>0. /\ gh.posted \in [PRs -> 0 .. MaxReviews] /\ pmix.reviews \in 0 .. MaxReviews
        /\ gh.posted[p] < pmix.reviews /\ gh' = [gh EXCEPT !.posted[p] = @ + 1]
    BY <1>0, <1>7 DEF Post, Hub, PullMix
  <2>1. gh.posted[p] + 1 \in 1 .. MaxReviews /\ gh.posted[p] + 1 \in 0 .. MaxReviews
        /\ MaxReviews > 0
    <3>1. gh.posted[p] \in 0 .. MaxReviews
      BY <2>0
    <3> QED
      BY <1>0, <2>0, <3>1
  <2>2. [gh.posted EXCEPT ![p] = gh.posted[p] + 1] \in [PRs -> 0 .. MaxReviews]
    BY <2>0, <2>1
  <2>3. gh' = [gh EXCEPT !.posted = [gh.posted EXCEPT ![p] = gh.posted[p] + 1]]
    BY <1>0, <2>0 DEF Hub
  <2>4. gh' \in Hub /\ gh'.merged = gh.merged
    BY <1>0, <2>2, <2>3 DEF Hub
  <2>5. HookOK(News("review", p), gh'.merged)
    BY <2>1 DEF HookOK, Hook, News
  <2>6. \A h \in hooks' : h \in hooks \/ HookOK(h, gh'.merged)
    BY <1>7, <2>5 DEF Post, Sends
  <2>7. unread' \subseteq PRs \X (1 .. MaxReviews)
    BY <1>0, <1>7, <2>1 DEF Post
  <2> QED
    BY <1>2, <2>4, <2>6, <2>7
<1> QED
  BY <1>4, <1>5, <1>6, <1>7 DEF GitHub

-------------------------------------------------------------------------------
(* The run of the card, and the dispatcher. *)
LEMMA RunSteps ==
  ASSUME PullInv, Run
  PROVE  PullInv'
<1>0. /\ CardOK(pcard, gh.merged) /\ gh \in Hub /\ pmix \in PullMix
      /\ cursor \in [PRs -> Unseeded .. MaxReviews] /\ tip \in Int
      /\ unread \subseteq PRs \X (1 .. MaxReviews)
  BY DEF PullInv
<1>1. UNCHANGED <<hooks, act, cursor, tip, pmix>>
  BY DEF Run, Rebase, FinishLooks, Report, Dispatch, OpenPR
<1>2. gh' \in Hub /\ gh'.merged = gh.merged
  BY <1>0 DEF Run, Rebase, FinishLooks, Report, Dispatch, OpenPR, Hub
<1>3. ASSUME CardOK(pcard', gh.merged), pcard.prs \subseteq pcard'.prs, unread' \in {unread, {}}
      PROVE  PullInv'
  <2>1. unread' \subseteq PRs \X (1 .. MaxReviews)
    BY <1>0, <1>3
  <2> QED
    BY <1>0, <1>1, <1>2, <1>3, <2>1, Keeps
<1>4. CASE Bounced
  BY <1>3, <1>4, BouncesOK
<1>5. CASE Rebase \/ (FinishLooks /\ ~Bounced)
  <2>1. /\ pcard.run \in {"work", "rebased"} /\ unread' = unread
        /\ \E r \in {"rebased", "looked"} : pcard' = [pcard EXCEPT !.run = r]
    BY <1>5 DEF Rebase, FinishLooks
  <2>2. CardOK(pcard', gh.merged) /\ pcard'.prs = pcard.prs
    BY <1>0, <2>1 DEF CardOK, Cards
  <2> QED
    BY <1>3, <2>1, <2>2
<1>6. CASE Report
  <2>1. /\ pcard.run = "looked" /\ unread' = unread
        /\ pcard' = [pcard EXCEPT !.state = "Review", !.run = "none"]
    BY <1>6 DEF Report, Card
  <2>2. CardOK(pcard', gh.merged) /\ pcard'.prs = pcard.prs
    BY <1>0, <2>1 DEF CardOK, Cards
  <2> QED
    BY <1>3, <2>1, <2>2
<1>7. CASE Dispatch
  <2>1. /\ pcard.state = "Backlog" /\ unread' = unread
        /\ pcard' = [pcard EXCEPT !.state = "Running", !.run = "work", !.runs = @ + 1]
    BY <1>7 DEF Dispatch
  <2>2. pcard.runs + 1 \in Nat
    BY <1>0 DEF CardOK, Cards
  <2>3. CardOK(pcard', gh.merged) /\ pcard'.prs = pcard.prs
    BY <1>0, <2>1, <2>2 DEF CardOK, Cards
  <2> QED
    BY <1>3, <2>1, <2>3
<1>8. ASSUME NEW p \in PRs, OpenPR(p) PROVE PullInv'
  <2>1. /\ pcard.run = "work" /\ unread' = unread
        /\ pcard' = [pcard EXCEPT !.prs = @ \cup {p}]
    BY <1>8 DEF OpenPR
  <2>2. CardOK(pcard', gh.merged) /\ pcard.prs \subseteq pcard'.prs
    BY <1>0, <2>1 DEF CardOK, Cards
  <2> QED
    BY <1>3, <2>1, <2>2
<1> QED
  BY <1>4, <1>5, <1>6, <1>7, <1>8 DEF Run

-------------------------------------------------------------------------------
LEMMA PullInitInv ==
  ASSUME PullInit(PullMix)
  PROVE  PullInv
<1>0. pmix \in PullMix /\ MaxReviews \in Nat
  BY PullAssumption DEF PullInit
<1>1. CardOK(pcard, gh.merged) /\ gh \in Hub
  BY <1>0 DEF PullInit, CardOK, Cards, Hub
<1>2. act \in [Actors -> Act] /\ \A a \in Actors : JobOK(act[a], gh.merged, pcard.prs)
  BY QuietOK, PlainOK DEF PullInit
<1>3. cursor \in [PRs -> Unseeded .. MaxReviews] /\ tip \in Int
  BY <1>0 DEF PullInit, Unseeded
<1> QED
  BY <1>0, <1>1, <1>2, <1>3 DEF PullInit, PullInv

LEMMA PullStepInv ==
  ASSUME PullInv, [PullNext]_pullVars
  PROVE  PullInv'
<1>1. CASE UNCHANGED pullVars
  BY <1>1 DEF PullInv, pullVars
<1>2. ASSUME NEW a \in Actors, Handles(a) PROVE PullInv'
  BY <1>2, MergeSteps, ReviewSteps, SteerSteps, CatchUpSteps, OutcomeStep DEF Handles
<1>3. CASE Sweep
  <2>1. "sweep" \in Actors
    BY DEF Actors
  <2> QED
    BY <1>3, <2>1, CatchUpSteps
<1> QED
  BY <1>1, <1>2, <1>3, PollSteps, HubSteps, RunSteps, HookSteps DEF PullNext

LEMMA PullTypesSafe == PullSafe => []PullTypeOK
<1>1. PullInit(PullMix) => PullInv
  BY PullInitInv
<1>2. PullInv /\ [PullNext]_pullVars => PullInv'
  BY PullStepInv
<1>3. PullInv => PullTypeOK
  BY DEF PullInv, PullTypeOK, CardOK, HookOK, InLane
<1> QED
  BY <1>1, <1>2, <1>3, PTL DEF PullSafe

LEMMA DoneSafe == PullSafe => DoneIsMerged
<1>1. PullInit(PullMix) => PullInv
  BY PullInitInv
<1>2. PullInv /\ [PullNext]_pullVars => PullInv'
  BY PullStepInv
<1>3. ASSUME PullInv, NEW a \in Actors, Complete(a)
      PROVE  act[a].looked \subseteq gh.merged
  BY <1>3 DEF PullInv, JobOK, Complete, At
<1>4. PullInv /\ [PullNext]_pullVars
        => [\A a \in Actors : Complete(a) /\ pcard' # pcard
                                => act[a].looked \subseteq gh.merged]_pullVars
  BY <1>3
<1> QED
  BY <1>1, <1>2, <1>4, PTL DEF PullSafe, DoneIsMerged

(* Every state reached is well typed, an asked-for retry waits in Review, and  *)
(* only a card at work has a run.                                              *)
THEOREM PullTypes == PullSpec => []PullTypeOK
  BY OthersAreSafe, PullTypesSafe

(* A card is closed only for pull requests that GitHub has merged, all those   *)
(* that were listed when it was decided: whatever order webhooks and polls     *)
(* bring the merges in, and whatever the card went through since.              *)
THEOREM DoneMerged == PullSpec => DoneIsMerged
  BY OthersAreSafe, DoneSafe

-------------------------------------------------------------------------------
(* The three together, as one run checks them: each behaviour moves one of     *)
(* them and leaves the others as they began.                                   *)

LEMMA StartsEach == Init => SyncInit(SyncMix) /\ CockpitInit(CockpitMix) /\ PullInit(PullMix)
<1> SUFFICES ASSUME Init
             PROVE  SyncInit(SyncMix) /\ CockpitInit(CockpitMix) /\ PullInit(PullMix)
  OBVIOUS
<1>1. SyncMixes \subseteq SyncMix /\ CockpitMixes \subseteq CockpitMix /\ PullMixes \subseteq PullMix
  BY SyncAssumption, CockpitAssumption, PullAssumption
<1>2. SyncInit(SyncMix)
  <2>1. PICK m : m = IF part = "sync" THEN SyncMixes ELSE {Still}
    OBVIOUS
  <2>2. m \subseteq SyncMix /\ SyncInit(m)
    BY <1>1, <2>1, IdleAssumption DEF Init
  <2> QED
    BY <2>2 DEF SyncInit
<1>3. CockpitInit(CockpitMix)
  <2>1. PICK m : m = IF part = "cockpit" THEN CockpitMixes ELSE {Unused}
    OBVIOUS
  <2>2. m \subseteq CockpitMix /\ CockpitInit(m)
    BY <1>1, <2>1, IdleAssumption DEF Init
  <2> QED
    BY <2>2 DEF CockpitInit
<1>4. PullInit(PullMix)
  <2>1. PICK m : m = IF part = "pulls" THEN PullMixes ELSE {Deaf}
    OBVIOUS
  <2>2. m \subseteq PullMix /\ PullInit(m)
    BY <1>1, <2>1, IdleAssumption DEF Init
  <2> QED
    BY <2>2 DEF PullInit
<1> QED
  BY <1>2, <1>3, <1>4

LEMMA StepsEach ==
  [Next]_vars => [SyncNext]_syncVars /\ [CockpitNext]_cockpitVars /\ [PullNext]_pullVars
<1> SUFFICES ASSUME [Next]_vars
             PROVE  [SyncNext]_syncVars /\ [CockpitNext]_cockpitVars /\ [PullNext]_pullVars
  OBVIOUS
<1>1. CASE UNCHANGED vars
  BY <1>1 DEF vars
<1>2. CASE SyncSteps
  <2>1. UNCHANGED cockpitVars /\ UNCHANGED pullVars
    BY <1>2 DEF SyncSteps, OfSync
  <2>2. SyncNext
    BY <1>2 DEF SyncSteps, SyncNext, Verbs, Flush, Hear, Load
  <2> QED
    BY <2>1, <2>2
<1>3. CASE CockpitSteps
  <2>1. UNCHANGED syncVars /\ UNCHANGED pullVars
    BY <1>3 DEF CockpitSteps, OfCockpit
  <2>2. CockpitNext
    BY <1>3 DEF CockpitSteps, CockpitNext, Operator, Reaper, Seat, Cleanup, Terminal, Gateway
  <2> QED
    BY <2>1, <2>2
<1>4. CASE PullSteps
  <2>1. UNCHANGED syncVars /\ UNCHANGED cockpitVars
    BY <1>4 DEF PullSteps, OfPulls
  <2>2. PullNext
    BY <1>4 DEF PullSteps, PullNext, Handles, Polls, GitHub, Run
  <2> QED
    BY <2>1, <2>2
<1> QED
  BY <1>1, <1>2, <1>3, <1>4 DEF Next

LEMMA EachIsSafe == Spec => SyncSafe /\ CockpitSafe /\ PullSafe
  BY StartsEach, StepsEach, PTL DEF Spec, SyncSafe, CockpitSafe, PullSafe

(* Every state of the three services together is well typed. *)
THEOREM ServiceTypes == Spec => []TypeOK
<1>1. SyncTypeOK /\ CockpitTypeOK /\ PullTypeOK => TypeOK
  BY DEF TypeOK
<1> QED
  BY <1>1, EachIsSafe, TypesSafe, CockpitTypesSafe, PullTypesSafe, PTL

(* What the run checks of them together holds for every value of its constants. *)
THEOREM ServicesKeep ==
  Spec => /\ []ExitSavesFinished /\ CreateIsAlone /\ DoneIsMerged
          /\ ([][~FarBehind]_syncVars => NoSilentGap)
  BY EachIsSafe, ExitSafe, CreatesSafe, DoneSafe, SkipsNothing

===============================================================================

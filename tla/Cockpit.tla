------------------------------- MODULE Cockpit -------------------------------
(***************************************************************************)
(* The durable cockpit (src/store.rs, src/supervisor.rs,                   *)
(* src/cockpit_attach.rs, src/cockpit_mcp_tunnel.rs): one session on the   *)
(* Board, one sandbox at the gateway under one name, and the supervisor's  *)
(* seat that makes the second follow the first.                            *)
(*                                                                         *)
(* Stop and Start are quick, the gateway is slow: a seat, its cleanup and  *)
(* a reap may all belong to a session that is gone.  A seat knows its      *)
(* session by created_at; the cleanup and the reaps only ask whether there *)
(* is a session.                                                           *)
(*                                                                         *)
(* The sandbox has its default name; environments set over the API, and    *)
(* credentials put in the box, which change nothing here, are left out.    *)
(***************************************************************************)
EXTENDS Integers, FiniteSets

CONSTANTS
  MaxStarts,     \* bound: sessions created
  CockpitMixes   \* what happens: each behaviour is one of these

(* bounds: starts, restarts of the process, faults, parks; attach: terminals open *)
CockpitMix == [starts: 1 .. MaxStarts, crashes: Nat, faults: Nat, parks: Nat, attach: BOOLEAN]

(* How many sessions there may be is a number, and the mixes are mixes. *)
ASSUME CockpitAssumption == MaxStarts \in Nat /\ CockpitMixes \subseteq CockpitMix

VARIABLES
  cs,       \* BoardState.cockpit_session; at is its created_at, 0 when there is none
  seat,     \* the run_cockpit_seat under way, and the `supervising` flag: pc # "off"
  fin,      \* finalize_cockpit of a seat that released the flag
  reap,     \* cockpit_delete_inflight, and the task that holds it
  box,      \* the sandbox at the gateway
  relay,    \* the MCP relay (tunnel_slot) is up
  term,     \* a terminal: "off", "gate" passed, "on"
  started, parked, faulted, crashed,  \* counts, for the bounds
  cmix      \* the mix of this behaviour

cockpitVars == <<cs, seat, fin, reap, box, relay, term, started, parked, faulted, crashed, cmix>>
counts == <<started, parked, faulted, crashed, cmix>>

Chats == {"none", "here", "lost"}          \* minted in the sandbox there is, or in an earlier one
Phases == {"idle", "starting", "waiting", "provisioning", "ready", "error"}
Sessions == [at: 0 .. MaxStarts, status: {"running", "parked"}, env: BOOLEAN,
             chat: Chats, phase: Phases]
NoSession == [at |-> 0, status |-> "running", env |-> FALSE, chat |-> "none", phase |-> "idle"]
SeatPc == {"off", "start", "look", "probe", "free", "create", "making", "publish",
           "ready", "relay", "arm", "hold"}
Seats == [pc: SeatPc, at: 0 .. MaxStarts, kicked: BOOLEAN]
NoSeat == [pc |-> "off", at |-> 0, kicked |-> FALSE]
Whys == {"stopped", "parked", "superseded", "unusable", "failed"}
Fins == [pc: {"off", "check", "relay", "last"}, why: Whys]
NoFin == [pc |-> "off", why |-> "superseded"]
Reaps == [pc: {"off", "queued", "sent"}, force: BOOLEAN]
NoReap == [pc |-> "off", force |-> FALSE]
Boxes == {"none", "starting", "up", "dead", "going"}

CockpitInit(mixes) ==
  /\ cs = NoSession /\ seat = NoSeat /\ fin = NoFin /\ reap = NoReap
  /\ box = "none" /\ relay = FALSE /\ term = "off"
  /\ started = 0 /\ parked = 0 /\ faulted = 0 /\ crashed = 0 /\ cmix \in mixes

Wanted == cs.at # 0                        \* should_keep_cockpit_sandbox
Listed == box # "none"                     \* list_cockpit

-------------------------------------------------------------------------------
(* The Board's session, at the operator's hand.                                *)

Start ==
  /\ cs.at = 0 /\ started < cmix.starts /\ started' = started + 1
  /\ cs' = [NoSession EXCEPT !.at = started + 1, !.phase = "starting"]
  /\ UNCHANGED <<seat, fin, reap, box, relay, term, parked, faulted, crashed, cmix>>

Stop ==
  /\ Wanted /\ cs' = NoSession
  /\ UNCHANGED <<seat, fin, reap, box, relay, term, counts>>

Park ==
  /\ Wanted /\ cs.status = "running" /\ parked < cmix.parks /\ parked' = parked + 1
  /\ cs' = [cs EXCEPT !.status = "parked"]
  /\ UNCHANGED <<seat, fin, reap, box, relay, term, started, faulted, crashed, cmix>>

Resume ==
  /\ Wanted /\ cs.status = "parked" /\ cs' = [cs EXCEPT !.status = "running"]
  /\ UNCHANGED <<seat, fin, reap, box, relay, term, counts>>

(* set_cockpit_sandbox_phase: of whatever session there is. *)
InPhase(s, ph) == IF s.at = 0 THEN s ELSE [s EXCEPT !.phase = ph]
Show(ph) == cs' = InPhase(cs, ph)

-------------------------------------------------------------------------------
(* Reaps: at most one of the name at a time, each looks at the session once    *)
(* before it deletes.  os.delete returns when the gateway has accepted it.     *)

SpawnReap(force) ==
  reap' = IF reap.pc = "off" THEN [pc |-> "queued", force |-> force] ELSE reap

Skips(force) == ~force /\ Wanted
ReapLooks ==
  /\ reap.pc = "queued"
  /\ reap' = IF Skips(reap.force) THEN NoReap ELSE [reap EXCEPT !.pc = "sent"]
  /\ UNCHANGED <<cs, seat, fin, box, relay, term, counts>>

ReapDeletes ==
  /\ reap.pc = "sent" /\ reap' = NoReap
  /\ IF Listed THEN box' = "going" ELSE UNCHANGED box
  /\ UNCHANGED <<cs, seat, fin, relay, term, counts>>

(* The seat loop's tick: reap what no session wants, take a seat for one that   *)
(* runs.  For a parked one it stops the detached agent, which is not modelled.  *)
UnneededIfUp == box = "up" /\ ~Wanted                               \* mutant
Unneeded == Listed /\ ~Wanted
TickReaps ==
  /\ Unneeded /\ SpawnReap(FALSE) /\ reap' # reap
  /\ UNCHANGED <<cs, seat, fin, box, relay, term, counts>>

TickSeats ==
  /\ Wanted /\ cs.status = "running" /\ seat.pc = "off"
  /\ seat' = [NoSeat EXCEPT !.pc = "start"]
  /\ UNCHANGED <<cs, fin, reap, box, relay, term, counts>>

-------------------------------------------------------------------------------
(* The seat.  What it waits for is given up when its poll of the Board finds    *)
(* the session gone, replaced or parked; what it writes it writes unasked.      *)

Amiss(at) ==                               \* ensure_cockpit_session_running
  IF cs.at = 0 THEN "stopped" ELSE IF cs.at # at THEN "superseded"
  ELSE IF cs.status = "parked" THEN "parked" ELSE "no"

SeatTo(pc) == seat' = [seat EXCEPT !.pc = pc]

(* The seat ends.  A failure is shown; the flag is released before the cleanup, *)
(* which a seat that had no sandbox yet does not have.                          *)
EndsWith(why) ==
  /\ seat' = NoSeat
  /\ IF why = "failed" THEN Show("error") ELSE UNCHANGED cs
  /\ IF seat.pc \in {"start", "look", "probe"} \/ why = "superseded" THEN UNCHANGED fin
     ELSE /\ fin.pc = "off"                \* bound: one cleanup at a time
          /\ fin' = [pc |-> IF why = "stopped" THEN "check" ELSE "relay", why |-> why]

SeatStarts ==
  /\ seat.pc = "start"
  /\ IF Amiss(cs.at) # "no" THEN EndsWith(Amiss(cs.at))
     ELSE /\ seat' = [seat EXCEPT !.at = cs.at, !.pc = IF cs.env THEN "look" ELSE "probe"]
          /\ UNCHANGED <<cs, fin>>
  /\ UNCHANGED <<reap, box, relay, term, counts>>

Waits == {"look", "probe", "free", "making", "ready", "relay", "hold"}
SeatCancelled ==
  /\ seat.pc \in Waits /\ Amiss(seat.at) # "no" /\ EndsWith(Amiss(seat.at))
  /\ UNCHANGED <<reap, box, relay, term, counts>>

(* is_sandbox_live: an exec that answers, which one being deleted may or not. *)
Answers(live) == IF live THEN box \in {"up", "going"} ELSE box # "up"

SeatLooks ==
  /\ seat.pc = "look" /\ UNCHANGED <<cs, fin, reap, box, relay, term, counts>>
  /\ \/ Answers(TRUE) /\ SeatTo("ready")
     \/ Answers(FALSE) /\ SeatTo("probe")

(* Reuse publishes the environment; a fresh box first clears what was known. *)
SeatProbes ==
  /\ seat.pc = "probe" /\ UNCHANGED <<reap, box, relay, term, counts>>
  /\ IF cs.at = 0 THEN EndsWith("failed")
     ELSE /\ UNCHANGED fin
          /\ \/ /\ Answers(TRUE) /\ SeatTo("ready")
                /\ cs' = [cs EXCEPT !.env = TRUE, !.phase = "provisioning"]
             \/ /\ Answers(FALSE) /\ SeatTo("free")
                /\ cs' = [cs EXCEPT !.env = FALSE, !.chat = "none", !.phase = "starting"]

(* wait_cockpit_name_free: no delete under way and no sandbox of the name.  It  *)
(* kicks one delete of a sandbox nobody is deleting.                            *)
NotListed == ~Listed                                                \* mutant
NameFree == reap.pc = "off" /\ ~Listed
SeatFindsFree ==
  /\ seat.pc = "free" /\ Amiss(seat.at) = "no" /\ NameFree
  /\ SeatTo("create") /\ Show("provisioning")
  /\ UNCHANGED <<fin, reap, box, relay, term, counts>>

KicksNot == FALSE                                                   \* mutant
Kicks == Listed /\ reap.pc = "off" /\ ~seat.kicked
SeatKicks ==
  /\ seat.pc = "free" /\ Amiss(seat.at) = "no" /\ ~NameFree /\ Kicks
  /\ SpawnReap(TRUE) /\ seat' = [seat EXCEPT !.kicked = TRUE] /\ Show("waiting")
  /\ UNCHANGED <<fin, box, relay, term, counts>>

(* Its deadline, here only for a wait in vain: the kicked delete was refused. *)
SeatGivesUp ==
  /\ seat.pc = "free" /\ seat.kicked /\ reap.pc = "off" /\ box \notin {"none", "going"}
  /\ EndsWith("failed") /\ UNCHANGED <<reap, box, relay, term, counts>>

(* create: the gateway refuses a name it has. *)
SeatCreates ==
  /\ seat.pc = "create"
  /\ IF Listed THEN EndsWith("failed") /\ UNCHANGED box
     ELSE /\ box' = "starting" /\ SeatTo("making") /\ UNCHANGED <<cs, fin>>
  /\ UNCHANGED <<reap, relay, term, counts>>

SeatMade ==
  /\ seat.pc = "making" /\ box # "starting"
  /\ IF box = "up" THEN SeatTo("publish") /\ UNCHANGED <<cs, fin>> ELSE EndsWith("failed")
  /\ UNCHANGED <<reap, box, relay, term, counts>>

SeatPublishes ==
  /\ seat.pc = "publish"
  /\ IF cs.at = 0 THEN EndsWith("failed")
     ELSE SeatTo("relay") /\ cs' = [cs EXCEPT !.env = TRUE] /\ UNCHANGED fin
  /\ UNCHANGED <<reap, box, relay, term, counts>>

(* A reused box has to be Ready; then the relay, which is left alone if it is up. *)
SeatReady ==
  /\ seat.pc = "ready"
  /\ \/ box = "up" /\ SeatTo("relay") /\ Show("provisioning") /\ UNCHANGED fin
     \/ box \notin {"up", "starting"} /\ EndsWith("failed")
  /\ UNCHANGED <<reap, box, relay, term, counts>>

SeatRelays ==
  /\ seat.pc = "relay"
  /\ IF relay \/ box = "up" THEN relay' = TRUE /\ SeatTo("arm") /\ UNCHANGED <<cs, fin>>
     ELSE EndsWith("failed") /\ UNCHANGED relay
  /\ UNCHANGED <<reap, box, term, counts>>

SeatArms ==
  /\ seat.pc = "arm" /\ SeatTo("hold") /\ Show("ready")
  /\ UNCHANGED <<fin, reap, box, relay, term, counts>>

SeatLoses ==
  /\ seat.pc = "hold" /\ Amiss(seat.at) = "no" /\ box # "up" /\ EndsWith("unusable")
  /\ UNCHANGED <<reap, box, relay, term, counts>>

-------------------------------------------------------------------------------
(* finalize_cockpit.  The relay and the agent are stopped across awaits.        *)

FinTo(pc) == fin' = [fin EXCEPT !.pc = pc]
FinChecks ==
  /\ fin.pc = "check" /\ IF Wanted THEN fin' = NoFin ELSE FinTo("relay")
  /\ UNCHANGED <<cs, seat, reap, box, relay, term, counts>>

FinCuts ==
  /\ fin.pc = "relay" /\ relay' = FALSE /\ FinTo("last")
  /\ UNCHANGED <<cs, seat, reap, box, term, counts>>

FinReaps ==
  /\ fin.pc = "last" /\ fin' = NoFin
  /\ IF fin.why = "unusable" THEN Show("starting") ELSE UNCHANGED cs
  /\ IF fin.why = "unusable" \/ (fin.why = "stopped" /\ ~Wanted)
     THEN SpawnReap(fin.why = "unusable") ELSE UNCHANGED reap
  /\ UNCHANGED <<seat, box, relay, term, counts>>

-------------------------------------------------------------------------------
(* A terminal: the Board is asked once; then it waits for the box, brings the   *)
(* relay up, mints a chat if the session has none, and starts the engine.       *)

TermGate ==
  /\ cmix.attach /\ term = "off" /\ Wanted /\ cs.status = "running" /\ cs.env
  /\ term' = "gate" /\ UNCHANGED <<cs, seat, fin, reap, box, relay, counts>>

TermOn ==
  /\ term = "gate" /\ box = "up" /\ term' = "on" /\ relay' = TRUE
  /\ cs' = IF Wanted /\ cs.chat = "none" THEN [cs EXCEPT !.chat = "here"] ELSE cs
  /\ UNCHANGED <<seat, fin, reap, box, counts>>

TermEnds ==
  /\ \/ term = "on"
     \/ term = "gate" /\ box # "up"
  /\ term' = "off" /\ UNCHANGED <<cs, seat, fin, reap, box, relay, counts>>

-------------------------------------------------------------------------------
(* The gateway, and the process.  Only the session survives a restart.          *)

BoxUp ==
  /\ box = "starting" /\ box' = "up"
  /\ UNCHANGED <<cs, seat, fin, reap, relay, term, counts>>

BoxGone ==
  /\ box = "going" /\ box' = "none"
  /\ cs' = IF cs.chat = "here" THEN [cs EXCEPT !.chat = "lost"] ELSE cs
  /\ UNCHANGED <<seat, fin, reap, relay, term, counts>>

BoxDies ==
  /\ faulted < cmix.faults /\ box \in {"starting", "up"} /\ box' = "dead"
  /\ faulted' = faulted + 1
  /\ UNCHANGED <<cs, seat, fin, reap, relay, term, started, parked, crashed, cmix>>

DeleteRefused ==
  /\ faulted < cmix.faults /\ reap.pc = "sent" /\ reap' = NoReap /\ faulted' = faulted + 1
  /\ UNCHANGED <<cs, seat, fin, box, relay, term, started, parked, crashed, cmix>>

RelayEnds ==
  /\ relay /\ box \in {"none", "dead"} /\ relay' = FALSE
  /\ UNCHANGED <<cs, seat, fin, reap, box, term, counts>>

Crashes ==
  /\ crashed < cmix.crashes /\ crashed' = crashed + 1
  /\ seat' = NoSeat /\ fin' = NoFin /\ reap' = NoReap /\ relay' = FALSE /\ term' = "off"
  /\ UNCHANGED <<cs, box, started, parked, faulted, cmix>>

Operator == Start \/ Stop \/ Park \/ Resume
Reaper == ReapLooks \/ ReapDeletes \/ TickReaps
Seat == \/ SeatStarts \/ SeatCancelled \/ SeatLooks \/ SeatProbes \/ SeatFindsFree \/ SeatKicks
        \/ SeatGivesUp
        \/ SeatCreates \/ SeatMade \/ SeatPublishes \/ SeatReady \/ SeatRelays \/ SeatArms
        \/ SeatLoses
Cleanup == FinChecks \/ FinCuts \/ FinReaps
Terminal == TermGate \/ TermOn \/ TermEnds
Gateway == BoxUp \/ BoxGone \/ BoxDies \/ DeleteRefused \/ RelayEnds
CockpitNext ==
  \/ Operator \/ Reaper \/ TickSeats \/ Seat \/ Cleanup \/ Terminal \/ Gateway \/ Crashes

(* The tick, the seat, the cleanup and the reaps are tasks the runtime runs;    *)
(* the gateway finishes what it began.  Nobody has to press a button.           *)
CockpitFairness ==
  /\ WF_cockpitVars(TickReaps) /\ WF_cockpitVars(TickSeats) /\ WF_cockpitVars(Seat)
  /\ WF_cockpitVars(Cleanup) /\ WF_cockpitVars(ReapLooks \/ ReapDeletes)
  /\ WF_cockpitVars(BoxUp \/ BoxGone) /\ WF_cockpitVars(RelayEnds)

CockpitSpec == CockpitInit(CockpitMixes) /\ [][CockpitNext]_cockpitVars /\ CockpitFairness

-------------------------------------------------------------------------------
(* Types; what is shown of a session goes with it. *)
CockpitTypeOK ==
  /\ (cs.at = 0 => cs = NoSession)
  /\ cs \in Sessions /\ seat \in Seats /\ fin \in Fins /\ reap \in Reaps /\ box \in Boxes
  /\ relay \in BOOLEAN /\ term \in {"off", "gate", "on"} /\ cmix \in CockpitMix
  /\ started \in 0 .. cmix.starts /\ parked \in 0 .. cmix.parks
  /\ faulted \in 0 .. cmix.faults /\ crashed \in 0 .. cmix.crashes

(* "Start must not race create against an in-flight gateway delete": when the   *)
(* seat of the present session creates, no reap that a Stop asked for is still  *)
(* to delete.  (The forced reap of an older seat's cleanup may be.)             *)
CreateIsAlone ==
  [][SeatCreates /\ box' # box /\ cs.at = seat.at => reap.pc # "sent" \/ reap.force]_cockpitVars

(* Whenever it was stopped, the sandbox of a session that stays stopped goes,   *)
(* and the relay with it.                                                       *)
StopReclaims == <>[](cs.at = 0) => <>[](box = "none" /\ ~relay)

(* A session that stays Running comes to have a sandbox that answers and is     *)
(* published, for good, once the cleanup of boxes it lost has ended.  (While it *)
(* has not: the cleanup is slower than the next seat and reaps the box that one *)
(* made, and so again.  Nor is the relay up for good, or the phase "ready".)    *)
AtHand == box = "up" /\ cs.env
RunningComesUp == <>[](Wanted /\ cs.status = "running" /\ fin.pc = "off") => <>[]AtHand
===============================================================================

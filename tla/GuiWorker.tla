----------------------------- MODULE GuiWorker ------------------------------
(***************************************************************************)
(* The threads of the commissioning GUI: Worker of                         *)
(* python/apps/dpg_commissioning_gui.py, with the loop of                  *)
(* DaftClient.request in python/daft_protocol/client.py and the deadline   *)
(* of SerialTransport.read_packet, which counts for one packet.            *)
(*                                                                         *)
(* One thread runs the buttons, one after the other; every connect starts  *)
(* a thread that polls the status.  A lock is held for a whole request.    *)
(* disconnect does not take it, and waits for the poller half a second.    *)
(***************************************************************************)
EXTENDS Naturals, FiniteSets

CONSTANTS
  Pollers,   (* poll threads that can be alive at the same time             *)
  Ui,        (* the thread of the buttons                                   *)
  None

ASSUME ThreadsAssumption ==
  Ui \notin Pollers /\ None \notin Pollers \cup {Ui} /\ IsFiniteSet(Pollers)

VARIABLES
  stop,      (* the event that ends a poller                                *)
  thread,    (* self.thread                                                 *)
  client,    (* self.client is there, with its port                         *)
  lock,      (* who holds it, or None                                       *)
  at,        (* where each thread is                                        *)
  onPort,    (* threads whose request runs on a port that is still open     *)
  buttons,   (* the buttons that need a connection are enabled              *)
  chatter    (* telemetry or events come within every packet timeout        *)

vars == <<stop, thread, client, lock, at, onPort, buttons, chatter>>

Threads == Pollers \cup {Ui}

Alive == {p \in Pollers : at[p] # "ended"}

Move(t, from, to) == at[t] = from /\ at' = [at EXCEPT ![t] = to]

-----------------------------------------------------------------------------
(* call, in either thread: with the lock, one request of the client that is *)
(* there at that moment.  Every exception is caught.                        *)

After(t) == IF t = Ui THEN "idle" ELSE "asleep"

Acquire(t) ==
  /\ lock = None
  /\ IF client
       THEN /\ Move(t, "calling", "asking")
            /\ lock' = t
            /\ onPort' = onPort \cup {t}
       ELSE (* "not connected" *)
            /\ Move(t, "calling", After(t))
            /\ UNCHANGED <<lock, onPort>>
  /\ UNCHANGED <<stop, thread, client, buttons, chatter>>

Return(t) ==
  /\ Move(t, "asking", After(t))
  /\ lock' = None
  /\ onPort' = onPort \ {t}
  /\ UNCHANGED <<stop, thread, client, buttons, chatter>>

(* The answer to this request. *)
Answered(t) == t \in onPort /\ Return(t)

(* No packet within the timeout of one packet. *)
TimesOut(t) == t \in onPort /\ ~chatter /\ Return(t)

(* A lock that an exception does not give back. *)
PortGoneHolding(t) ==
  /\ t \notin onPort
  /\ Move(t, "asking", After(t))
  /\ UNCHANGED <<stop, thread, client, lock, onPort, buttons, chatter>>

(* Reading from a port that was closed raises. *)
PortGone(t) == t \notin onPort /\ Return(t)

-----------------------------------------------------------------------------
(* _poll *)

(* A loop that looks at the stop event once. *)
CheckStopOnce(p) ==
  /\ Move(p, "start", "calling")
  /\ UNCHANGED <<stop, thread, client, lock, onPort, buttons, chatter>>

CheckStop(p) ==
  /\ Move(p, "start", IF stop THEN "ended" ELSE "looking")
  /\ UNCHANGED <<stop, thread, client, lock, onPort, buttons, chatter>>

CheckClient(p) ==
  /\ Move(p, "looking", IF client THEN "calling" ELSE "ended")
  /\ UNCHANGED <<stop, thread, client, lock, onPort, buttons, chatter>>

Wake(p) ==
  /\ Move(p, "asleep", "start")
  /\ UNCHANGED <<stop, thread, client, lock, onPort, buttons, chatter>>

Poll(p) == CheckStop(p) \/ CheckClient(p) \/ Wake(p)

-----------------------------------------------------------------------------
(* The buttons. *)

Press ==
  /\ buttons
  /\ Move(Ui, "idle", "calling")
  /\ UNCHANGED <<stop, thread, client, lock, onPort, buttons, chatter>>

(* disconnect, for its own sake or as the first step of connect. *)
Disconnect(button) ==
  /\ button = "connect" => Alive # Pollers
  /\ Move(Ui, "idle", button)
  /\ stop' = TRUE
  /\ UNCHANGED <<thread, client, lock, onPort, buttons, chatter>>

Closing(button) == IF button = "connect" THEN "opening" ELSE "closed"

(* The poller has ended, or half a second is over: the port closes under a  *)
(* request that is still running.                                           *)
JoinAndClose(button) ==
  /\ Move(Ui, button, Closing(button))
  /\ thread' = None
  /\ client' = FALSE
  /\ onPort' = {}
  /\ UNCHANGED <<stop, lock, buttons, chatter>>

ShowDisconnected ==
  /\ Move(Ui, "closed", "idle")
  /\ buttons' = FALSE
  /\ UNCHANGED <<stop, thread, client, lock, onPort, chatter>>

Open ==
  /\ Move(Ui, "opening", "opened")
  /\ client' = TRUE
  /\ UNCHANGED <<stop, thread, lock, onPort, buttons, chatter>>

OpenFails ==
  /\ Move(Ui, "opening", "closed")
  /\ UNCHANGED <<stop, thread, client, lock, onPort, buttons, chatter>>

StartPoller ==
  /\ Move(Ui, "opened", "starting")
  /\ stop' = FALSE
  /\ UNCHANGED <<thread, client, lock, onPort, buttons, chatter>>

Started ==
  /\ at[Ui] = "starting"
  /\ \E p \in Pollers \ Alive :
       /\ at' = [at EXCEPT ![p] = "start", ![Ui] = "idle"]
       /\ thread' = p
  /\ buttons' = TRUE
  /\ UNCHANGED <<stop, client, lock, onPort, chatter>>

Window ==
  \/ \E button \in {"connect", "disconnect"} : JoinAndClose(button)
  \/ ShowDisconnected
  \/ Open
  \/ OpenFails
  \/ StartPoller
  \/ Started

(* The device starts or stops to stream. *)
ChatterChanges ==
  /\ chatter' = ~chatter
  /\ UNCHANGED <<stop, thread, client, lock, at, onPort, buttons>>

-----------------------------------------------------------------------------

Init ==
  /\ stop = FALSE
  /\ thread = None
  /\ client = FALSE
  /\ lock = None
  /\ at = [t \in Threads |-> IF t = Ui THEN "idle" ELSE "ended"]
  /\ onPort = {}
  /\ buttons = FALSE
  /\ chatter \in BOOLEAN

Next ==
  \/ \E t \in Threads : Acquire(t) \/ Answered(t) \/ TimesOut(t) \/ PortGone(t)
  \/ \E p \in Pollers : Poll(p)
  \/ Press
  \/ \E button \in {"connect", "disconnect"} : Disconnect(button)
  \/ Window
  \/ ChatterChanges

(* Each thread runs on, a request on a silent or closed port ends, and a    *)
(* thread gets a lock that is free again and again: a poller that gives it  *)
(* back sleeps for a quarter of a second.                                   *)
(* Nobody has to press, and no answer has to come.                          *)
Spec ==
  /\ Init /\ [][Next]_vars
  /\ WF_vars(Window)
  /\ SF_vars(Acquire(Ui))
  /\ \A p \in Pollers : WF_vars(Poll(p)) /\ SF_vars(Acquire(p))
  /\ \A t \in Threads : WF_vars(TimesOut(t)) /\ WF_vars(PortGone(t))

-----------------------------------------------------------------------------
(* Properties *)

(* A pressed button, the emergency stop like any other, comes to its turn,  *)
(* past every poller, if the device falls silent between its packets from   *)
(* some time on.  Otherwise one lost answer keeps the lock for good.        *)
PressServed ==
  <>[]~chatter => (at[Ui] \in {"calling", "asking"} ~> at[Ui] = "idle")

(* Once disconnected for good, every poller ends, the ones included that a  *)
(* join gave up on and a later connect revived, whatever the device sends.  *)
PollersEnd == <>[](at[Ui] = "idle" /\ ~buttons) => <>[](Alive = {})

=============================================================================

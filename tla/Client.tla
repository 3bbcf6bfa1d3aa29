------------------------------- MODULE Client -------------------------------
(***************************************************************************)
(* The client (client/domain, client/godot-adapter): the bridge to the     *)
(* game's world, driven by a ClientBootstrap with an XR runtime beside it, *)
(* or by the Godot node with its buffer of input.  Frame numbers and which *)
(* input reaches the world are kept; poses, and what a placeholder input   *)
(* event says, are not.                                                    *)
(***************************************************************************)
EXTENDS Integers, Sequences, SequencesExt

CONSTANTS
  MaxPending,    \* MAX_PENDING_INPUT_EVENTS, 1024 in the code
  MaxEvents,     \* bound: input events pushed
  MaxFrame       \* bound: frames of either clock

ASSUME MaxPendingAssumption == MaxPending \in Nat \ {0}

VARIABLES
  bridge,        \* the bootstrap's bridge: started, and the frame of its world
  running,       \* ClientBootstrap.running
  xr,            \* "off", "unready" or "ready", as the runtime reports itself
  frameClock,    \* ClientBootstrap.frame_clock
  reported,      \* the last start or shutdown that ran returned an error
  node           \* the Godot node

bootstrapVars == <<bridge, running, xr, frameClock, reported>>
clientVars == <<bootstrapVars, node>>

NewBridge == [started |-> FALSE, frame |-> 0]

(* RuntimeBridgeAdapter over CoreEcs: on_start resets the world, on_frame   *)
(* runs its schedule once.                                                  *)
OnStart(b) == [started |-> TRUE, frame |-> 0]
OnShutdown(b) == [b EXCEPT !.started = FALSE]
OnFrame(b) == IF b.started THEN [b EXCEPT !.frame = @ + 1] ELSE b

\* pending: pending_input_events.  clock: frame_clock.  last: the
\* RenderFrameBuffer.  shown: the frame last projected.  pushed counts the
\* events; used holds those that reached the world, in order.
NewNode ==
  [bridge |-> NewBridge, clock |-> 0, pending |-> <<>>, last |-> 0,
   shown |-> 0, pushed |-> 0, used |-> <<>>, lastError |-> "none"]

ClientInit ==
  /\ bridge = NewBridge /\ running = FALSE /\ xr = "off"
  /\ frameClock = 0 /\ reported = FALSE
  /\ node = NewNode
-----------------------------------------------------------------------------
(***************************************************************************)
(* ClientBootstrap::start.  Nothing is undone when a later step fails, and *)
(* nothing stops a start while the client runs.                            *)
(***************************************************************************)
StartFailsAt(state) ==
  /\ xr' = state
  /\ reported' = TRUE
  /\ UNCHANGED <<bridge, running, frameClock, node>>

Start ==
  /\ xr' = "ready"
  /\ bridge' = OnStart(bridge)
  /\ frameClock' = 0
  /\ running' = TRUE
  /\ reported' = FALSE
  /\ UNCHANGED node

\* xr.enable fails, before or after it touched the runtime; the runtime is
\* not ready after all; bridge.on_start fails.
StartFails ==
  \/ StartFailsAt(xr) \/ StartFailsAt("off")
  \/ StartFailsAt("unready")
  \/ StartFailsAt("ready")

TickFrame ==
  /\ running /\ frameClock < MaxFrame
  /\ frameClock' = frameClock + 1
  /\ UNCHANGED <<bridge, running, xr, reported, node>>

\* tick does not advance the clock; the world counts for itself.
BootstrapTick ==
  /\ running /\ bridge.frame < MaxFrame
  /\ bridge' = OnFrame(bridge)
  /\ UNCHANGED <<running, xr, frameClock, reported, node>>

\* The error of xr.shutdown returned at once (for mutation).
ShutdownStepwise ==
  /\ running
  /\ bridge' = OnShutdown(bridge)
  /\ \/ xr' = "off" /\ running' = FALSE
     \/ UNCHANGED <<xr, running>>
  /\ reported' = running'
  /\ UNCHANGED <<frameClock, node>>

\* Both steps are taken, whatever the first answers; xr.shutdown may fail.
Shutdown ==
  /\ running
  /\ bridge' = OnShutdown(bridge)
  /\ \/ xr' = "off" /\ reported' = FALSE
     \/ xr' = xr /\ reported' = TRUE
  /\ running' = FALSE
  /\ UNCHANGED <<frameClock, node>>
-----------------------------------------------------------------------------
(* SuteraClientBridge, the Godot node.                                      *)
NodeStart ==
  /\ node' = [node EXCEPT !.bridge = OnStart(@)]
  /\ UNCHANGED bootstrapVars

NodeShutdown ==
  /\ node' = [node EXCEPT !.bridge = OnShutdown(@)]
  /\ UNCHANGED bootstrapVars

\* A full buffer makes room at its new end (for mutation).
PushInputEventOver ==
  /\ node.pushed < MaxEvents
  /\ LET room == IF Len(node.pending) >= MaxPending THEN Front(node.pending)
                 ELSE node.pending
     IN  node' = [node EXCEPT !.pushed = @ + 1,
                              !.pending = Append(room, node.pushed + 1)]
  /\ UNCHANGED bootstrapVars

\* A full buffer drops its oldest event.
PushInputEvent ==
  /\ node.pushed < MaxEvents
  /\ LET room == IF Len(node.pending) >= MaxPending THEN Tail(node.pending)
                 ELSE node.pending
     IN  node' = [node EXCEPT !.pushed = @ + 1,
                              !.pending = Append(room, node.pushed + 1)]
  /\ UNCHANGED bootstrapVars

\* The input is taken and the clock advanced before the bridge can refuse.
Snapshot == [node EXCEPT !.pending = <<>>, !.clock = @ + 1]

NodeFrameRefused ==
  /\ ~node.bridge.started /\ node.clock < MaxFrame
  /\ node' = [Snapshot EXCEPT !.lastError = "NotStarted"]
  /\ UNCHANGED bootstrapVars

\* project_latest_frame fails when the target node is gone.
NodeFrame ==
  /\ node.bridge.started /\ node.clock < MaxFrame
  /\ LET after == OnFrame(node.bridge)
         framed == [Snapshot EXCEPT !.bridge = after, !.last = after.frame,
                                    !.used = @ \o node.pending]
     IN  node' \in {[framed EXCEPT !.shown = after.frame],
                    [framed EXCEPT !.lastError = "ProjectionFailed"]}
  /\ UNCHANGED bootstrapVars

OverrideDenied ==
  /\ node' = [node EXCEPT !.lastError = "DirectStateMutationDenied"]
  /\ UNCHANGED bootstrapVars

BootstrapNext == Start \/ StartFails \/ TickFrame \/ BootstrapTick \/ Shutdown

NodeNext ==
  \/ NodeStart \/ NodeShutdown \/ PushInputEvent
  \/ NodeFrame \/ NodeFrameRefused \/ OverrideDenied

BootstrapSpec == ClientInit /\ [][BootstrapNext]_clientVars
NodeSpec == ClientInit /\ [][NodeNext]_clientVars
-----------------------------------------------------------------------------
(***************************************************************************)
(* A running client has a started bridge and a stopped one has not,        *)
(* whichever step of a start, a restart or a shutdown fails: so a tick is  *)
(* never refused by the bridge, and XR is left on without a client only by *)
(* a start or a shutdown that reported an error.  (bridge.rs lines 36, 76) *)
(***************************************************************************)
RunningIsStarted ==
  /\ running <=> bridge.started
  /\ ~running /\ xr # "off" => reported

(***************************************************************************)
(* Every input event reaches the world at most once and in order, and what *)
(* waits is the newest of what was pushed: an overrun of the buffer costs  *)
(* old events, not new ones.  (godot.rs lines 84 and 113 to 122)           *)
(***************************************************************************)
InputOnceInOrder ==
  /\ \A i \in 1 .. Len(node.used) - 1 : node.used[i] < node.used[i + 1]
  /\ Len(node.pending) <= MaxPending
  /\ \A i \in DOMAIN node.pending :
       /\ node.pending[i] = node.pushed - Len(node.pending) + i
       /\ \A j \in DOMAIN node.used : node.used[j] < node.pending[i]
=============================================================================

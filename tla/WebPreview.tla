----------------------------- MODULE WebPreview -----------------------------
(***************************************************************************)
(* The preview pane of a terminal page (apps/web/src/components/terminal/  *)
(* web-preview.tsx) above the HTTP tunnel: it asks for a preview cookie    *)
(* when the preview has an origin of its own, probes the forwarded port    *)
(* until something answers, and then shows it in a frame.                  *)
(***************************************************************************)
EXTENDS HttpTunnel

CONSTANTS
  Watched,      \* the session of the page; its ports are those it forwards
  CrossOrigin,  \* PREVIEW_ORIGIN is set
  MaxProbes,    \* MAX_PROBES
  MaxCycles     \* bound: probe cycles

ASSUME PreviewAssumption ==
  /\ Watched \in Sessions /\ Forwarded[Watched] # {}
  /\ CrossOrigin \in BOOLEAN
  /\ MaxProbes \in Nat \ {0} /\ MaxCycles \in Nat \ {0}

VARIABLES
  auth,      \* previewAuthReady: "asking", "yes", or "failed": nothing asks again
  active,    \* activePort
  cycle,     \* probeRef: 0 before the first cycle
  attempt,   \* failed probes of the cycle
  due,       \* the probe timer is armed, or the cycle has just begun
  fetching,  \* the cycle for which each request is awaited, 0: none
  ready, waiting, error,
  readyBy    \* history: the requests whose reply set `ready` of this cycle

paneVars == <<auth, active, cycle, attempt, due, fetching, ready, waiting, error, readyBy>>
previewVars == <<tunnelVars, paneVars>>

-----------------------------------------------------------------------------
PreviewInit ==
  /\ TunnelInit
  /\ auth = IF CrossOrigin THEN "asking" ELSE "yes"
  /\ active = CHOOSE p \in Forwarded[Watched] : TRUE
  /\ cycle = IF CrossOrigin THEN 0 ELSE 1
  /\ due = ~CrossOrigin /\ waiting = ~CrossOrigin
  /\ attempt = 0
  /\ fetching = [r \in Requests |-> 0]
  /\ ready = FALSE /\ error = FALSE
  /\ readyBy = {}

\* The effect runs again.
Restart ==
  /\ cycle < MaxCycles
  /\ cycle' = cycle + 1
  /\ attempt' = 0 /\ due' = TRUE
  /\ ready' = FALSE /\ waiting' = TRUE /\ error' = FALSE /\ readyBy' = {}

\* The preview cookie is set, or not: then the pane stays empty.
Authenticated ==
  /\ auth = "asking"
  /\ auth' = "yes" /\ Restart
  /\ UNCHANGED <<tunnelVars, active, fetching>>

AuthenticationFails ==
  /\ auth = "asking"
  /\ auth' = "failed"
  /\ UNCHANGED <<tunnelVars, active, cycle, attempt, due, fetching, ready, waiting, error, readyBy>>

\* handlePortChange, and "Retry" after an error.
ChangePort(p) ==
  /\ p \in Forwarded[Watched] \ {active}
  /\ active' = p
  /\ IF auth = "yes"
     THEN Restart
     ELSE error' = FALSE /\ UNCHANGED <<cycle, attempt, due, ready, waiting, readyBy>>
  /\ UNCHANGED <<tunnelVars, auth, fetching>>

Retry ==
  /\ error
  /\ auth = "yes"
  /\ Restart
  /\ UNCHANGED <<tunnelVars, auth, active, fetching>>

\* "Load anyway" after an error.
LoadAnyway ==
  /\ error
  /\ error' = FALSE /\ ready' = TRUE /\ readyBy' = {}
  /\ UNCHANGED <<tunnelVars, auth, active, cycle, attempt, due, fetching, waiting>>

\* Another path is entered, or the frame is refreshed.
Navigate ==
  /\ error
  /\ error' = FALSE
  /\ UNCHANGED <<tunnelVars, auth, active, cycle, attempt, due, fetching, ready, waiting, readyBy>>

\* The frame fails to load.
FrameFails ==
  /\ ready
  /\ error' = TRUE
  /\ UNCHANGED <<tunnelVars, auth, active, cycle, attempt, due, fetching, ready, waiting, readyBy>>

\* A probe is a request of its own to the tunnel.
Probe(r) ==
  /\ due
  /\ due' = FALSE
  /\ fetching' = [fetching EXCEPT ![r] = cycle]
  /\ Arrive(r, Watched, active)
  /\ UNCHANGED <<auth, active, cycle, attempt, ready, waiting, error, readyBy>>

\* Mutant: after MAX_PROBES attempts the pane is left as it was.
ProbeAgainSilent ==
  /\ attempt' = attempt + 1
  /\ due' = (attempt' < MaxProbes)
  /\ UNCHANGED <<waiting, error, ready, readyBy>>

ProbeAgain ==
  /\ attempt' = attempt + 1
  /\ due' = (attempt' < MaxProbes)
  /\ waiting' = (attempt' < MaxProbes)
  /\ error' = (attempt' >= MaxProbes)
  /\ UNCHANGED <<ready, readyBy>>

\* res.ok, or 300 <= status < 500.
CountsAsReady(r) ==
  \/ reply[r] = "refused"
  \/ reply[r] = "answer"

\* cycle === probeRef.current
Current(r) == fetching[r] = cycle

\* The reply to a probe; one of an earlier cycle is ignored.
Replied(r) ==
  /\ fetching[r] # 0
  /\ stage[r] = "done"
  /\ fetching' = [fetching EXCEPT ![r] = 0]
  /\ IF ~Current(r)
     THEN UNCHANGED <<attempt, due, ready, waiting, error, readyBy>>
     ELSE \/ CountsAsReady(r)
             /\ ready' = TRUE /\ waiting' = FALSE /\ readyBy' = {r}
             /\ UNCHANGED <<attempt, due, error>>
          \/ reply[r] # "refused" /\ ProbeAgain
  /\ UNCHANGED <<tunnelVars, auth, active, cycle>>

\* No reply within PROBE_TIMEOUT: the fetch is given up, not the request.
GivesUp(r) ==
  /\ fetching[r] # 0
  /\ fetching' = [fetching EXCEPT ![r] = 0]
  /\ IF Current(r)
     THEN ProbeAgain
     ELSE UNCHANGED <<attempt, due, ready, waiting, error, readyBy>>
  /\ UNCHANGED <<tunnelVars, auth, active, cycle>>

-----------------------------------------------------------------------------
PreviewNext ==
  \/ TunnelStep /\ UNCHANGED paneVars
  \/ Authenticated \/ AuthenticationFails
  \/ \E p \in Ports : ChangePort(p)
  \/ Retry \/ LoadAnyway \/ Navigate \/ FrameFails
  \/ \E r \in Requests : Probe(r) \/ Replied(r) \/ GivesUp(r)

PreviewSpec == PreviewInit /\ [][PreviewNext]_previewVars

-----------------------------------------------------------------------------
(* Properties.                                                             *)

PreviewTypeOK ==
  /\ auth \in {"asking", "yes", "failed"}
  /\ active \in Ports
  /\ cycle \in 0..MaxCycles /\ attempt \in 0..MaxProbes
  /\ fetching \in [Requests -> 0..MaxCycles]
  /\ due \in BOOLEAN /\ ready \in BOOLEAN /\ waiting \in BOOLEAN /\ error \in BOOLEAN
  /\ readyBy \subseteq Requests

\* A pane that waits will find out: a probe of its cycle is under way, or one is due;
\* and never both, so that probes do not multiply.  A pane that is ready was made so by a
\* probe of the port it shows: the reply to a probe of another port, that comes after the
\* port was changed, does not count.
PaneFollowsProbes ==
  /\ waiting => (due /\ cycle \notin {fetching[r] : r \in Requests})
                \/ (~due /\ Cardinality({r \in Requests : fetching[r] = cycle}) = 1)
  /\ ready => \A r \in readyBy : PortOf(r) = active

=============================================================================

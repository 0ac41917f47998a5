------------------------------ MODULE Dashboard ------------------------------
(***************************************************************************)
(* A tab of the dashboard that shows a session: its status, as polls and   *)
(* presence frames set it (app/(app)/dashboard/page.tsx), and the sockets  *)
(* of its terminal (components/terminal/x-terminal.tsx).                   *)
(*                                                                         *)
(* The terminal is built by an effect that runs again whenever the status  *)
(* turns from live to ended or back.  What it builds is numbered; its      *)
(* flags and its socket are refs, which all runs of the effect share, so   *)
(* that a socket may outlive the terminal it was made for.                 *)
(***************************************************************************)
EXTENDS Integers

CONSTANT MaxBuilds  \* bound: times the terminal is built

ASSUME DashboardAssumption == MaxBuilds \in Nat

VARIABLES
  recorded,  \* status in the database
  served,    \* a CLI is subscribed
  shown,     \* status of the tab, or "shut" when it is not open (any more)
  builds,    \* runs of the effect so far; the last one is the current
  disposed,  \* disposedRef
  wsRef,     \* the run whose socket wsRef holds, 0 when none
  sock,      \* the socket of each run
  news,      \* the presence frame on its way to each socket
  polled,    \* status a poll has read and not yet delivered
  spilled,   \* history: a run was cleaned up whose socket wsRef did not hold
  givenUp    \* history: runs that got no token, or were turned away

dashVars == <<recorded, served, shown, builds, disposed, wsRef, sock, news, polled, spilled,
              givenUp>>
tabVars == <<shown, builds, disposed, wsRef, sock, spilled, givenUp>>

-----------------------------------------------------------------------------
Live == {"running", "disconnected"}
TabStatuses == Live \cup {"stopped"}
Builds == 1..MaxBuilds

\* "token": the token is being fetched; "timer": the 2 s before another attempt.
SocketStates == {"none", "token", "asking", "joined", "closing", "timer"}

DashInit ==
  /\ recorded \in TabStatuses /\ served \in BOOLEAN
  /\ shown = "shut" /\ builds = 0
  /\ disposed = FALSE /\ wsRef = 0
  /\ sock = [b \in Builds |-> "none"]
  /\ news = [b \in Builds |-> "none"]
  /\ polled = "none"
  /\ spilled = FALSE /\ givenUp = {}

-----------------------------------------------------------------------------
(* The effect.                                                             *)

\* close() on the socket in wsRef; the close event comes later.
CloseHeld ==
  IF wsRef # 0 /\ sock[wsRef] \in {"asking", "joined"}
  THEN [sock EXCEPT ![wsRef] = "closing"] ELSE sock

\* There is a socket, or will be one, that close() did not reach.
Spills ==
  /\ builds > 0
  /\ \/ sock[builds] = "token"
     \/ sock[builds] \in {"asking", "joined"} /\ wsRef # builds

\* Mutant: the flag is not reset.
RebuildDisposed(s) ==
  /\ builds < MaxBuilds
  /\ builds' = builds + 1
  /\ disposed' = (builds > 0)
  /\ sock' = [CloseHeld EXCEPT ![builds'] = IF s \in Live THEN "token" ELSE "none"]
  /\ spilled' = (spilled \/ Spills)
  /\ UNCHANGED <<wsRef, givenUp>>

\* The clean-up and the next run of the effect happen at once.
Rebuild(s) ==
  /\ builds < MaxBuilds
  /\ builds' = builds + 1
  /\ disposed' = FALSE
  /\ sock' = [CloseHeld EXCEPT ![builds'] = IF s \in Live THEN "token" ELSE "none"]
  /\ spilled' = (spilled \/ Spills)
  /\ UNCHANGED <<wsRef, givenUp>>

SetStatus(s) ==
  /\ shown' = IF shown = "shut" THEN shown ELSE s
  /\ IF shown' \in Live <=> shown \in Live
     THEN UNCHANGED <<builds, disposed, wsRef, sock, spilled, givenUp>>
     ELSE Rebuild(s)

Open ==
  /\ shown = "shut" /\ builds = 0
  /\ shown' = recorded
  /\ Rebuild(recorded)
  /\ UNCHANGED <<recorded, served, news, polled>>

\* closeTab: the component is unmounted.  Bound: the tab is not opened again (that
\* would be another component, with refs of its own).
Shut ==
  /\ shown # "shut"
  /\ shown' = "shut"
  /\ disposed' = TRUE
  /\ sock' = CloseHeld
  /\ spilled' = (spilled \/ Spills)
  /\ UNCHANGED <<recorded, served, builds, wsRef, news, polled, givenUp>>

-----------------------------------------------------------------------------
(* Its sockets: connectWS.                                                 *)

\* The token is there: the socket is made, whatever has become of the terminal.
Dials(b) ==
  /\ sock[b] = "token"
  /\ \/ sock' = [sock EXCEPT ![b] = "asking"] /\ wsRef' = b /\ UNCHANGED givenUp
     \/ sock' = [sock EXCEPT ![b] = "none"] /\ givenUp' = givenUp \cup {b} /\ UNCHANGED wsRef
  /\ UNCHANGED <<recorded, served, shown, builds, disposed, news, polled, spilled>>

\* HANDSHAKE_OK and SUBSCRIBE; the relay tells at once whether a CLI is there.
Enters(b) ==
  /\ sock[b] = "asking"
  /\ sock' = [sock EXCEPT ![b] = "joined"]
  /\ news' = [news EXCEPT ![b] = IF served THEN "running" ELSE "disconnected"]
  /\ UNCHANGED <<recorded, served, shown, builds, disposed, wsRef, polled, spilled, givenUp>>

\* Close codes 4001 and 4010.
TurnedAway(b) ==
  /\ sock[b] = "asking"
  /\ sock' = [sock EXCEPT ![b] = "none"]
  /\ givenUp' = givenUp \cup {b}
  /\ UNCHANGED <<recorded, served, shown, builds, disposed, wsRef, news, polled, spilled>>

\* The close event.  isLive is that of the run which made the socket, hence true.
CloseEvent(b) ==
  /\ sock[b] \in {"asking", "joined", "closing"}
  /\ sock' = [sock EXCEPT ![b] = IF disposed THEN "none" ELSE "timer"]
  /\ news' = [news EXCEPT ![b] = "none"]
  /\ UNCHANGED <<recorded, served, shown, builds, disposed, wsRef, polled, spilled, givenUp>>

RedialTimer(b) ==
  /\ sock[b] = "timer"
  /\ sock' = [sock EXCEPT ![b] = IF disposed THEN "none" ELSE "token"]
  /\ UNCHANGED <<recorded, served, shown, builds, disposed, wsRef, news, polled, spilled, givenUp>>

\* CLI_CONNECTED or CLI_DISCONNECTED, of whichever run's socket.
Presence(b) ==
  /\ news[b] # "none"
  /\ news' = [news EXCEPT ![b] = "none"]
  /\ IF sock[b] = "joined" THEN SetStatus(news[b]) ELSE UNCHANGED tabVars
  /\ UNCHANGED <<recorded, served, polled>>

-----------------------------------------------------------------------------
(* The poll, and what it polls.                                            *)

\* The sessions query; then the status of every open tab is synchronised.
PollReads ==
  /\ polled = "none" /\ shown # "shut"
  /\ polled' = recorded
  /\ UNCHANGED <<recorded, served, tabVars, news>>

PollArrives ==
  /\ polled # "none"
  /\ polled' = "none"
  /\ SetStatus(polled)
  /\ UNCHANGED <<recorded, served, news>>

\* The CLI comes or goes, and the relay tells every browser that has joined.
CliTurns ==
  /\ served' = ~served
  /\ news' = [b \in Builds |-> IF sock[b] # "joined" THEN news[b]
                               ELSE IF served' THEN "running" ELSE "disconnected"]
  /\ UNCHANGED <<recorded, tabVars, polled>>

RecordTurns ==
  /\ recorded' \in TabStatuses \ {recorded}
  /\ UNCHANGED <<served, tabVars, news, polled>>

-----------------------------------------------------------------------------
DashNext ==
  \/ Open \/ Shut \/ PollReads \/ PollArrives \/ CliTurns \/ RecordTurns
  \/ \E b \in Builds :
       Dials(b) \/ Enters(b) \/ TurnedAway(b) \/ CloseEvent(b) \/ RedialTimer(b) \/ Presence(b)

DashSpec == DashInit /\ [][DashNext]_dashVars

-----------------------------------------------------------------------------
(* Properties.                                                             *)

DashTypeOK ==
  /\ recorded \in TabStatuses /\ served \in BOOLEAN
  /\ shown \in TabStatuses \cup {"shut"}
  /\ builds \in 0..MaxBuilds /\ wsRef \in 0..MaxBuilds
  /\ disposed \in BOOLEAN /\ spilled \in BOOLEAN /\ givenUp \subseteq Builds
  /\ sock \in [Builds -> SocketStates]
  /\ news \in [Builds -> Live \cup {"none"}]
  /\ polled \in TabStatuses \cup {"none"}

\* x-terminal.tsx:496, "Don't reconnect if auth/version failed or component
\* unmounted".  A tab that is shut keeps no socket, if its terminal was built once and
\* the clean-up reached its socket; and however often it is rebuilt, whichever sockets
\* outlive their terminals and whichever of them wsRef holds, the current terminal of a
\* live tab has a socket, or an attempt ahead, or was turned away.
SocketsFollowTab ==
  /\ shown = "shut" /\ builds = 1 /\ ~spilled => sock[1] \in {"none", "closing", "timer"}
  /\ shown \in Live => sock[builds] # "none" \/ builds \in givenUp

=============================================================================

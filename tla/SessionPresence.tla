-------------------------- MODULE SessionPresence --------------------------
(***************************************************************************)
(* Presence of the CLI of one terminal session: apps/server/src/ws.ts.     *)
(*                                                                         *)
(* The relay remembers which sockets serve and which watch the session,    *)
(* tells the watching browsers whether a CLI is there, and records the     *)
(* session's status in PostgreSQL: "disconnected" when the last CLI goes,  *)
(* "stopped" when it stays away for the grace period, "running" when it    *)
(* comes back in time.  The status writes are not awaited.                 *)
(*                                                                         *)
(* Nothing here is shared between sessions, so one session is modelled.    *)
(* The code between two awaits is one step; a SUBSCRIBE handler awaits the *)
(* ownership query and then initSessionSeq, and goes on with what it held, *)
(* whatever happened meanwhile.                                            *)
(***************************************************************************)
EXTENDS Integers, FiniteSets, Functions

CONSTANTS
  Clis,        \* sockets of CLIs and daemons
  Browsers,    \* sockets of browsers
  MaxWrites,   \* bound: status writes in flight when another one is issued
  MaxTimers    \* bound: grace timers armed at a time

ASSUME PresenceAssumption ==
  /\ Clis \cap Browsers = {}
  /\ MaxWrites \in Nat \ {0}
  /\ MaxTimers \in Nat \ {0}

VARIABLES
  open,        \* sockets past their handshake
  joined,      \* sockets whose subscribedSessions holds the session
  subs,        \* sessionSubscribers of the session ({}: no entry)
  cli,         \* sessionCliClients of the session ({}: no entry)
  task,        \* where the SUBSCRIBE handler of each socket stands
  stale,       \* handlers that hold a subscriber set deleted since
  channel,     \* the relay is subscribed to the session's Redis channels
  view,        \* last presence frame sent to each browser
  armed,       \* grace timers that will fire
  mapped,      \* stoppedTimers holds one of them
  writes,      \* status updates in flight, by the status they write
  status,      \* terminal_sessions.status, or "deleted"
  exited,      \* the CLI reported the exit of its program
  event,       \* a SESSION_ENDED event is published and not delivered
  orderly,     \* history: FALSE once a CLI left with its SUBSCRIBE under way
  calm         \* history: FALSE once the session met a window listed below

sockets == <<open, joined, subs, cli, task, stale, channel, view>>
record == <<armed, mapped, writes, status>>
vars == <<sockets, record, exited, event, orderly, calm>>

Sockets == Clis \cup Browsers
Written == {"running", "disconnected", "stopped"}

-----------------------------------------------------------------------------
(* A session is calm while none of these windows was met:                  *)
(*   - a status write was issued, or the CLI reported its exit, while      *)
(*     another write was in flight: they may execute in either order;      *)
(*   - a status write failed;                                              *)
(*   - a CLI subscribed to a session that was not running, and no timer    *)
(*     told the handler so;                                                *)
(*   - a CLI left while a SUBSCRIBE handler awaited initSessionSeq;        *)
(*   - SESSION_ENDED of a session that still exists cancelled its timer;   *)
(*   - the server process restarted.                                       *)

InFlight == \E w \in Written : writes[w] > 0

\* What the status will be once the write in flight is executed.
Effective == IF InFlight /\ status # "deleted" THEN CHOOSE w \in Written : writes[w] > 0 ELSE status

Disturb(window) == calm' = (calm /\ ~window)

-----------------------------------------------------------------------------
Init ==
  /\ open = {} /\ joined = {} /\ subs = {} /\ cli = {}
  /\ task = [k \in Sockets |-> "none"]
  /\ stale = {}
  /\ channel = FALSE
  /\ view = [b \in Browsers |-> "none"]
  /\ armed = 0 /\ mapped = FALSE
  /\ writes = [w \in Written |-> 0]
  /\ status = "running"
  /\ exited = FALSE /\ event = FALSE
  /\ orderly = TRUE /\ calm = TRUE

-----------------------------------------------------------------------------
(* Pieces of the handlers.                                                 *)

\* Bound: room for one more write.
Room == SumFunction(writes) < MaxWrites

Issue(w) == writes' = [writes EXCEPT ![w] = @ + 1]

\* clearTimeout and stoppedTimers.delete, when the map has a timer.
Cancel == /\ armed' = IF mapped THEN armed - 1 ELSE armed
          /\ mapped' = FALSE

\* Mutant: the timer is not stored.
ArmForgets == armed' = armed + 1 /\ mapped' = mapped

\* setTimeout and stoppedTimers.set: a timer the map held is not cleared.
Arm == armed' = armed + 1 /\ mapped' = TRUE

\* A presence frame for the open browsers among the given subscribers.
Tell(S, what) == view' = [b \in Browsers |-> IF b \in S \cap open THEN what ELSE view[b]]

\* Mutant: the channels are given up whoever leaves.
LeaveSubsEager(k) ==
  /\ subs' = subs \ {k}
  /\ channel' = FALSE
  /\ stale' = IF subs \ {k} = {} THEN stale \cup {j \in Clis : task[j] = "init"} ELSE stale

\* Socket k is taken out of the subscribers; the entry and the channels go with
\* the last one.
LeaveSubs(k) ==
  /\ subs' = subs \ {k}
  /\ channel' = (channel /\ subs \ {k} # {})
  /\ stale' = IF subs \ {k} = {} THEN stale \cup {j \in Clis : task[j] = "init"} ELSE stale

\* CLI k closes or unsubscribes.
Leaves(k) == orderly' = (orderly /\ task[k] = "none")

\* Socket k is the last one that serves.
LastCli(k) == cli = {k}

-----------------------------------------------------------------------------
(* Connections.                                                            *)

\* A handshake succeeds.  A name is used again once the relay forgot the socket.
Connect(k) ==
  /\ k \notin open \cup joined \cup subs \cup cli
  /\ task[k] = "none"
  /\ open' = open \cup {k}
  /\ view' = [b \in Browsers |-> IF b = k THEN "none" ELSE view[b]]
  /\ UNCHANGED <<joined, subs, cli, task, stale, channel, record, exited, event, orderly, calm>>

\* onClose of a browser.
CloseBrowser(b) ==
  /\ b \in open
  /\ open' = open \ {b}
  /\ joined' = joined \ {b}
  /\ IF b \in joined THEN LeaveSubs(b) ELSE UNCHANGED <<subs, channel, stale>>
  /\ UNCHANGED <<cli, task, view, record, exited, event, orderly, calm>>

\* onClose of a CLI or daemon that is subscribed.  The last one to go leaves
\* word with the browsers, the database and a timer.
CloseCli(k) ==
  /\ k \in open \cap joined
  /\ open' = open \ {k}
  /\ joined' = joined \ {k}
  /\ cli' = cli \ {k}
  /\ \/ /\ LastCli(k)
        /\ Room
        /\ armed < MaxTimers
        /\ Tell(subs, "disconnected")
        /\ Issue("disconnected")
        /\ Arm
        /\ Disturb(InFlight \/ \E j \in Clis : task[j] = "init")
     \/ /\ ~LastCli(k)
        /\ Disturb(\E j \in Clis : task[j] = "init")
        /\ UNCHANGED <<view, writes, armed, mapped>>
  /\ LeaveSubs(k)
  /\ Leaves(k)
  /\ UNCHANGED <<task, status, exited, event>>

\* onClose of a CLI or daemon that is not.
CloseIdle(k) ==
  /\ k \in (open \cap Clis) \ joined
  /\ open' = open \ {k}
  /\ Leaves(k)
  /\ UNCHANGED <<joined, subs, cli, task, stale, channel, view,
                 record, exited, event, calm>>

-----------------------------------------------------------------------------
(* SUBSCRIBE.                                                              *)

\* The frame arrives: ownership is queried.  Bound: one SUBSCRIBE per socket.
Subscribe(k) ==
  /\ k \in open
  /\ task[k] = "none"
  /\ task' = [task EXCEPT ![k] = "owner"]
  /\ UNCHANGED <<open, joined, subs, cli, stale, channel, view,
                 record, exited, event, orderly, calm>>

\* The user does not own the session (any more), or the query failed.
Refused(k) ==
  /\ task[k] = "owner"
  /\ task' = [task EXCEPT ![k] = "none"]
  /\ UNCHANGED <<open, joined, subs, cli, stale, channel, view,
                 record, exited, event, orderly, calm>>

\* The answer is yes (for a deleted session: from the cache).
Join(k) ==
  /\ task[k] = "owner"
  /\ joined' = joined \cup {k}
  /\ subs' = subs \cup {k}
  /\ channel' = TRUE

\* Mutant: presence is read off the subscribers.
JoinBrowserBySubs(b) ==
  /\ Join(b)
  /\ task' = [task EXCEPT ![b] = "none"]
  /\ Tell({b}, IF subs \cap Clis # {} THEN "connected" ELSE "disconnected")
  /\ UNCHANGED <<open, cli, stale, record, exited, event, orderly, calm>>

\* A browser is told at once whether a CLI is there.
JoinBrowser(b) ==
  /\ Join(b)
  /\ task' = [task EXCEPT ![b] = "none"]
  /\ Tell({b}, IF cli # {} THEN "connected" ELSE "disconnected")
  /\ UNCHANGED <<open, cli, stale, record, exited, event, orderly, calm>>

\* Mutant: the timer is cancelled and the status left as it is.
JoinCliKeepsStatus(k) ==
  /\ Join(k)
  /\ task' = [task EXCEPT ![k] = "init"]
  /\ Cancel
  /\ Disturb(IF mapped THEN InFlight ELSE Effective # "running" /\ ~exited)
  /\ UNCHANGED <<open, cli, stale, view, writes, status, exited, event, orderly>>

\* A CLI cancels the pending timer, and restores the status if there was one;
\* initSessionSeq is called.
JoinCli(k) ==
  /\ Join(k)
  /\ task' = [task EXCEPT ![k] = "init"]
  /\ mapped => Room
  /\ Cancel
  /\ IF mapped THEN Issue("running") ELSE UNCHANGED writes
  /\ Disturb(IF mapped THEN InFlight ELSE Effective # "running" /\ ~exited)
  /\ UNCHANGED <<open, cli, stale, view, status, exited, event, orderly>>

\* initSessionSeq is over: the CLI is counted and the browsers are told, those
\* of the subscriber set the handler looked up before its await.
Counted(k) ==
  /\ task[k] = "init"
  /\ task' = [task EXCEPT ![k] = "none"]
  /\ stale' = stale \ {k}
  /\ cli' = cli \cup {k}
  /\ Tell(IF k \in stale THEN {} ELSE subs, "connected")
  /\ UNCHANGED <<open, joined, subs, channel, record, exited, event, orderly, calm>>

-----------------------------------------------------------------------------
(* UNSUBSCRIBE, SESSION_ENDED and the end of the session.                  *)

UnsubscribeBrowser(b) ==
  /\ b \in open
  /\ joined' = joined \ {b}
  /\ LeaveSubs(b)
  /\ UNCHANGED <<open, cli, task, view, record, exited, event, orderly, calm>>

\* Mutant: the timer is cancelled whoever serves the session.
UnsubscribeCliAlwaysCancels(k) ==
  /\ k \in open
  /\ joined' = joined \ {k}
  /\ cli' = cli \ {k}
  /\ Cancel
  /\ IF LastCli(k) THEN Tell(subs, "disconnected") ELSE UNCHANGED view
  /\ LeaveSubs(k)
  /\ Disturb(\E j \in Clis : task[j] = "init")
  /\ Leaves(k)
  /\ UNCHANGED <<open, task, writes, status, exited, event>>

\* From a CLI whose program exited: no timer is needed any more.
UnsubscribeCli(k) ==
  /\ k \in open
  /\ joined' = joined \ {k}
  /\ cli' = cli \ {k}
  /\ IF LastCli(k) THEN Cancel /\ Tell(subs, "disconnected")
                   ELSE UNCHANGED <<armed, mapped, view>>
  /\ LeaveSubs(k)
  /\ Disturb(\E j \in Clis : task[j] = "init")
  /\ Leaves(k)
  /\ UNCHANGED <<open, task, writes, status, exited, event>>

\* cleanupPtySession: the CLI writes "stopped" itself, through the web server; it
\* goes on when that fails.
ReportExit ==
  /\ ~exited
  /\ exited' = TRUE
  /\ status' \in {status, IF status = "deleted" THEN status ELSE "stopped"}
  /\ Disturb(InFlight)
  /\ UNCHANGED <<sockets, armed, mapped, writes, event, orderly>>

\* SESSION_ENDED from a subscribed CLI whose program exited.
SendEnded(k) ==
  /\ k \in open \cap joined
  /\ exited
  /\ event' = TRUE
  /\ UNCHANGED <<sockets, record, exited, orderly, calm>>

\* deleteSession publishes the event before it deletes.
PublishDeleted ==
  /\ status # "deleted"
  /\ event' = TRUE
  /\ UNCHANGED <<sockets, record, exited, orderly, calm>>

Delete ==
  /\ status' = "deleted"
  /\ status # "deleted"
  /\ UNCHANGED <<sockets, armed, mapped, writes, exited, event, orderly, calm>>

\* The event comes back over Redis, if the relay listens: the timer goes.
Ended ==
  /\ event
  /\ event' = FALSE
  /\ IF channel THEN Cancel ELSE UNCHANGED <<armed, mapped>>
  /\ Disturb(channel /\ mapped /\ status # "deleted")
  /\ UNCHANGED <<sockets, writes, status, exited, orderly>>

-----------------------------------------------------------------------------
(* The timer, the database, the process.                                   *)

\* A grace timer fires; it removes whatever the map holds.
Fire ==
  /\ armed > 0
  /\ armed' = armed - 1
  /\ mapped' = FALSE
  /\ Issue("stopped")
  /\ Disturb(InFlight)
  /\ UNCHANGED <<sockets, status, exited, event, orderly>>

WriteDone(w) ==
  /\ writes[w] > 0
  /\ writes' = [writes EXCEPT ![w] = @ - 1]
  /\ status' = IF status = "deleted" THEN status ELSE w
  /\ UNCHANGED <<sockets, armed, mapped, exited, event, orderly, calm>>

\* The update fails: it is logged and not tried again.
WriteFail(w) ==
  /\ writes[w] > 0
  /\ writes' = [writes EXCEPT ![w] = @ - 1]
  /\ Disturb(TRUE)
  /\ UNCHANGED <<sockets, armed, mapped, status, exited, event, orderly>>

\* The relay restarts: timers and maps are gone, sockets are cut.
Restart ==
  /\ open' = {} /\ joined' = {} /\ subs' = {} /\ cli' = {}
  /\ task' = [k \in Sockets |-> "none"]
  /\ stale' = {}
  /\ channel' = FALSE
  /\ armed' = 0 /\ mapped' = FALSE
  /\ writes' = [w \in Written |-> 0]
  /\ event' = FALSE
  /\ Disturb(TRUE)
  /\ orderly' = TRUE
  /\ UNCHANGED <<view, status, exited>>

-----------------------------------------------------------------------------
Next ==
  \/ \E k \in Sockets : Connect(k) \/ Subscribe(k) \/ Refused(k)
  \/ \E b \in Browsers : CloseBrowser(b) \/ JoinBrowser(b) \/ UnsubscribeBrowser(b)
  \/ \E k \in Clis : \/ CloseCli(k) \/ CloseIdle(k) \/ JoinCli(k) \/ Counted(k)
                     \/ UnsubscribeCli(k) \/ SendEnded(k)
  \/ ReportExit \/ PublishDeleted \/ Delete \/ Ended
  \/ Fire \/ Restart
  \/ \E w \in Written : WriteDone(w) \/ WriteFail(w)

Spec == Init /\ [][Next]_vars

\* Timers fire, and the database answers what it was asked.
Fairness ==
  /\ WF_vars(Fire)
  /\ \A w \in Written : WF_vars(WriteDone(w) \/ WriteFail(w))

FairSpec == Spec /\ Fairness

-----------------------------------------------------------------------------
(* Properties.                                                             *)

TypeOK ==
  /\ open \in SUBSET Sockets /\ joined \in SUBSET Sockets
  /\ subs \in SUBSET Sockets /\ cli \in SUBSET Clis
  /\ task \in [Sockets -> {"none", "owner", "init"}]
  /\ stale \in SUBSET Clis
  /\ channel \in BOOLEAN
  /\ view \in [Browsers -> {"none", "connected", "disconnected"}]
  /\ armed \in Nat /\ mapped \in BOOLEAN
  /\ writes \in [Written -> Nat]
  /\ status \in Written \cup {"deleted"}
  /\ exited \in BOOLEAN /\ event \in BOOLEAN
  /\ orderly \in BOOLEAN /\ calm \in BOOLEAN

\* The relay listens on the session's Redis channels exactly while somebody is
\* in the subscriber set: output reaches whoever watches, whatever the order in
\* which sockets come, go and wait, and a session nobody watches costs nothing.
ListensWhileWatched == channel <=> subs # {}

\* Every browser in the subscriber set was told what the relay holds: that a CLI
\* is there, or that none is, however joins, leaves and waits interleave.  (A CLI
\* that left while its own SUBSCRIBE was under way is counted for ever after.)
BrowsersKnow ==
  orderly =>
    \A b \in Browsers \cap subs \cap open :
      view[b] = IF cli # {} THEN "connected" ELSE "disconnected"

\* A calm session that a CLI serves is recorded as running, at the latest when
\* the write in flight is executed, until its program exits.
ServedIsRunning ==
  calm /\ cli # {} /\ ~exited => Effective \in {"running", "deleted"}

\* A calm session never waits for ever: if its status is, or will be,
\* "disconnected", no CLI serves it and a timer the map holds will escalate it.
DisconnectedHasTimer ==
  calm /\ Effective = "disconnected" => cli = {} /\ mapped

\* A calm session has no timer that stoppedTimers lost track of, and none at all
\* while a CLI serves it: a CLI that is back is never stopped by an old timer.
NoStrayTimer ==
  calm => armed = (IF mapped THEN 1 ELSE 0) /\ (cli # {} => armed = 0)

\* A calm session has a timer when, and only when, something waits for it.
TimersFollow == DisconnectedHasTimer /\ NoStrayTimer

\* A calm session is not "disconnected" for ever: its CLI comes back, or it is
\* stopped, or deleted.
Escalates ==
  calm /\ status = "disconnected" ~> ~calm \/ status # "disconnected"

-----------------------------------------------------------------------------
(* Statements of the repository that the code does not keep.               *)

\* ws.ts:564, "Restore running status in case it was already marked stopped":
\* when a CLI serves the session, whose program did not exit, and no write is in
\* flight, the session is recorded as running.
BackIsRunning ==
  cli # {} /\ cli \subseteq open \cap joined /\ ~exited /\ ~InFlight => status # "stopped"

=============================================================================

---------------------------- MODULE PreviewAuth ----------------------------
(***************************************************************************)
(* How the frame of a preview on an origin of its own gets past the relay: *)
(* the page fetches the token of the login, the relay gives a cookie for   *)
(* it that is good for a while without the login being looked up again     *)
(* (apps/server/src/preview-auth.ts, preview-token.ts, auth-ws.ts), and    *)
(* the page renews the cookie in time (web-preview.tsx).                   *)
(*                                                                         *)
(* A tick is long against a query of the relay; the fetches of the page    *)
(* take as long as they like, and may overtake one another.                *)
(***************************************************************************)
EXTENDS Integers

CONSTANTS
  Runs,      \* bound: renewals at a time
  Ttl,        \* ticks a preview token is good for (5 minutes)
  Renewal,    \* ticks between renewals (4 minutes)
  MaxTokens, MaxTicks   \* bounds

ASSUME PreviewAuthAssumption ==
  /\ Ttl \in Nat /\ Renewal \in Nat \ {0} /\ Renewal < Ttl
  /\ MaxTokens \in Nat /\ MaxTicks \in Nat

VARIABLES
  now,
  shared,    \* the browser sends the cookie of the login to the preview's origin, too
  login,     \* the row of the login: its token and its last good tick, or LoggedOut
  cookie,    \* the token in the browser's cookie of the login, 0: none
  tokens,    \* tokens given so far
  preview,   \* the last tick the preview cookie is good for, or Never
  frame,     \* the pane: "closed", "asking", "shown", or "empty": it has given up
  renewal,   \* the tick at which the interval fires next
  run,      \* setPreviewCookie, each run of it; `live`: its pane is still there
  seen,      \* history: the last tick at which the login was good
  punctual   \* history: since the pane was opened every run ended in its tick, with success

previewAuthVars ==
  <<now, shared, login, cookie, tokens, preview, frame, renewal, run, seen, punctual>>

-----------------------------------------------------------------------------
Never == -1
LoggedOut == [token |-> 0, until |-> Never]

\* "begun": the token is being fetched; "posted": it is on its way to the relay;
\* "checked": the relay has looked it up; "made": the cookie is on its way back.
Stages == {"none", "begun", "posted", "checked", "made"}
NoRun == [stage |-> "none", live |-> FALSE, token |-> 0, until |-> Never]

\* authenticateWsToken.
Good(token) == token # 0 /\ token = login.token /\ now <= login.until

\* verifyPreviewToken.
Valid(until) == now <= until

\* Mutant: the first of the two that is good.
LetInByAge(sent, until) == sent # 0 \/ until # Never

\* authenticateWsConnection, for a request of the frame: the cookie of the login, if it
\* is sent, decides alone.
LetIn(sent, until) == IF sent # 0 THEN Good(sent) ELSE Valid(until)

\* What the frame sends.
Sent == IF shared THEN cookie ELSE 0

PreviewAuthInit ==
  /\ now = 0 /\ seen = Never /\ shared \in BOOLEAN
  /\ login = LoggedOut /\ cookie = 0 /\ tokens = 0
  /\ preview = Never
  /\ frame = "closed" /\ renewal = 0
  /\ run = [c \in Runs |-> NoRun]
  /\ punctual = TRUE

-----------------------------------------------------------------------------
(* Time and the login.                                                     *)

TickPasses ==
  /\ now < MaxTicks
  /\ \A c \in Runs : run[c].stage # "checked"
  /\ now' = now + 1
  /\ seen' = IF Good(login.token) THEN now ELSE seen
  /\ punctual' = (punctual /\ (\A c \in Runs : run[c] = NoRun)
                           /\ (frame = "shown" => now < renewal))
  /\ UNCHANGED <<shared, login, cookie, tokens, preview, frame, renewal, run>>

SignsIn ==
  /\ cookie = 0 /\ tokens < MaxTokens
  /\ tokens' = tokens + 1 /\ cookie' = tokens'
  /\ \E until \in now..MaxTicks : login' = [token |-> tokens', until |-> until]
  /\ seen' = now
  /\ UNCHANGED <<now, shared, preview, frame, renewal, run, punctual>>

\* In this browser, or from another one: then the cookie stays.
SignsOut ==
  /\ login # LoggedOut
  /\ login' = LoggedOut
  /\ seen' = IF Good(login.token) THEN now ELSE seen
  /\ cookie' \in {0, cookie}
  /\ UNCHANGED <<now, shared, tokens, preview, frame, renewal, run, punctual>>

\* The browser drops the cookie of a login that is over.
Forgets ==
  /\ cookie # 0 /\ ~Good(cookie)
  /\ cookie' = 0
  /\ UNCHANGED <<now, shared, login, tokens, preview, frame, renewal, run, seen, punctual>>

-----------------------------------------------------------------------------
(* The page.                                                               *)

Begins(c) ==
  /\ run[c] = NoRun
  /\ run' = [run EXCEPT ![c].stage = "begun", ![c].live = TRUE]

OpensPane(c) ==
  /\ frame = "closed"
  /\ frame' = "asking"
  /\ punctual' = \A d \in Runs : run[d] = NoRun
  /\ Begins(c)
  /\ UNCHANGED <<now, shared, login, cookie, tokens, preview, renewal, seen>>

ClosesPane ==
  /\ frame # "closed"
  /\ frame' = "closed"
  /\ run' = [c \in Runs |-> [run[c] EXCEPT !.live = FALSE]]
  /\ UNCHANGED <<now, shared, login, cookie, tokens, preview, renewal, seen, punctual>>

\* The interval; it does not wait for the run before.
Renews(c) ==
  /\ frame = "shown" /\ renewal <= now
  /\ renewal' = now + Renewal
  /\ Begins(c)
  /\ UNCHANGED <<now, shared, login, cookie, tokens, preview, frame, seen, punctual>>

\* A run ends without success: the first one is not made up for.
Gives(c) ==
  /\ run' = [run EXCEPT ![c] = NoRun]
  /\ frame' = IF run[c].live /\ frame = "asking" THEN "empty" ELSE frame
  /\ punctual' = FALSE

\* A fetch fails, is refused for its rate, or its reply is lost.
Fails(c) ==
  /\ run[c].stage \in {"begun", "posted", "made"}
  /\ Gives(c)
  /\ UNCHANGED <<now, shared, login, cookie, tokens, preview, renewal, seen>>

\* /api/ws-token; a pane that was closed meanwhile goes no further.
FetchesToken(c) ==
  /\ run[c].stage = "begun"
  /\ IF Good(cookie) /\ run[c].live
     THEN /\ run' = [run EXCEPT ![c].stage = "posted", ![c].token = cookie]
          /\ UNCHANGED <<frame, punctual>>
     ELSE Gives(c)
  /\ UNCHANGED <<now, shared, login, cookie, tokens, preview, renewal, seen>>

-----------------------------------------------------------------------------
(* /preview-auth.                                                          *)

Checks(c) ==
  /\ run[c].stage = "posted"
  /\ IF Good(run[c].token)
     THEN run' = [run EXCEPT ![c].stage = "checked"] /\ UNCHANGED <<frame, punctual>>
     ELSE Gives(c)
  /\ UNCHANGED <<now, shared, login, cookie, tokens, preview, renewal, seen>>

\* createPreviewToken.
MakesToken(c) ==
  /\ run[c].stage = "checked"
  /\ run' = [run EXCEPT ![c].stage = "made", ![c].until = now + Ttl]
  /\ UNCHANGED <<now, shared, login, cookie, tokens, preview, frame, renewal, seen, punctual>>

\* The browser keeps the cookie that comes last, though the pane be closed by then.
Keeps(c) ==
  /\ run[c].stage = "made"
  /\ preview' = run[c].until
  /\ run' = [run EXCEPT ![c] = NoRun]
  /\ IF run[c].live /\ frame = "asking"
     THEN frame' = "shown" /\ renewal' = now + Renewal
     ELSE UNCHANGED <<frame, renewal>>
  /\ UNCHANGED <<now, shared, login, cookie, tokens, seen, punctual>>

-----------------------------------------------------------------------------
PreviewAuthNext ==
  \/ TickPasses \/ SignsIn \/ SignsOut \/ Forgets \/ ClosesPane
  \/ \E c \in Runs :
       \/ OpensPane(c) \/ Renews(c) \/ FetchesToken(c) \/ Fails(c)
       \/ Checks(c) \/ MakesToken(c) \/ Keeps(c)

PreviewAuthSpec == PreviewAuthInit /\ [][PreviewAuthNext]_previewAuthVars

-----------------------------------------------------------------------------
(* Properties.                                                             *)

PreviewAuthTypeOK ==
  /\ now \in 0..MaxTicks /\ seen \in Never..MaxTicks /\ shared \in BOOLEAN
  /\ login \in [token : 0..MaxTokens, until : Never..MaxTicks]
  /\ cookie \in 0..MaxTokens /\ tokens \in 0..MaxTokens
  /\ preview \in Never..(MaxTicks + Ttl)
  /\ frame \in {"closed", "asking", "shown", "empty"}
  /\ renewal \in 0..(MaxTicks + Renewal)
  /\ run \in [Runs -> [stage : Stages, live : BOOLEAN, token : 0..MaxTokens,
                       until : Never..(MaxTicks + Ttl)]]
  /\ punctual \in BOOLEAN

\* Access ends with the login: who gets in is logged in, or was at most Ttl ticks ago,
\* whatever cookies arrive late or in which order.  And a pane that was shown gets in as
\* long as the login lasts, unless a renewal failed or was late: the cookie is renewed
\* before it is over.
AccessFollowsLogin ==
  /\ LetIn(Sent, preview) => Good(login.token) \/ (seen # Never /\ now - seen <= Ttl)
  /\ frame = "shown" /\ punctual /\ cookie # 0 /\ Good(cookie) => LetIn(Sent, preview)

=============================================================================

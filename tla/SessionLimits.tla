--------------------------- MODULE SessionLimits ---------------------------
(***************************************************************************)
(* How many sessions may run, and how long they are kept: createSession,   *)
(* updateSession and deleteSession (apps/web/src/graphql/resolvers/        *)
(* sessions.ts), the plans behind them (lib/plan.ts, lib/plan-limits.ts),  *)
(* and the clean-up job (app/api/cron/cleanup/route.ts), for one           *)
(* organisation.                                                           *)
(*                                                                         *)
(* A session is created in a transaction that holds an advisory lock of    *)
(* its user; two users of the organisation do not wait for each other.     *)
(***************************************************************************)
EXTENDS Integers, FiniteSets

CONSTANTS
  Members,     \* members of the organisation
  Creators,    \* requests to create a session
  UserOf,      \* the member who makes each of them
  Tiers,       \* PlanTier
  Starter,     \* the tier without a subscription
  UserLimit,   \* maxSessionsPerUser of each tier
  OrgLimit,    \* maxSessionsPerOrg of each tier, 0 for "seats"
  PerSeat, SeatCap,  \* 10 and 100
  Retention,   \* retentionDays of each tier, in days
  MaxAge       \* bound: days that are counted

ASSUME LimitsAssumption ==
  /\ UserOf \in [Creators -> Members] /\ IsFiniteSet(Members)
  /\ Starter \in Tiers /\ "none" \notin Tiers /\ IsFiniteSet(Tiers)
  /\ UserLimit \in [Tiers -> Nat \ {0}] /\ OrgLimit \in [Tiers -> Nat]
  /\ Retention \in [Tiers -> Nat]
  /\ PerSeat \in Nat /\ SeatCap \in Nat /\ MaxAge \in Nat

VARIABLES
  row,       \* the row of the session each request creates: its status, or "none", "gone"
  age,       \* days since its endedAt; NoDate while there is none
  making,    \* each request: "idle", "plan" (getOrgPlan), "lock", "count", "insert"
  counted,   \* what it has counted: sessions of its user, and of the organisation
  planOf,    \* the tier it has read
  tier,      \* the tier of the organisation's subscription
  planCache, \* the tier in planCache, or NoTier; it may have expired
  fresh,     \* the cache entry has not expired
  resumed    \* history: sessions that run because of an update

limitVars == <<row, age, making, counted, planOf, tier, planCache, fresh, resumed>>

-----------------------------------------------------------------------------
NoDate == -1
NoTier == "none"

\* "stopped" stands for "error" too.
Ended == {"stopped"}
Statuses == Ended \cup {"running", "disconnected"}

Running(S) == {k \in Creators : UserOf[k] \in S /\ row[k] = "running"}

\* getOrgSessionCap
OrgCap(t) ==
  IF OrgLimit[t] > 0 THEN OrgLimit[t]
  ELSE IF PerSeat * Cardinality(Members) < SeatCap
       THEN PerSeat * Cardinality(Members) ELSE SeatCap

Nothing == [user |-> 0, org |-> 0]

LimitsInit ==
  /\ row = [k \in Creators |-> "none"]
  /\ age = [k \in Creators |-> NoDate]
  /\ making = [k \in Creators |-> "idle"]
  /\ counted = [k \in Creators |-> Nothing]
  /\ planOf = [k \in Creators |-> Starter]
  /\ tier \in Tiers
  /\ planCache = NoTier /\ fresh = FALSE
  /\ resumed = {}

-----------------------------------------------------------------------------
(* Plans.                                                                  *)

\* getOrgPlan gives t: the cached tier, the one in the database, or when the database
\* fails the expired one, else the lowest.  A failure leaves the cache as it is.
Plan(t) ==
  \/ fresh /\ t = planCache /\ UNCHANGED <<planCache, fresh>>
  \/ ~fresh /\ t = tier /\ planCache' = t /\ fresh' = TRUE
  \/ ~fresh /\ t = (IF planCache # NoTier THEN planCache ELSE Starter)
            /\ UNCHANGED <<planCache, fresh>>

PlanExpires ==
  /\ fresh
  /\ fresh' = FALSE
  /\ UNCHANGED <<row, age, making, counted, planOf, tier, planCache, resumed>>

\* The subscription changes (Stripe).
Subscribe(t) ==
  /\ t # tier
  /\ tier' = t
  /\ UNCHANGED <<row, age, making, counted, planOf, planCache, fresh, resumed>>

-----------------------------------------------------------------------------
(* createSession.                                                          *)

Step(k, s) == making' = [making EXCEPT ![k] = s]

Asks(k) ==
  /\ making[k] = "idle" /\ row[k] = "none"
  /\ Step(k, "plan")
  /\ UNCHANGED <<row, age, counted, planOf, tier, planCache, fresh, resumed>>

ReadsPlan(k) ==
  /\ making[k] = "plan"
  /\ Step(k, "lock")
  /\ \E t \in Tiers : Plan(t) /\ planOf' = [planOf EXCEPT ![k] = t]
  /\ UNCHANGED <<row, age, counted, tier, resumed>>

\* Mutant: the lock is not taken.
FreeAlways(u) == TRUE

\* No transaction holds the lock of the user.
Free(u) == \A k \in Creators : UserOf[k] = u => making[k] \notin {"count", "insert"}

TakesLock(k) ==
  /\ making[k] = "lock"
  /\ Free(UserOf[k])
  /\ Step(k, "count")
  /\ UNCHANGED <<row, age, counted, planOf, tier, planCache, fresh, resumed>>

\* The queries run on one connection, one after the other, and each sees what is
\* committed; what changes between them is seen as if it changed before or after.
Counts(k) ==
  /\ making[k] = "count"
  /\ counted' = [counted EXCEPT ![k] = [user |-> Cardinality(Running({UserOf[k]})),
                                        org |-> Cardinality(Running(Members))]]
  /\ Step(k, "insert")
  /\ UNCHANGED <<row, age, planOf, tier, planCache, fresh, resumed>>

\* Both limits are compared, the row is inserted and the transaction commits; or an
\* error is thrown and it is rolled back.
Inserts(k) ==
  /\ making[k] = "insert"
  /\ Step(k, "idle")
  /\ IF counted[k].user < UserLimit[planOf[k]] /\ counted[k].org < OrgCap(planOf[k])
     THEN row' = [row EXCEPT ![k] = "running"]
     ELSE UNCHANGED row
  /\ counted' = [counted EXCEPT ![k] = Nothing]
  /\ planOf' = [planOf EXCEPT ![k] = Starter]
  /\ UNCHANGED <<age, tier, planCache, fresh, resumed>>

-----------------------------------------------------------------------------
(* updateSession, deleteSession and the clean-up.                          *)

\* The owner sets the status, and endedAt or not; the relay marks sessions too.
\* Nothing is counted, and endedAt stays when a session runs again.
Updates(k, s, dated) ==
  /\ row[k] \in Statuses
  /\ row[k] # s \/ dated
  /\ row' = [row EXCEPT ![k] = s]
  /\ age' = IF dated THEN [age EXCEPT ![k] = 0] ELSE age
  /\ resumed' = CASE s # "running" -> resumed \ {k}
                  [] s = "running" /\ row[k] # "running" -> resumed \cup {k}
                  [] OTHER -> resumed
  /\ UNCHANGED <<making, counted, planOf, tier, planCache, fresh>>

Deletes(k) ==
  /\ row[k] \in Statuses
  /\ row' = [row EXCEPT ![k] = "gone"]
  /\ age' = [age EXCEPT ![k] = NoDate]
  /\ resumed' = resumed \ {k}
  /\ UNCHANGED <<making, counted, planOf, tier, planCache, fresh>>

\* Mutant: every status may be cleaned up.
ExpiredAny(d) == {k \in Creators : row[k] \in Statuses /\ age[k] > d}

\* The rows the job deletes when the retention is d days.
Expired(d) == {k \in Creators : row[k] \in Ended /\ age[k] > d}

\* The job looks the plan up and deletes in one statement.
CleansUp ==
  /\ \E k \in Creators : row[k] \in Ended /\ age[k] # NoDate
  /\ \E t \in Tiers :
       /\ Plan(t)
       /\ row' = [k \in Creators |-> IF k \in Expired(Retention[t]) THEN "gone" ELSE row[k]]
       /\ age' = [k \in Creators |-> IF row'[k] = "gone" THEN NoDate ELSE age[k]]
  /\ UNCHANGED <<making, counted, planOf, tier, resumed>>

Day ==
  /\ \E k \in Creators : age[k] \in 0..(MaxAge - 1)
  /\ age' = [k \in Creators |-> IF age[k] \in 0..(MaxAge - 1) THEN age[k] + 1 ELSE age[k]]
  /\ UNCHANGED <<row, making, counted, planOf, tier, planCache, fresh, resumed>>

-----------------------------------------------------------------------------
LimitsNext ==
  \/ \E k \in Creators :
       \/ Asks(k) \/ ReadsPlan(k) \/ TakesLock(k) \/ Counts(k) \/ Inserts(k)
       \/ Deletes(k)
       \/ \E s \in Statuses, dated \in BOOLEAN : Updates(k, s, dated)
  \/ \E t \in Tiers : Subscribe(t)
  \/ PlanExpires \/ CleansUp \/ Day

LimitsSpec == LimitsInit /\ [][LimitsNext]_limitVars

-----------------------------------------------------------------------------
(* Properties.                                                             *)

LimitsTypeOK ==
  /\ row \in [Creators -> Statuses \cup {"none", "gone"}]
  /\ age \in [Creators -> {NoDate} \cup 0..MaxAge]
  /\ making \in [Creators -> {"idle", "plan", "lock", "count", "insert"}]
  /\ counted \in [Creators -> [user : Nat, org : Nat]]
  /\ planOf \in [Creators -> Tiers] /\ tier \in Tiers
  /\ planCache \in Tiers \cup {NoTier} /\ fresh \in BOOLEAN
  /\ fresh => planCache # NoTier
  /\ resumed \subseteq Creators

\* sessions.ts:131, "Enforce concurrent session limits inside a serialized
\* transaction".  Of one user: a session that is created is within the limit of the
\* plan that was read, but for sessions that an update has set running.  Of the
\* organisation: its limit (the highest, if the plan changes) is exceeded by at most
\* one session for each member but one, those created at the same time.
LimitsKept ==
  [][\A k \in Creators : row[k] = "none" /\ row'[k] = "running" =>
       /\ Cardinality(Running({UserOf[k]})' \ resumed) <= UserLimit[planOf[k]]
       /\ \E t \in Tiers :
            Cardinality(Running(Members)' \ resumed) <= OrgCap(t) + Cardinality(Members) - 1]_limitVars

\* route.ts:35, "Terminal sessions (per-org retention)".  Only deletions by a user take
\* a session that has not ended; the job takes no session before the retention of the
\* plan is over, unless the plan has changed since it was cached or could not be read.
KeptForRetention ==
  [][CleansUp => \A k \in Creators : row[k] # "gone" /\ row'[k] = "gone" =>
       /\ row[k] \in Ended
       /\ age[k] > Retention[tier] \/ planCache' # tier]_limitVars

=============================================================================

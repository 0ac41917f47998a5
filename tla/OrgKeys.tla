------------------------------- MODULE OrgKeys -------------------------------
(***************************************************************************)
(* The key pair of an organisation: set up once by an administrator, who   *)
(* seals the private key for itself, and then granted to each member that  *)
(* has asked for it, by the browser of any administrator that polls        *)
(* (graphql/resolvers/org-keys.ts and hooks/use-auto-key-grant.ts).  Every *)
(* resolver reads and writes in separate statements.  `anyterm run` seals  *)
(* the key of a session for it (commands/run.ts), and who holds a key can  *)
(* open the session (terminal-view.tsx).                                   *)
(*                                                                         *)
(* Encryption is perfect: a box sealed with sealMessage or                 *)
(* encryptSessionKey opens with the key of the pair it was sealed for.     *)
(***************************************************************************)
EXTENDS FiniteSets

CONSTANTS
  People,    \* members of the organisation
  Admins     \* those who may set and grant keys

ASSUME OrgAssumption == Admins \subseteq People /\ "none" \notin Admins

VARIABLES
  orgKey,    \* publicKey of the organisation: who set it, or NoKey
  held,      \* encryptedOrgPrivateKey of each member: the pair it belongs to, or NoKey
  pending,   \* members with keyGrantPending
  setting,   \* each administrator's setOrgKeys: "no", "checked", "published"
  marking,   \* members whose orgKeys query is about to set keyGrantPending
  poll,      \* each administrator's poll: the members it will grant a key to, and the key
  granting,  \* <<administrator, member>>: grantOrgKey has checked that it is pending
  choosing,  \* pairs some `anyterm run` has chosen and not yet sealed a session for
  sealed,    \* pairs of the organisation that sessions have been sealed for
  broken     \* history: two setOrgKeys at once, or one that failed half-way

sessions == <<choosing, sealed>>
orgVars == <<orgKey, held, pending, setting, marking, poll, granting, sessions, broken>>

-----------------------------------------------------------------------------
NoKey == "none"
NoPoll == [todo |-> {}, key |-> NoKey]

OrgInit ==
  /\ orgKey = NoKey
  /\ held = [m \in People |-> NoKey]
  /\ pending = {} /\ marking = {} /\ granting = {}
  /\ setting = [a \in Admins |-> "no"]
  /\ poll = [a \in Admins |-> NoPoll]
  /\ choosing = {} /\ sealed = {}
  /\ broken = FALSE

-----------------------------------------------------------------------------
(* setOrgKeys.                                                             *)

\* Mutant: keys that are there are not noticed.
ChecksOrgLoosely(a) ==
  /\ setting[a] = "no"
  /\ setting' = [setting EXCEPT ![a] = "checked"]
  /\ broken' = (broken \/ \E b \in Admins : setting[b] # "no")
  /\ UNCHANGED <<orgKey, held, pending, marking, poll, granting, sessions>>

ChecksOrg(a) ==
  /\ setting[a] = "no"
  /\ orgKey = NoKey
  /\ setting' = [setting EXCEPT ![a] = "checked"]
  /\ broken' = (broken \/ \E b \in Admins : setting[b] # "no")
  /\ UNCHANGED <<orgKey, held, pending, marking, poll, granting, sessions>>

Publishes(a) ==
  /\ setting[a] = "checked"
  /\ setting' = [setting EXCEPT ![a] = "published"]
  /\ orgKey' = a
  /\ UNCHANGED <<held, pending, marking, poll, granting, sessions, broken>>

\* The administrator's own key is stored, or the second update fails.
KeepsOwn(a) ==
  /\ setting[a] = "published"
  /\ setting' = [setting EXCEPT ![a] = "no"]
  /\ \/ held' = [held EXCEPT ![a] = a] /\ pending' = pending \ {a} /\ UNCHANGED broken
     \/ broken' = TRUE /\ UNCHANGED <<held, pending>>
  /\ UNCHANGED <<orgKey, marking, poll, granting, sessions>>

-----------------------------------------------------------------------------
(* The orgKeys query marks a member that has no key.                       *)

ReadsKeys(m) ==
  /\ m \notin marking
  /\ orgKey # NoKey /\ held[m] = NoKey /\ m \notin pending
  /\ marking' = marking \cup {m}
  /\ UNCHANGED <<orgKey, held, pending, setting, poll, granting, sessions, broken>>

Marks(m) ==
  /\ m \in marking
  /\ marking' = marking \ {m}
  /\ pending' = pending \cup {m}
  /\ UNCHANGED <<orgKey, held, setting, poll, granting, sessions, broken>>

-----------------------------------------------------------------------------
(* The poll of an administrator's browser.                                 *)

Polls(a) ==
  /\ poll[a] = NoPoll
  /\ pending # {} /\ held[a] # NoKey
  /\ poll' = [poll EXCEPT ![a] = [todo |-> pending, key |-> held[a]]]
  /\ UNCHANGED <<orgKey, held, pending, setting, marking, granting, sessions, broken>>

Done(a, m) ==
  poll' = [poll EXCEPT ![a] = IF @.todo = {m} THEN NoPoll ELSE [todo |-> @.todo \ {m}, key |-> @.key]]

\* grantOrgKey: the member has to be pending.
ChecksPending(a, m) ==
  /\ m \in poll[a].todo /\ \A n \in People : <<a, n>> \notin granting
  /\ IF m \in pending
     THEN granting' = granting \cup {<<a, m>>} /\ UNCHANGED poll
     ELSE Done(a, m) /\ UNCHANGED granting
  /\ UNCHANGED <<orgKey, held, pending, setting, marking, sessions, broken>>

Grants(a, m) ==
  /\ <<a, m>> \in granting
  /\ granting' = granting \ {<<a, m>>}
  /\ held' = [held EXCEPT ![m] = poll[a].key]
  /\ pending' = pending \ {m}
  /\ Done(a, m)
  /\ UNCHANGED <<orgKey, setting, marking, sessions, broken>>

-----------------------------------------------------------------------------
(* Sessions.                                                               *)

\* The organisation's key is asked for.  If there is none, or the query fails, and always
\* in a daemon, the session is sealed for its user, and is for nobody else to open.
Chooses ==
  /\ orgKey # NoKey /\ orgKey \notin choosing
  /\ choosing' = choosing \cup {orgKey}
  /\ UNCHANGED <<orgKey, held, pending, setting, marking, poll, granting, sealed, broken>>

\* createSession.
Seals(k) ==
  /\ k \in choosing
  /\ choosing' = choosing \ {k}
  /\ sealed' = sealed \cup {k}
  /\ UNCHANGED <<orgKey, held, pending, setting, marking, poll, granting, broken>>

\* encryptSessionKey and decryptSessionKey: what was sealed for one pair opens with no
\* other.
OpensFor(k, box) == k = box

\* unlockSession, of a session that is not sealed for the user.
CanOpen(m, k) == held[m] # NoKey /\ OpensFor(held[m], k)

-----------------------------------------------------------------------------
OrgNext ==
  \/ \E a \in Admins : ChecksOrg(a) \/ Publishes(a) \/ KeepsOwn(a) \/ Polls(a)
  \/ \E a \in Admins, m \in People : ChecksPending(a, m) \/ Grants(a, m)
  \/ \E m \in People : ReadsKeys(m) \/ Marks(m)
  \/ Chooses
  \/ \E k \in Admins : Seals(k)

OrgSpec == OrgInit /\ [][OrgNext]_orgVars

-----------------------------------------------------------------------------
(* Properties.                                                             *)

OrgTypeOK ==
  /\ orgKey \in Admins \cup {NoKey}
  /\ held \in [People -> Admins \cup {NoKey}]
  /\ pending \subseteq People /\ marking \subseteq People
  /\ setting \in [Admins -> {"no", "checked", "published"}]
  /\ poll \in [Admins -> [todo : SUBSET People, key : Admins \cup {NoKey}]]
  /\ granting \subseteq Admins \X People
  /\ choosing \subseteq Admins
  /\ sealed \subseteq Admins
  /\ broken \in BOOLEAN

\* org-keys.ts:166, "Only allow setting keys if org doesn't have a publicKey yet": unless
\* two administrators set the keys up at once or one failed half-way, whoever holds a key
\* holds that of the organisation, whatever polls and grants overlap; a key, once set,
\* is held by somebody who can grant it, or is about to be; and every session that was
\* sealed for the organisation, however long after its key was asked for, opens for
\* everybody who holds a key.
GrantedKeysAgree ==
  ~broken =>
    /\ \A m \in People : held[m] \in {NoKey, orgKey}
    /\ orgKey # NoKey => \E a \in Admins : held[a] = orgKey \/ setting[a] = "published"
    /\ \A k \in sealed, m \in People : held[m] # NoKey => CanOpen(m, k)

=============================================================================

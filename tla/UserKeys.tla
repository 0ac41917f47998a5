------------------------------ MODULE UserKeys ------------------------------
(***************************************************************************)
(* The key pair of a user: its private key is stored under a master key    *)
(* derived from the password, so a change of the password has two halves,  *)
(* made by two calls of a browser tab (password-section.tsx):              *)
(* updateUserKeys (graphql/resolvers/user.ts) and then changePassword      *)
(* (better-auth).  Every tab keeps the master key it entered with in its   *)
(* sessionStorage, and reads the sessions with it.  A user of a social     *)
(* login has no password; the pair is made once, in the encryption gate    *)
(* (encryption-gate.tsx, resolvers/setup-keys.ts).                         *)
(*                                                                         *)
(* Passwords are numbers in the order in which they are thought of; a salt *)
(* is drawn with each of them, so the number stands for the master key.    *)
(***************************************************************************)
EXTENDS Integers

CONSTANTS
  Tabs,         \* browser tabs of the user, each with the page that it shows
  MaxPassword   \* bound: passwords

ASSUME KeysAssumption == MaxPassword \in Nat /\ "none" \notin Tabs

VARIABLES
  account,   \* the password of the account, or NoPassword
  lock,      \* keySalt and encryptedPrivateKey: the password they are made with
  pair,      \* publicKey of the user: who made it, or NoPair
  orgPair,   \* publicKey of the personal organisation
  tab,       \* what each tab does
  gone,      \* tabs whose page was left while its call was on its way, or served
  master,    \* anyterm_master_key in the sessionStorage of each tab
  asks,      \* tabs whose terminal page asks for the password
  newest,    \* passwords thought of so far
  behind,    \* history: tabs whose master key was not verified, or overtaken since
  lost,      \* history: a reply got lost, or a call failed half-way
  overlapped \* history: two tabs were at it at once, or the password was reset by mail

stored == <<account, lock, pair, orgPair>>
keyHistory == <<newest, behind, lost, overlapped>>
keyVars == <<stored, tab, gone, master, asks, keyHistory>>

-----------------------------------------------------------------------------
NoPassword == -1
NoPair == "none"

\* "out": another page, or none; "gate": the encryption gate, with the keys it has
\* fetched in `from`; "entering": the login form has them; "in".  A change: "fetched":
\* the private key is decrypted; "verified": updateUserKeys has accepted the password;
\* "stored"; "revert", "reverify": the same call again, to revert.  The first keys:
\* "checked", "made": setupEncryptionKeys before and after its first update.
Doing == {"out", "gate", "entering", "in",
          "fetched", "verified", "stored", "revert", "reverify", "checked", "made"}

Changing == Doing \ {"out", "gate", "entering", "in"}

Outside == [doing |-> "out", from |-> NoPassword, to |-> NoPassword]
Inside == [doing |-> "in", from |-> NoPassword, to |-> NoPassword]

Quiet == \A t \in Tabs : tab[t].doing \notin Changing

KeysInit ==
  /\ account = NoPassword /\ lock = NoPassword /\ pair = NoPair /\ orgPair = NoPair
  /\ tab = [t \in Tabs |-> Outside]
  /\ master = [t \in Tabs |-> NoPassword]
  /\ gone = {} /\ asks = {} /\ behind = {}
  /\ newest = 0
  /\ lost = FALSE /\ overlapped = FALSE

Goes(t, s) == tab' = [tab EXCEPT ![t].doing = s] /\ UNCHANGED gone

\* The call is over, and nothing follows: the tab is inside, if its page is still there.
Rests(t) ==
  /\ tab' = [tab EXCEPT ![t] = IF t \in gone THEN Outside ELSE Inside]
  /\ gone' = gone \ {t}

\* encryptPrivateKey and decryptPrivateKey: what was encrypted with one master key opens
\* with no other.
OpensWith(p, box) == p = box

\* The password is stored as the master key of the tab, which is then inside.
KeepsKey(t, p, up) ==
  /\ t \notin gone
  /\ Rests(t)
  /\ master' = [master EXCEPT ![t] = p]
  /\ behind' = IF up THEN behind \ {t} ELSE behind \cup {t}

-----------------------------------------------------------------------------
(* Into the application.                                                   *)

\* The hook that runs after a user is created: the personal organisation has the same
\* public key.  A failure is logged, and the user has no organisation.
MakesPersonalOrg(t) ==
  \/ orgPair' = t /\ UNCHANGED lost
  \/ lost' = TRUE /\ UNCHANGED orgPair

\* The register form: better-auth stores the keys with the user.
Registers(t) ==
  /\ pair = NoPair /\ \A u \in Tabs : tab[u] = Outside
  /\ newest < MaxPassword
  /\ newest' = newest + 1
  /\ account' = newest' /\ lock' = newest' /\ pair' = t
  /\ MakesPersonalOrg(t)
  /\ KeepsKey(t, newest', TRUE)
  /\ UNCHANGED <<asks, overlapped>>

\* The login form: the right password, and the keys are fetched.
LogsIn(t) ==
  /\ tab[t] = Outside
  /\ account # NoPassword
  /\ tab' = [tab EXCEPT ![t] = [doing |-> "entering", from |-> lock, to |-> account]]
  /\ UNCHANGED <<stored, gone, master, asks, keyHistory>>

\* It verifies that the private key opens before it keeps the master key.
OpensKeys(t) ==
  /\ tab[t].doing = "entering"
  /\ IF OpensWith(tab[t].to, tab[t].from)
     THEN KeepsKey(t, tab[t].to, lock = tab[t].to)
     ELSE tab' = [tab EXCEPT ![t] = Outside] /\ UNCHANGED <<gone, master, behind>>
  /\ UNCHANGED <<stored, asks, newest, lost, overlapped>>

\* A page of the application, logged in by a cookie: the gate lets a tab with a master
\* key pass, whatever the key; otherwise it fetches the keys, once.
Comes(t) ==
  /\ tab[t] = Outside
  /\ tab' = [tab EXCEPT ![t] = IF master[t] # NoPassword THEN Inside
                               ELSE [doing |-> "gate", from |-> lock, to |-> NoPassword]]
  /\ UNCHANGED <<stored, gone, master, asks, keyHistory>>

\* The gate: the password that opens the keys it has fetched.
Unlocks(t) ==
  /\ tab[t].doing = "gate" /\ tab[t].from # NoPassword
  /\ KeepsKey(t, tab[t].from, lock = tab[t].from)
  /\ UNCHANGED <<stored, asks, newest, lost, overlapped>>

\* The page is left; with the tab its sessionStorage goes.  The call it waits for goes
\* on, unless it never arrives or is not made yet; what the tab shows meanwhile is then
\* another member of Tabs.
Leaves(t) ==
  /\ tab[t] # Outside /\ t \notin gone
  /\ asks' = asks \ {t}
  /\ \/ UNCHANGED <<master, behind>>
     \/ master' = [master EXCEPT ![t] = NoPassword] /\ behind' = behind \ {t}
  /\ \/ tab' = [tab EXCEPT ![t] = Outside] /\ UNCHANGED gone
        /\ lost' = (lost \/ tab[t].doing \in Changing \ {"fetched"})
     \/ tab[t].doing \in Changing /\ gone' = gone \cup {t} /\ UNCHANGED tab
        /\ lost' = TRUE
  /\ UNCHANGED <<stored, newest, overlapped>>

-----------------------------------------------------------------------------
(* A terminal page opens its session.                                      *)

\* unlockSession with master key p: the page shows the terminal, or asks for the
\* password: the keys could not be fetched, p does not open them, or the session is
\* sealed for an organisation whose key the user has not been granted.
Tries(t, p) ==
  \/ lock # NoPassword /\ OpensWith(p, lock) /\ asks' = asks \ {t}
  \/ asks' = asks \cup {t}

Opens(t) ==
  /\ tab[t].doing = "in"
  /\ Tries(t, master[t])
  /\ UNCHANGED <<stored, tab, gone, master, keyHistory>>

\* The key-unlock dialog keeps what it is given, and only then tries it.
Answers(t) ==
  /\ tab[t].doing = "in" /\ t \in asks
  /\ lock # NoPassword
  /\ \E p \in 0..newest : KeepsKey(t, p, p = lock) /\ Tries(t, p)
  /\ UNCHANGED <<stored, newest, lost, overlapped>>

-----------------------------------------------------------------------------
(* A change of the password.                                               *)

\* The keys are fetched and decrypted with the current password.
Fetches(t) ==
  /\ tab[t].doing = "in" /\ t \notin asks
  /\ lock # NoPassword /\ newest < MaxPassword
  /\ newest' = newest + 1
  /\ tab' = [tab EXCEPT ![t] = [doing |-> "fetched", from |-> lock, to |-> newest']]
  /\ overlapped' = (overlapped \/ ~Quiet)
  /\ UNCHANGED <<stored, gone, master, asks, behind, lost>>

\* Mutant: the password is not verified.
VerifiedAny(t) == TRUE

\* signInEmail with what the tab calls the current password.
Verified(t) == account = tab[t].from

Verifies(t) ==
  /\ tab[t].doing = "fetched"
  /\ IF Verified(t) THEN Goes(t, "verified") ELSE Rests(t)
  /\ UNCHANGED <<stored, master, asks, keyHistory>>

\* The other tabs keep the master keys they have.
Overtakes(t) == behind' = behind \cup {u \in Tabs \ {t} : master[u] # NoPassword}

\* The row is updated; the tab may not hear of it.
Stores(t) ==
  /\ tab[t].doing = "verified"
  /\ lock' = tab[t].to
  /\ Overtakes(t)
  /\ \/ t \notin gone /\ Goes(t, "stored") /\ UNCHANGED lost
     \/ Rests(t) /\ lost' = TRUE
  /\ UNCHANGED <<account, pair, orgPair, master, asks, newest, overlapped>>

\* changePassword verifies the password, too.
Changes(t) == account = tab[t].from /\ account' = tab[t].to

\* It is done, or not; the tab gets the reply, an error, or an exception (the request or
\* its reply is lost), after which it gives up.
ChangesPassword(t) ==
  /\ tab[t].doing = "stored"
  /\ \/ Changes(t) /\ KeepsKey(t, tab[t].to, lock = tab[t].to) /\ UNCHANGED lost
     \/ /\ Changes(t) \/ UNCHANGED account
        /\ t \notin gone /\ Goes(t, "revert") /\ UNCHANGED <<lost, master, behind>>
     \/ /\ Changes(t) \/ UNCHANGED account
        /\ Rests(t) /\ lost' = TRUE /\ UNCHANGED <<master, behind>>
  /\ UNCHANGED <<lock, pair, orgPair, asks, newest, overlapped>>

\* A change that was done after all is not reverted, and its master key is not kept.
VerifiesAgain(t) ==
  /\ tab[t].doing = "revert"
  /\ \/ Verified(t) /\ Goes(t, "reverify") /\ UNCHANGED <<lost, behind>>
     \/ ~Verified(t) /\ Rests(t) /\ behind' = behind \cup {t} /\ UNCHANGED lost
     \/ Rests(t) /\ lost' = TRUE /\ UNCHANGED behind
  /\ UNCHANGED <<stored, master, asks, newest, overlapped>>

Reverts(t) ==
  /\ tab[t].doing = "reverify"
  /\ lock' = tab[t].from
  /\ Rests(t)
  /\ Overtakes(t)
  /\ UNCHANGED <<account, pair, orgPair, master, asks, newest, lost, overlapped>>

\* The reset by mail (app/(auth)/reset-password/page.tsx) does not touch the keys.
Resets ==
  /\ account # NoPassword /\ newest < MaxPassword
  /\ newest' = newest + 1
  /\ account' = newest'
  /\ overlapped' = TRUE
  /\ UNCHANGED <<lock, pair, orgPair, tab, gone, master, asks, behind, lost>>

-----------------------------------------------------------------------------
(* The first keys of a social login, in the gate.                          *)

ChecksNoKeys(t) ==
  /\ tab[t].doing = "gate" /\ tab[t].from = NoPassword
  /\ lock = NoPassword /\ newest < MaxPassword
  /\ newest' = newest + 1
  /\ tab' = [tab EXCEPT ![t] = [doing |-> "checked", from |-> NoPassword, to |-> newest']]
  /\ overlapped' = (overlapped \/ ~Quiet)
  /\ UNCHANGED <<stored, gone, master, asks, behind, lost>>

Makes(t) ==
  /\ tab[t].doing = "checked"
  /\ lock' = tab[t].to
  /\ pair' = t
  /\ Goes(t, "made")
  /\ UNCHANGED <<account, orgPair, master, asks, keyHistory>>

\* The personal organisation follows, unless the second update fails.  The gate reports an
\* error when it does, or when the reply is lost.
MakesOrg(t) ==
  /\ tab[t].doing = "made"
  /\ \/ orgPair' = t /\ KeepsKey(t, tab[t].to, lock = tab[t].to) /\ UNCHANGED lost
     \/ /\ orgPair' \in {orgPair, t}
        /\ IF t \in gone THEN Rests(t) ELSE Goes(t, "gate")
        /\ lost' = TRUE /\ UNCHANGED <<master, behind>>
  /\ UNCHANGED <<account, lock, pair, asks, newest, overlapped>>

-----------------------------------------------------------------------------
KeysNext ==
  \/ \E t \in Tabs :
       \/ Registers(t) \/ LogsIn(t) \/ OpensKeys(t) \/ Comes(t) \/ Unlocks(t) \/ Leaves(t)
       \/ Opens(t) \/ Answers(t)
       \/ Fetches(t) \/ Verifies(t) \/ Stores(t) \/ ChangesPassword(t)
       \/ VerifiesAgain(t) \/ Reverts(t)
       \/ ChecksNoKeys(t) \/ Makes(t) \/ MakesOrg(t)
  \/ Resets

KeysSpec == KeysInit /\ [][KeysNext]_keyVars

-----------------------------------------------------------------------------
(* Properties.                                                             *)

Passwords == {NoPassword} \cup 0..MaxPassword

KeysTypeOK ==
  /\ account \in Passwords /\ lock \in Passwords
  /\ pair \in Tabs \cup {NoPair} /\ orgPair \in Tabs \cup {NoPair}
  /\ tab \in [Tabs -> [doing : Doing, from : Passwords, to : Passwords]]
  /\ master \in [Tabs -> Passwords]
  /\ gone \subseteq Tabs /\ asks \subseteq Tabs /\ behind \subseteq Tabs
  /\ newest \in 0..MaxPassword
  /\ lost \in BOOLEAN /\ overlapped \in BOOLEAN

\* password-section.tsx:103, "we can't end up with changed password but old keys".  As
\* long as one tab at a time is at it (the calls of a page that was left included), and
\* the password is not reset: the keys are never behind the password, even between the
\* calls, when a reply is lost, a page is left or a call that was done is reported as
\* failed; and when no reply got lost, then once all is quiet the keys open with the
\* password, the personal organisation has the user's key, and every master key opens
\* them but one that was overtaken by another tab, or never verified.
KeysFollowPassword ==
  ~overlapped =>
    /\ account # NoPassword => lock >= account
    /\ Quiet /\ ~lost =>
         /\ account # NoPassword => lock = account
         /\ orgPair = pair
         /\ \A t \in Tabs \ behind : master[t] \in {NoPassword, lock}

=============================================================================

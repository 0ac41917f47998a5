------------------------------ MODULE CliConfig ------------------------------
(***************************************************************************)
(* What the CLI keeps on a machine: the configuration file (packages/cli/  *)
(* src/config.ts, the library conf), the secrets in the keychain of the    *)
(* system or, without one, in the file (secure-store.ts), the migration    *)
(* from the flat version 1 (migrate.ts), and the commands that use them:   *)
(* login, logout, and those that begin with getConfig.                     *)
(*                                                                         *)
(* Commands run one after the other, and each can be killed between any    *)
(* two writes.  config.store reads the file anew, config.set and the       *)
(* assignment to config.store write it.  Secrets and blocks of one login   *)
(* carry its number; the login of version 1 has the number 0.              *)
(*                                                                         *)
(* A secret is written to, or deleted from, both of its places in one      *)
(* step: they differ only once the keychain has come or gone.  The         *)
(* environment variables that may hold secrets are not set.                *)
(***************************************************************************)
EXTENDS Integers

CONSTANTS
  Servers,     \* server URLs
  Legacy,      \* the one of the flat configuration
  MaxLogins    \* bound: logins

ASSUME ConfigAssumption ==
  /\ Legacy \in Servers /\ "none" \notin Servers /\ "flat" \notin Servers
  /\ MaxLogins \in Nat

VARIABLES
  file,      \* the configuration file
  chain,     \* the keychain: for each server, and "flat", the two secrets
  up,        \* the keychain can be used
  proc,      \* the command that runs
  logins,    \* logins so far
  got,       \* what getConfig has returned to the last command, or NoGot
  finished,  \* history: the last login to each server that came to its end
  upgraded,  \* history: the flat configuration was there
  left,      \* history: a logout of the flat configuration's server has begun
  disturbed  \* history: a login was cut short or came before the migration, or the
             \* keychain came or went

configVars == <<file, chain, up, proc, logins, got, finished, upgraded, left, disturbed>>

-----------------------------------------------------------------------------
NoLogin == -1
NoServer == "none"
Logins == 0..MaxLogins
Secrets == {"authToken", "masterKey"}
NoSecrets == [k \in Secrets |-> NoLogin]

\* An entry of servers: its block, and the secrets kept in plain text.
NoEntry == [block |-> NoLogin, plain |-> NoSecrets]

EmptyFile ==
  [flat |-> NoLogin, flatPlain |-> NoSecrets, stamped |-> FALSE, active |-> NoServer,
   hasServers |-> FALSE, servers |-> [s \in Servers |-> NoEntry]]

NoGot == [server |-> NoServer, block |-> NoLogin, secrets |-> NoSecrets]
NoProc == [cmd |-> "none", at |-> "none", k |-> "authToken", server |-> NoServer,
           store |-> EmptyFile]

\* A fresh installation, or a login of version 1 with its secrets where they were kept.
ConfigInit ==
  /\ up \in BOOLEAN
  /\ upgraded \in BOOLEAN
  /\ LET own == [k \in Secrets |-> 0] IN
     /\ file = IF upgraded
               THEN [EmptyFile EXCEPT !.flat = 0, !.flatPlain = IF up THEN NoSecrets ELSE own]
               ELSE EmptyFile
     /\ chain = [x \in Servers \cup {"flat"} |->
                   IF x = "flat" /\ upgraded /\ up THEN own ELSE NoSecrets]
  /\ proc = NoProc
  /\ logins = 0
  /\ got = NoGot
  /\ finished = [s \in Servers |-> IF s = Legacy /\ upgraded THEN 0 ELSE NoLogin]
  /\ left = FALSE /\ disturbed = FALSE

history == <<finished, upgraded, left, disturbed>>

-----------------------------------------------------------------------------
(* The secure store.                                                       *)

\* getSecret: the keychain before the file.
Secret(k, s) ==
  IF up /\ chain[s][k] # NoLogin THEN chain[s][k] ELSE file.servers[s].plain[k]

FlatSecret(k) ==
  IF up /\ chain["flat"][k] # NoLogin THEN chain["flat"][k] ELSE file.flatPlain[k]

\* setSecret, for a server.  Without a keychain the user has to agree to plain text.
SetSecret(k, v, s) ==
  IF up
  THEN /\ chain' = [chain EXCEPT ![s][k] = v]
       /\ file' = [file EXCEPT !.servers[s].plain[k] = NoLogin]
  ELSE /\ file' = [file EXCEPT !.hasServers = TRUE, !.servers[s].plain[k] = v]
       /\ UNCHANGED chain

\* deleteSecret: a failing keychain is ignored.
DeleteSecret(k, s) ==
  /\ chain' = IF up THEN [chain EXCEPT ![s][k] = NoLogin] ELSE chain
  /\ file' = [file EXCEPT !.servers[s].plain[k] = NoLogin]

DeleteFlat(k) ==
  /\ chain' = IF up THEN [chain EXCEPT !["flat"][k] = NoLogin] ELSE chain
  /\ file' = [file EXCEPT !.flatPlain[k] = NoLogin]

To(a) == proc' = [proc EXCEPT !.at = a]
Quits == proc' = NoProc

\* On to the second secret, or to a.
NextSecret(a, b) ==
  proc' = IF proc.k = "authToken" THEN [proc EXCEPT !.k = "masterKey", !.at = a]
          ELSE [proc EXCEPT !.k = "authToken", !.at = b]

-----------------------------------------------------------------------------
(* migrateConfigIfNeeded.                                                  *)

\* The store that is read here is what is written back in the end.
Migrate ==
  /\ proc.at = "migrate"
  /\ IF file.stamped \/ file.flat = NoLogin
     THEN /\ file' = [file EXCEPT !.stamped = TRUE]
          /\ To("body")
     ELSE /\ proc' = [proc EXCEPT !.at = "copy", !.store = file]
          /\ UNCHANGED file
  /\ UNCHANGED <<chain, up, logins, got, history>>

\* Mutant: the old secret goes before the new one is there.
CopyMoves ==
  /\ proc.at = "copy"
  /\ IF FlatSecret(proc.k) = NoLogin
     THEN NextSecret("copy", "servers") /\ UNCHANGED <<file, chain>>
     ELSE DeleteFlat(proc.k) /\ To("drop")
  /\ UNCHANGED <<up, logins, got, history>>

\* The user may refuse plain text: the command fails.
Copy ==
  /\ proc.at = "copy"
  /\ IF FlatSecret(proc.k) = NoLogin
     THEN NextSecret("copy", "servers") /\ UNCHANGED <<file, chain>>
     ELSE \/ SetSecret(proc.k, FlatSecret(proc.k), Legacy) /\ To("drop")
          \/ ~up /\ Quits /\ UNCHANGED <<file, chain>>
  /\ UNCHANGED <<up, logins, got, history>>

Drop ==
  /\ proc.at = "drop"
  /\ DeleteFlat(proc.k)
  /\ NextSecret("copy", "servers")
  /\ UNCHANGED <<up, logins, got, history>>

\* servers as it was read, with the entry of the flat fields in place of any other; it
\* is changed inside the store that was read, if that had one.
MigratedServers == [proc.store.servers EXCEPT ![Legacy] = [NoEntry EXCEPT !.block = proc.store.flat]]

WriteServers ==
  /\ proc.at = "servers"
  /\ file' = [file EXCEPT !.servers = MigratedServers, !.hasServers = TRUE]
  /\ proc' = [proc EXCEPT !.at = "active", !.store.servers =
                IF proc.store.hasServers THEN MigratedServers ELSE proc.store.servers]
  /\ UNCHANGED <<chain, up, logins, got, history>>

WriteActive ==
  /\ proc.at = "active"
  /\ file' = [file EXCEPT !.active = Legacy]
  /\ To("stamp")
  /\ UNCHANGED <<chain, up, logins, got, history>>

Stamp ==
  /\ proc.at = "stamp"
  /\ file' = [file EXCEPT !.stamped = TRUE]
  /\ To("clean")
  /\ UNCHANGED <<chain, up, logins, got, history>>

\* config.store = store: what was read at the start, without the flat fields.
Clean ==
  /\ proc.at = "clean"
  /\ file' = [proc.store EXCEPT !.flat = NoLogin, !.flatPlain = NoSecrets]
  /\ To("body")
  /\ UNCHANGED <<chain, up, logins, got, history>>

-----------------------------------------------------------------------------
(* The commands.                                                           *)

\* The last two conditions of getConfig besides the token.
LoggedIn == file.active # NoServer /\ file.servers[file.active].block # NoLogin

\* run, list, org and daemon migrate, then read all of it at once.
GetConfig ==
  /\ proc.cmd = "run" /\ proc.at = "body"
  /\ got' = IF LoggedIn /\ Secret("authToken", file.active) # NoLogin
            THEN [server |-> file.active, block |-> file.servers[file.active].block,
                  secrets |-> [k \in Secrets |-> Secret(k, file.active)]]
            ELSE NoGot
  /\ Quits
  /\ UNCHANGED <<file, chain, up, logins, history>>

Logout ==
  /\ proc.cmd = "logout" /\ proc.at = "body"
  /\ proc' = IF file.active = NoServer THEN NoProc
             ELSE [proc EXCEPT !.at = "forget", !.server = file.active]
  /\ left' = (left \/ file.active = Legacy)
  /\ UNCHANGED <<file, chain, up, logins, got, finished, upgraded, disturbed>>

Forget ==
  /\ proc.at = "forget"
  /\ DeleteSecret(proc.k, proc.server)
  /\ NextSecret("forget", "unlist")
  /\ UNCHANGED <<up, logins, got, history>>

\* deleteServerConfig; then no server is active.
Unlist ==
  /\ proc.at = "unlist"
  /\ file' = [file EXCEPT !.servers[proc.server] = NoEntry]
  /\ To("deactivate")
  /\ UNCHANGED <<chain, up, logins, got, history>>

Deactivate ==
  /\ proc.at = "deactivate"
  /\ file' = [file EXCEPT !.active = NoServer]
  /\ Quits
  /\ UNCHANGED <<chain, up, logins, got, history>>

\* login, once the server has answered.  It does not migrate.
KeepSecret ==
  /\ proc.cmd = "login" /\ proc.at = "keep"
  /\ \/ SetSecret(proc.k, logins, proc.server) /\ NextSecret("keep", "enter")
        /\ UNCHANGED disturbed
     \/ ~up /\ Quits /\ disturbed' = TRUE /\ UNCHANGED <<file, chain>>
  /\ UNCHANGED <<up, logins, got, finished, upgraded, left>>

\* setServerConfig keeps what else the entry has.
Enter ==
  /\ proc.at = "enter"
  /\ file' = [file EXCEPT !.hasServers = TRUE, !.servers[proc.server].block = logins]
  /\ To("activate")
  /\ UNCHANGED <<chain, up, logins, got, history>>

\* setActiveServer.
Activate ==
  /\ proc.at = "activate"
  /\ file' = [file EXCEPT !.active = proc.server]
  /\ finished' = [finished EXCEPT ![proc.server] = logins]
  /\ Quits
  /\ UNCHANGED <<chain, up, logins, got, upgraded, left, disturbed>>

Begin(c, s) ==
  /\ proc = NoProc
  /\ got' = NoGot
  /\ IF c = "login"
     THEN /\ logins < MaxLogins /\ logins' = logins + 1
          /\ proc' = [NoProc EXCEPT !.cmd = c, !.at = "keep", !.server = s]
     ELSE /\ proc' = [NoProc EXCEPT !.cmd = c, !.at = "migrate"]
          /\ UNCHANGED logins
  /\ disturbed' = (disturbed \/ (c = "login" /\ file.flat # NoLogin))
  /\ UNCHANGED <<file, chain, up, finished, upgraded, left>>

Killed ==
  /\ proc # NoProc
  /\ Quits
  /\ disturbed' = (disturbed \/ proc.cmd = "login")
  /\ UNCHANGED <<file, chain, up, logins, got, finished, upgraded, left>>

\* Bound: once.
KeychainTurns ==
  /\ ~disturbed
  /\ up' = ~up
  /\ disturbed' = TRUE
  /\ UNCHANGED <<file, chain, proc, logins, got, finished, upgraded, left>>

-----------------------------------------------------------------------------
ConfigNext ==
  \/ \E c \in {"login", "logout", "run"}, s \in Servers : Begin(c, s)
  \/ Migrate \/ Copy \/ Drop \/ WriteServers \/ WriteActive \/ Stamp \/ Clean
  \/ GetConfig \/ Logout \/ Forget \/ Unlist \/ Deactivate
  \/ KeepSecret \/ Enter \/ Activate
  \/ Killed \/ KeychainTurns

ConfigSpec == ConfigInit /\ [][ConfigNext]_configVars

-----------------------------------------------------------------------------
(* Properties.                                                             *)

ConfigTypeOK ==
  LET Some == {NoLogin} \cup Logins
      Pairs == [Secrets -> Some]
      Files == [flat : Some, flatPlain : Pairs, stamped : BOOLEAN,
                active : Servers \cup {NoServer}, hasServers : BOOLEAN,
                servers : [Servers -> [block : Some, plain : Pairs]]]
  IN /\ file \in Files
     /\ chain \in [Servers \cup {"flat"} -> Pairs]
     /\ proc.store \in Files /\ proc.server \in Servers \cup {NoServer}
     /\ logins \in Logins /\ got.block \in Some

\* migrate.ts:4, "One-time migration", and secure-store.ts.  Unless a login is cut short
\* or comes before the migration, or the keychain comes or goes: what a command gets is
\* all of one login (token, master key and block), the last to that server, however often
\* and wherever migrations and logouts were killed; and with a keychain no secret of the
\* flat configuration is lost before a logout.
OneLogin ==
  ~disturbed =>
    /\ got # NoGot =>
         /\ got.block = finished[got.server]
         /\ \A k \in Secrets : got.secrets[k] = got.block
    /\ upgraded /\ up /\ ~left =>
         \A k \in Secrets : chain["flat"][k] # NoLogin \/ chain[Legacy][k] # NoLogin

=============================================================================

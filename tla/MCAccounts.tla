------------------------------ MODULE MCAccounts ------------------------------
(***************************************************************************)
(* The parts around the terminal share no state: session limits, the rate  *)
(* limit, the two kinds of keys, the CLI's configuration, a tab of the     *)
(* dashboard, the cookie of a preview, and the frames.  A behaviour follows *)
(* one of them, and `part` says which.                                     *)
(***************************************************************************)
EXTENDS SessionLimits, RateLimits, UserKeys, OrgKeys, CliConfig, Dashboard,
        PreviewAuth, FrameCodec

CONSTANTS u1, u2, k1, k2, k3

VARIABLE part

MCUserOf == [k \in Creators |-> IF k = k3 THEN u2 ELSE u1]

MCUserLimit == [t \in Tiers |-> IF t = Starter THEN 1 ELSE 2]

MCOrgLimit == [t \in Tiers |-> IF t = Starter THEN 1 ELSE 0]

MCRetention == [t \in Tiers |-> IF t = Starter THEN 0 ELSE 1]

Parts == {"limits", "rate", "keys", "org", "config", "tab", "access", "frame"}

MCMark == <<3, 2, 3>>

\* Ids of sessions, one that is too long, others; the mark alone, cut, inside an id, in
\* front of an id, of itself, and of an id that it makes too long.
MCIds ==
  {<<>>, <<1>>, <<1, 1>>, <<1, 1, 1, 1, 1, 1>>, <<1, 1, 1, 1, 1, 1, 1>>, <<2>>, <<1, 0>>}
  \cup {MCMark, <<3, 2>>, <<1>> \o MCMark, MCMark \o <<1, 1, 1>>, MCMark \o <<0>>,
        MCMark \o MCMark, MCMark \o <<1, 1, 1, 1>>}

MCPayloads == {<<>>, <<0>>, <<1, 2>>, <<3, 0, 1, 2, 3>>}

MCSizes == {-1, 0, 1, 2, 13, 20, 21, 300}

\* The parts that are not followed start in one way only.
Init ==
  /\ part \in Parts
  /\ LimitsInit /\ (part # "limits" => tier = Starter)
  /\ RateInit
  /\ KeysInit
  /\ OrgInit
  /\ ConfigInit /\ (part # "config" => up /\ upgraded)
  /\ DashInit /\ (part # "tab" => recorded = "running" /\ served)
  /\ PreviewAuthInit /\ (part # "access" => shared)
  /\ FrameInit /\ (part # "frame" => sent = FrameAs("PING", <<>>, <<>>))

\* The parts a behaviour does not follow keep their state.
Others(p) ==
  /\ p # "limits" => UNCHANGED limitVars
  /\ p # "rate" => UNCHANGED rateVars
  /\ p # "keys" => UNCHANGED keyVars
  /\ p # "org" => UNCHANGED orgVars
  /\ p # "config" => UNCHANGED configVars
  /\ p # "tab" => UNCHANGED dashVars
  /\ p # "access" => UNCHANGED previewAuthVars
  /\ p # "frame" => UNCHANGED frameVars

Next ==
  /\ \/ part = "limits" /\ LimitsNext
     \/ part = "rate" /\ RateNext
     \/ part = "keys" /\ KeysNext
     \/ part = "org" /\ OrgNext
     \/ part = "config" /\ ConfigNext
     \/ part = "tab" /\ DashNext
     \/ part = "access" /\ PreviewAuthNext
     \/ part = "frame" /\ FrameNext
  /\ Others(part)
  /\ UNCHANGED part

Spec ==
  Init /\ [][Next]_<<part, limitVars, rateVars, keyVars, orgVars, configVars, dashVars,
                     previewAuthVars, frameVars>>

=============================================================================

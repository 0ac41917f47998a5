------------------------------ MODULE MCTunnel ------------------------------
(***************************************************************************)
(* Two instances in one run.  "tunnel": any requests, two sessions, a      *)
(* socket that runs both (a daemon) and one that runs the first; no pane.   *)
(* "pane": a pane that watches the first session, which c2 runs alone.      *)
(***************************************************************************)
EXTENDS WebPreview, TLC

CONSTANTS c1, c2, s1, s2

VARIABLE side

MCServes == [c \in Clis |-> IF c = c1 THEN {s1} ELSE {s1, s2}]

MCForwarded == [s \in Sessions |-> IF s = s1 THEN {1, 2} ELSE {1}]

Init ==
  /\ PreviewInit
  /\ side \in {"tunnel", "pane"}

Pane == side = "pane" /\ PreviewNext /\ joined' \subseteq {<<c2, s1>>} /\ s2 \in rows'

Tunnel == side = "tunnel" /\ TunnelNext /\ UNCHANGED paneVars

Next == (Tunnel \/ Pane) /\ UNCHANGED side

Spec == Init /\ [][Next]_<<previewVars, side>>

Symmetry == Permutations(Requests)
=============================================================================

------------------------------ MODULE MCTerminal ------------------------------
(***************************************************************************)
(* A session is recorded (Recording) and viewed (Viewing).  The two sides   *)
(* meet only in the log, and each allows whatever the other can make of it: *)
(* Viewing lets any chunk be accepted, stored or covered at any time.  So a *)
(* behaviour follows one side, and `side` says which.                       *)
(***************************************************************************)
EXTENDS Recording, Viewing

VARIABLE side

recordingOnly == <<ptyVars, relay, content, screen, unsaved, unshot>>
viewingOnly == <<published, page, line, missed>>

Init == RecordInit /\ ViewInit /\ side \in {"recording", "viewing"}

Next ==
  /\ UNCHANGED side
  /\ \/ side = "recording" /\ RecordNext /\ UNCHANGED viewingOnly
     \/ side = "viewing" /\ ViewNext /\ UNCHANGED recordingOnly

Spec == Init /\ [][Next]_<<recordVars, viewVars, side>>

=============================================================================

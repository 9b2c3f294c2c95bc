--------------------------- MODULE TranscriptStore ---------------------------
(***************************************************************************)
(* What the transcript endpoint promises about one session: transcripts    *)
(* are stored whole, one is acknowledged only once it, or a newer one, is  *)
(* stored, and one that was acknowledged is replaced by a newer one only,  *)
(* until the session's transcript is removed altogether.                   *)
(***************************************************************************)
EXTENDS Naturals

CONSTANT Body   \* the transcripts of the session, later ones larger

VARIABLES
  kept,     \* the stored transcript, 0 if there is none
  promised  \* the newest one acknowledged and not removed since

Init == kept = 0 /\ promised = 0

Store(b) == b >= promised /\ kept' = b /\ UNCHANGED promised

Acknowledge(b) ==
  /\ b <= kept
  /\ promised' = IF b > promised THEN b ELSE promised
  /\ UNCHANGED kept

Remove == kept' = 0 /\ promised' = 0

Next == (\E b \in Body : Store(b) \/ Acknowledge(b)) \/ Remove

Spec == Init /\ [][Next]_<<kept, promised>>
=============================================================================

---------------------------- MODULE ClientDialogs ----------------------------
(***************************************************************************)
(* The two modal dialogs of the chat window.  Each runs an event loop of   *)
(* its own and takes the input away from every other window, so at most    *)
(* one of them is open.                                                    *)
(***************************************************************************)
EXTENDS ImageCropper, ApplyFriend

dialogVars == <<vars, applyVars>>

DialogsTypeOK == TypeOK /\ ApplyTypeOK

DialogsInit == Init /\ ApplyInit

CropperStep == ~applying /\ Next /\ UNCHANGED applyVars
ApplyStep   == ~open /\ ApplyNext /\ UNCHANGED vars

DialogsSpec == DialogsInit /\ [][CropperStep \/ ApplyStep]_dialogVars
=============================================================================

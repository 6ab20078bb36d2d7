------------------------------ MODULE FullRedraw ------------------------------
(***************************************************************************)
(* What OutputDamageTracker promises: a compositor that redraws only the   *)
(* damage is not told apart from one that redraws all of every frame.      *)
(* There is no damage here, no age and no history.                         *)
(***************************************************************************)
CONSTANTS Target, NoTarget, Pixel

VARIABLES
    picture,    \* what the compositor wants to show
    pixels,     \* contents of each buffer
    shown,      \* the buffer submitted last
    rendered    \* the picture is what render_output ran for

redrawVars == <<picture, pixels, shown, rendered>>

RedrawInit ==
    /\ pixels = [b \in Target |-> [p \in Pixel |-> NoTarget]]
    /\ shown = NoTarget
    /\ rendered = FALSE

\* The scene changed, whether it looks different or not.
Repaint ==
    /\ rendered' = FALSE
    /\ UNCHANGED <<pixels, shown>>

\* The whole picture is drawn and submitted.
Present(b) ==
    /\ pixels' = [pixels EXCEPT ![b] = picture]
    /\ shown' = b
    /\ rendered' = TRUE
    /\ UNCHANGED picture

\* A frame is left out only if that makes no difference: the picture is on
\* the screen, and in the buffer it would have been drawn into.
LeaveOut(b) ==
    /\ shown \in Target /\ pixels[shown] = picture
    /\ pixels[b] = picture
    /\ rendered' = TRUE
    /\ UNCHANGED <<picture, pixels, shown>>

\* Drawing failed half way, into a buffer that is not on the screen.
Spoil(b) ==
    /\ b # shown
    /\ pixels' = [pixels EXCEPT ![b] = [p \in Pixel |-> NoTarget]]
    /\ UNCHANGED <<picture, shown, rendered>>

RedrawNext ==
    \/ Repaint
    \/ \E b \in Target : Present(b) \/ LeaveOut(b) \/ Spoil(b)

RedrawSpec == RedrawInit /\ [][RedrawNext]_redrawVars
=============================================================================

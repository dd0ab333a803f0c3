------------------------------ MODULE Firmware ------------------------------
(***************************************************************************)
(* What an update of the firmware promises of a device: it is broken only  *)
(* while the application does not run, no firmware takes the place of      *)
(* another without that, and only a whole firmware is started.             *)
(***************************************************************************)
CONSTANTS Images, Partial

VARIABLES
    image,   \* the firmware in the flash, or Partial
    app      \* the application runs

Init == image \in Images /\ app \in BOOLEAN

Break ==
    /\ ~app
    /\ image' = Partial
    /\ UNCHANGED app

Complete ==
    /\ ~app /\ image = Partial
    /\ image' \in Images
    /\ UNCHANGED app

Start ==
    /\ image \in Images
    /\ app' = TRUE
    /\ UNCHANGED image

Stop ==
    /\ app' = FALSE
    /\ UNCHANGED image

Next == Break \/ Complete \/ Start \/ Stop

Spec == Init /\ [][Next]_<<image, app>>
=============================================================================

--------------------------- MODULE MCWorkstation ---------------------------
(***************************************************************************)
(* The components around an attempt that share no variable: the broker,    *)
(* the bindings of the backend, file transfers, images, the composer and   *)
(* the readback.  A behaviour exercises one of them, its focus, while the  *)
(* others rest in their initial state; one run of TLC checks them all.     *)
(***************************************************************************)
EXTENDS Broker, Binding, GuestTransfer, Images, Composer, Readback

VARIABLE focus

Components == {"broker", "binding", "transfer", "images", "composer", "readback"}

WorkstationVars ==
    <<focus, brokerVars, bindingVars, transferVars, imagesVars, composerVars, readbackVars>>

WorkstationInit ==
    /\ focus \in Components
    /\ BrokerInit /\ BindingInit /\ ImagesInit /\ ComposerInit /\ ReadbackInit
    /\ TransferInit
    /\ focus = "transfer" \/ kind = [u \in Uploads |-> "import"]

Only(component) ==
    /\ focus = component
    /\ UNCHANGED focus
    /\ component # "broker" => UNCHANGED brokerVars
    /\ component # "binding" => UNCHANGED bindingVars
    /\ component # "transfer" => UNCHANGED transferVars
    /\ component # "images" => UNCHANGED imagesVars
    /\ component # "composer" => UNCHANGED composerVars
    /\ component # "readback" => UNCHANGED readbackVars

WorkstationNext ==
    \/ Only("broker") /\ BrokerNext
    \/ Only("binding") /\ BindingNext
    \/ Only("transfer") /\ TransferNext
    \/ Only("images") /\ ImagesNext
    \/ Only("composer") /\ ComposerNext
    \/ Only("readback") /\ ReadbackNext

WorkstationSpec == WorkstationInit /\ [][WorkstationNext]_WorkstationVars /\ BrokerFairness
=============================================================================

---------------------------- MODULE MCFleetConfig ----------------------------
(* Two nodes for TLC.                                                       *)
EXTENDS FleetConfigProps

CONSTANTS a, b, scheduler
MCOrder == <<a, b>>
MCTargets == {{a, b}}
MCKeys == a :> 1 @@ b :> 2

Radio(hop, power, role, interval, blue, up0, up1) ==
    [local |-> [lora |-> [hopLimit |-> hop, txPower |-> power],
                device |-> [role |-> role], security |-> [privateKey |-> 0]],
     module |-> [telemetry |-> [deviceUpdateInterval |-> interval],
                 ambientLighting |-> [blue |-> blue]],
     channels |-> 0 :> [uplinkEnabled |-> up0] @@ 1 :> [uplinkEnabled |-> up1]]

MCStarts == {a :> Radio(2, 1, 1, 1, 1, 1, 1) @@ b :> Radio(1, 2, 0, 2, 0, 0, 0)}

\* Everything; a synchronisation leaves out the role nevertheless.
MCSelections == { [source |-> {}, local |-> TRUE, module |-> TRUE, channels |-> TRUE, role |-> TRUE] }

MCPatches ==
    { EmptyPatch,
      [local |-> [lora |-> [txPower |-> 3]],
       module |-> [ambientLighting |-> [blue |-> 2], telemetry |-> [deviceUpdateInterval |-> 2]],
       channels |-> <<[index |-> {1}, settings |-> [uplinkEnabled |-> 0]]>>] }

MCForms == { NoForm, [hopLimit |-> {0}, interval |-> {3}, uplink |-> {0}] }
=============================================================================

------------------------------ MODULE MCBulkIo ------------------------------
(* Small instances of BulkIo, and with it of OpenMux, for TLC. *)
EXTENDS BulkIo

ThreeConfigs == <<1, 2, 3>>
=============================================================================

------------------------------ MODULE Libraries ------------------------------
(***************************************************************************)
(* The parts of the port that run to completion inside one Python call and *)
(* share nothing with each other: the pure functions, the file tools and   *)
(* the crypto backend.  A behaviour is about one of them.                  *)
(***************************************************************************)
EXTENDS PureFunctions, FileTools, SshCrypto

VARIABLE part

Parts == {"functions", "copy", "temp", "number", "keys", "cipher"}

lvars == <<fvars, toolvars, cvars, part>>

LInit ==
    /\ part \in Parts
    /\ FInit /\ (part # "functions" => domain = "date")
    /\ ToolsInit /\ (part # "copy" => disk = [f \in Files |-> NoFile])
    /\ CryptoInit

CallFunction == part = "functions" /\ FNext /\ UNCHANGED <<toolvars, cvars>>

UseFiles ==
    /\ \/ part = "copy" /\ CopyNext
       \/ part = "temp" /\ TempNext
    /\ UNCHANGED <<fvars, cvars>>

UseCrypto ==
    /\ \/ part = "number" /\ KexNext
       \/ part = "keys" /\ KeyCall
       \/ part = "cipher" /\ CipherNext
    /\ UNCHANGED <<fvars, toolvars>>

LNext == (CallFunction \/ UseFiles \/ UseCrypto) /\ UNCHANGED part

LSpec == LInit /\ [][LNext]_lvars
=============================================================================

--------------------------- MODULE SymmetricCalls ---------------------------
(***************************************************************************)
(* A call of the package under symmetric/: a mode of operation, over any   *)
(* permutation of the blocks, or a block cipher, which is shown to be one. *)
(***************************************************************************)
EXTENDS BlockModes, BlockCiphers

(* Whatever is not called stays as it is.                                  *)
NoMode ==
    /\ mode = "none" /\ msg = <<>> /\ aad = <<>> /\ iv = <<>>
    /\ pc = "unused" /\ prev = <<>> /\ counter = 0 /\ i = 0
    /\ ct = <<>> /\ tag = <<>> /\ rct = <<>> /\ raad = <<>> /\ riv = <<>> /\ blob = FALSE
    /\ out = <<>> /\ used = <<>>

NoCipher ==
    /\ cipher = "none" /\ cipherKey = <<>> /\ rounds = 0 /\ stage = "unused"
    /\ words = <<>> /\ rcon = 1 /\ block = <<>> /\ state = <<>>
    /\ sum = 0 /\ left = 0 /\ trail = <<>>

CallsInit ==
    \/ Init /\ NoCipher
    \/ CipherInit /\ NoMode

CallsNext ==
    \/ Next /\ UNCHANGED cipherVars
    \/ CipherNext /\ UNCHANGED vars

CallsSpec == CallsInit /\ [][CallsNext]_<<vars, cipherVars>>
=============================================================================

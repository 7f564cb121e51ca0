---------------------------- MODULE MTProtoCalls ----------------------------
(***************************************************************************)
(* What is called of the MTProto stack above its transports: encrypted     *)
(* messages of a session, or a container or an unencrypted message, or the *)
(* session state that keeps the ids it has seen.                           *)
(***************************************************************************)
EXTENDS MTProtoSession, MessageFormats

(* Whatever is not called stays as it is.                                  *)
NoFormat ==
    /\ job = "none" /\ step = "unused" /\ batch = <<>> /\ outer = <<>>
    /\ data = <<>> /\ rdata = [words |-> <<>>, odd |-> 0]
    /\ offset = 0 /\ todo = 0 /\ found = <<>>
    /\ limit = 0 /\ seenIds = {} /\ added = <<>>

CallsInit ==
    \/ Init /\ NoFormat
    \/ FormatsInit /\ Init

CallsNext ==
    \/ job = "none" /\ Next /\ UNCHANGED formatVars
    \/ FormatsNext /\ UNCHANGED vars

CallsSpec == CallsInit /\ [][CallsNext]_<<vars, formatVars>>
=============================================================================

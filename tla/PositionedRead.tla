--------------------------- MODULE PositionedRead ---------------------------
(***************************************************************************)
(* What a forensic_vfs::ImageSource promises its readers, as               *)
(* browser-forensic-cli/src/imagecarve_container.rs uses the trait: a read  *)
(* at an offset returns a prefix of the bytes that are there, at most as    *)
(* many as the buffer holds, and possibly none.  Bytes are named by their   *)
(* position in the image.                                                   *)
(***************************************************************************)
EXTENDS Integers

CONSTANTS
    Readers,   \* threads that read
    Size       \* bytes in the decoded image

VARIABLES
    call,      \* the read each reader has in progress, or NoCall
    got        \* the bytes its last finished read returned

Calls  == [offset: Nat, len: Nat]
NoCall == [offset |-> 0, len |-> 0]

Bytes(offset, n) == offset .. (offset + n - 1)

\* The answers a read may be given.
Prefixes(c) ==
    {{}} \cup {Bytes(c.offset, n) : n \in {k \in 0..c.len : c.offset + k <= Size}}

Quiet == call = [r \in Readers |-> NoCall] /\ got = [r \in Readers |-> {}]

Begin(r) ==
    /\ call[r] = NoCall
    /\ call'[r] \in Calls /\ call' = [call EXCEPT ![r] = call'[r]]
    /\ UNCHANGED got

End(r) ==
    /\ call[r] # NoCall
    /\ \E bytes \in Prefixes(call[r]) : got' = [got EXCEPT ![r] = bytes]
    /\ call' = [call EXCEPT ![r] = NoCall]

\* An empty buffer, or one past the end, is answered at once.
EndAtOnce(r) ==
    /\ call[r] = NoCall
    /\ got' = [got EXCEPT ![r] = {}]
    /\ UNCHANGED call

ReadNext == \E r \in Readers : Begin(r) \/ End(r) \/ EndAtOnce(r)

ReadSpec == Quiet /\ [][ReadNext]_<<call, got>>
=============================================================================

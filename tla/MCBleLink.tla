----------------------------- MODULE MCBleLink -----------------------------
(* Instance of BleLink: two threads, a command that filters its answer and *)
(* one that expects none, frames of two opcodes with two bodies.           *)
EXTENDS BleLink, TLC

CONSTANTS mac, rsp, b1, b2

MCBodies == {b1, b2}
MCSize == (b1 :> 1) @@ (b2 :> 2)
Threads == Permutations(Callers)
MCCommands == {[rsp |-> rsp, filter |-> {b1}],
               [rsp |-> NoRsp, filter |-> {}]}
\* only commands that wait for an answer can wait for ever
MCWaiting == {[rsp |-> rsp, filter |-> {b1}]}

Answer == [op |-> rsp, body |-> b1]
Other == [op |-> rsp, body |-> b2]
OfMac == [op |-> mac, body |-> b1]
\* Every frame by itself; and an answer that comes three times, or behind a
\* frame of another opcode with the same body, where the frame that follows
\* decides whether it counts as a repetition.
MCBlocks == {<<f>> : f \in Frames} \cup
              {<<Answer, Answer, Answer>>, <<OfMac, Answer, Answer>>}
\* the same where there is one opcode, and one before a longer frame
MCLiveBlocks == {<<f>> : f \in Frames} \cup
                  {<<Answer, Answer, Answer>>, <<Answer, Answer, Other>>}
=============================================================================

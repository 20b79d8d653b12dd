----------------------------- MODULE BleAnswers -----------------------------
(***************************************************************************)
(* Why the successes of BleCommands can be believed: what the table of     *)
(* commands must have for it, and the inductive invariant that follows.    *)
(* The table is a constant of the program, so that TLC decides what is     *)
(* assumed of it here once and for all.                                    *)
(***************************************************************************)
EXTENDS BleCommands

ASSUME BoundsAssumption == MaxCalls \in Nat

\* What the table has to do with it.  A function compares fixed fields and
\* parameters of its own, and asks for the header its answer has; and if the
\* command is not one of the uncertain, no other command's answer and no
\* report looks like its own, a refusal is read, the address is compared, and
\* every parameter is, but for the unsaid.  If the command is one of those that
\* share their answer, then it does so with its twins and with no other.
Looks(c) == c.filter \cup c.check
Alike(hci, opcode, header, c) ==
  /\ hci = c.hci
  /\ "opcode" \in Looks(c) => opcode = c.opcode
  /\ "header" \in Looks(c) => header = c.header

ASSUME TableAssumption ==
  \A c \in Commands : c.waits =>
    /\ Looks(c) \subseteq {"addr", "opcode", "header", "ok"} \cup c.params
    /\ c.params \cap {"addr", "opcode", "header", "ok"} = {}
    /\ "header" \in Looks(c) => c.reply = c.header
    /\ c.name \notin Uncertain =>
         /\ \A b \in Commands : b.waits /\ Alike(b.hci, b.opcode, b.reply, c) => b = c
         /\ ~Alike("RSP_OP_CODE", "e3", "0b0b", c)
         /\ ~Alike("RSP_OP_CODE", "8204", "none", c)
         /\ c.name \in WithStatus => "ok" \in Looks(c)
         /\ ~c.system => "addr" \in Looks(c)
         /\ \A p \in c.params : p \in Looks(c) \/ <<c.name, p>> \in Unsaid
    /\ c.name \in SharedAnswer =>
         /\ \A b \in Commands : b.waits /\ Alike(b.hci, b.opcode, b.reply, c) =>
              /\ MixesUp(b.name, c.name) /\ b.system = c.system
              /\ b.name \in WithStatus => "ok" \in Looks(c)
         /\ ~Alike("RSP_OP_CODE", "e3", "0b0b", c)
         /\ c.name \notin LikeReports => ~Alike("RSP_OP_CODE", "8204", "none", c)
         /\ c.name \in LikeReports => {"addr", "opcode"} \subseteq Looks(c)
         /\ ~c.system => "addr" \in Looks(c)
-----------------------------------------------------------------------------
\* The strengthening that makes these inductive: what was issued are requests;
\* and every frame is an answer to one that was sent, or a report.
IsRequest(r) == \E c \in Commands : \E d \in Target(c), a \in Arguments(c) : r = Request(c, d, a)

Origins ==
  /\ \A r \in sent : IsRequest(r)
  /\ state # "none" => IsRequest(req)
  /\ \A f \in frames :
       \/ \E r \in sent : r.cmd.waits /\ f \in Answers(r)
       \/ \E d \in Devices : f \in Reports(d)

Awaited == state = "waiting" => req.cmd.waits

IInv == TypeOK /\ Origins /\ Awaited /\ OkMeansDone /\ MixedUpOnlyWithTwins
=============================================================================

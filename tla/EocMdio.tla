------------------------------ MODULE EocMdio ------------------------------
(***************************************************************************)
(* Reading and writing PHY registers through the adapter at the other end  *)
(* of an Ethernet-over-coax link (switch/mdio/mdio.c, the functions behind *)
(* mdio_open_remote).  A call sends a request and waits for a confirmation *)
(* that names its register; it repeats the request when none comes, and    *)
(* gives the process up after ctl8306_loop_num() attempts.  Nothing in a   *)
(* confirmation tells which attempt, or which call, it answers.            *)
(*                                                                         *)
(* The link and the adapter are outside the repository: frames may be lost *)
(* in either direction and may be slower than the caller's patience, but   *)
(* are not reordered; the adapter executes each request it receives.       *)
(***************************************************************************)
EXTENDS Naturals, Sequences

CONSTANTS
    Regs,       \* (PHY address, register address) pairs
    Data,       \* register contents
    InitData,   \* what every register holds at first
    LoopNum,    \* attempts per call: ctl8306_loop_num()
    InFlight,   \* bound: frames a direction of the link holds
    Refuses     \* whether the adapter may answer with MSTATUS set

ASSUME EocAssumption ==
    /\ InitData \in Data
    /\ LoopNum \in Nat \ {0} /\ InFlight \in Nat \ {0}
    /\ Refuses \in BOOLEAN

NoCall == [op |-> "none"]
Calls  == [op : {"read"}, reg : Regs] \cup [op : {"write"}, reg : Regs, data : Data]
Frame  == [MSTATUS : BOOLEAN, data : Data, reg : Regs]

VARIABLES
    call,     \* the call in progress, or NoCall
    state,    \* of the caller: "idle", "send", "wait" or "exit"
    i,        \* attempts the call has begun
    result,   \* data of the last read, and of the last write
    req,      \* requests under way to the adapter
    cnf,      \* confirmations under way to the caller
    phy       \* the registers of the remote PHYs

caller == <<call, state, i, result>>
vars   == <<call, state, i, result, req, cnf, phy>>

(***************************************************************************)
(* The caller: eoc_phy_read and eoc_phy_write, with packet_send.           *)
(***************************************************************************)
Begin(c) ==
    /\ state = "idle"
    /\ call' = c
    /\ state' = "send"
    /\ i' = 0
    /\ UNCHANGED <<result, req, cnf, phy>>

\* The attempt failed: the next one, or exit(1) after the last.
RetryOrExit_Forever ==
    /\ state' = "send"
    /\ UNCHANGED <<call, result>>
RetryOrExit ==
    /\ state' = IF i' < LoopNum THEN "send" ELSE "exit"
    /\ UNCHANGED <<call, result>>

\* SendMME: the frame is handed to the link, which may lose it; or the send
\* fails and packet_send returns -1.
Send ==
    /\ state = "send"
    /\ i' = i + 1
    /\ \/ /\ Len(req) < InFlight
          /\ req' = Append(req, call)
          /\ state' = "wait"
          /\ UNCHANGED <<call, result>>
       \/ /\ state' = "wait"
          /\ UNCHANGED <<call, result, req>>
       \/ /\ RetryOrExit
          /\ UNCHANGED req
    /\ UNCHANGED <<cnf, phy>>

\* What packet_send takes for the confirmation of its request.
Confirms_AnyData(c) == c.reg = call.reg
Confirms_AnyReg(c)  == call.op = "write" => c.data = call.data
Confirms(c) == c.reg = call.reg /\ (call.op = "write" => c.data = call.data)

\* ReadMME returned a frame: the one waited for ends the call, another is
\* dropped and the wait goes on.
Receive ==
    /\ state = "wait" /\ cnf # <<>>
    /\ cnf' = Tail(cnf)
    /\ \/ /\ Confirms(Head(cnf)) /\ ~Head(cnf).MSTATUS
          /\ result' = [op |-> call.op, reg |-> call.reg, data |-> Head(cnf).data]
          /\ state' = "idle" /\ call' = NoCall /\ i' = 0
       \/ /\ Confirms(Head(cnf)) /\ Head(cnf).MSTATUS
          /\ state' = "exit"
          /\ UNCHANGED <<call, i, result>>
       \/ /\ ~Confirms(Head(cnf))
          /\ UNCHANGED caller
    /\ UNCHANGED <<req, phy>>

\* ReadMME ran into its timeout: packet_send returns -2.
Timeout_KeepsReading ==
    /\ state = "wait" /\ cnf = <<>>
    /\ UNCHANGED vars
Timeout ==
    /\ state = "wait" /\ cnf = <<>>
    /\ i' = i
    /\ RetryOrExit
    /\ UNCHANGED <<req, cnf, phy>>

(***************************************************************************)
(* The adapter: the oldest request is executed and confirmed with the      *)
(* register's contents, or refused; the confirmation may get lost.         *)
(***************************************************************************)
Executed(c) == IF c.op = "write" THEN [phy EXCEPT ![c.reg] = c.data] ELSE phy
Answer(c, refused) ==
    [MSTATUS |-> refused, reg |-> c.reg,
     data |-> IF c.op = "write" THEN c.data ELSE phy[c.reg]]

Adapter ==
    /\ req # <<>>
    /\ req' = Tail(req)
    /\ \E refused \in (IF Refuses THEN BOOLEAN ELSE {FALSE}) :
         /\ phy' = IF refused THEN phy ELSE Executed(Head(req))
         /\ \/ /\ Len(cnf) < InFlight
               /\ cnf' = Append(cnf, Answer(Head(req), refused))
            \/ UNCHANGED cnf
    /\ UNCHANGED caller

-----------------------------------------------------------------------------
Init ==
    /\ call = NoCall /\ state = "idle" /\ i = 0 /\ result = NoCall
    /\ req = <<>> /\ cnf = <<>>
    /\ phy = [r \in Regs |-> InitData]

Caller == Send \/ Receive \/ Timeout
Next == (\E c \in Calls : Begin(c)) \/ Caller \/ Adapter
Spec == Init /\ [][Next]_vars

\* A process that is in a call keeps running.  Nothing is assumed of the link
\* or the adapter: SendMME and ReadMME return by themselves.
FairSpec == Spec /\ WF_vars(Caller)

-----------------------------------------------------------------------------
\* Requests and confirmations are what the functions build.
TypeOK ==
    /\ call \in Calls \cup {NoCall}
    /\ state \in {"idle", "send", "wait", "exit"}
    /\ call = NoCall <=> state = "idle"
    /\ i \in 0 .. LoopNum /\ (state = "send" => i < LoopNum)
    /\ req \in Seq(Calls) /\ cnf \in Seq(Frame)
    /\ Len(req) <= InFlight /\ Len(cnf) <= InFlight
    /\ phy \in [Regs -> Data]

\* What earlier attempts and earlier calls left on the link is harmless: a
\* write under way is that of the call in progress, or stands before all of
\* those and has already been executed; and a confirmation carries what its
\* register holds, unless the call in progress is writing it and the
\* confirmations of that write come last.
IsWrite(c, r) == c.op = "write" /\ c.reg = r
LateRequests ==
    \A n \in DOMAIN req :
        req[n].op = "write" /\ req[n] # call =>
            /\ phy[req[n].reg] = req[n].data
            /\ \A m \in 1 .. n - 1 :
                  IsWrite(req[m], req[n].reg) => req[m].data = req[n].data
Answered(c, r) == c.reg = r /\ ~c.MSTATUS
LateConfirmations ==
    \A n \in DOMAIN cnf :
        ~cnf[n].MSTATUS /\ cnf[n].data # phy[cnf[n].reg] =>
            /\ IsWrite(call, cnf[n].reg) /\ phy[call.reg] = call.data
            /\ \A m \in 1 .. n - 1 :
                  Answered(cnf[m], call.reg) => cnf[m].data # call.data
LinkInv == TypeOK /\ LateRequests /\ LateConfirmations

\* A call that returns has told the truth: the register a read asked for holds
\* what was returned, and the one a write named holds its data, even if the
\* frame taken answers an earlier attempt or an earlier call.
ReturnsTrue ==
    [][state = "wait" /\ state' = "idle"
         => phy[call.reg] = IF call.op = "read" THEN result'.data ELSE call.data]_vars

\* The requests of finished calls, executed late, change no register: a
\* register changes only to the data of the write in progress.
NoLateWrite ==
    [][\A r \in Regs :
          phy'[r] # phy[r] => IsWrite(call, r) /\ phy'[r] = call.data]_vars

\* Every call comes to an end: it returns, or the process exits.
CallsEnd == state \in {"send", "wait"} ~> state \in {"idle", "exit"}
=============================================================================

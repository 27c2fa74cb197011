--------------------------- MODULE EocMdioProofs ---------------------------
(***************************************************************************)
(* Proofs about EocMdio, for any registers, contents, number of attempts   *)
(* and capacity of the link.  LinkInv is inductive: the link is first in,  *)
(* first out, so what is left of earlier calls is always in front of what  *)
(* the call in progress has sent.                                          *)
(***************************************************************************)
EXTENDS EocMdio, TLAPS

LEMMA CallsType ==
    \A c \in Calls : /\ c.op \in {"read", "write"} /\ c.reg \in Regs
                     /\ c.op = "write" => c.data \in Data
                     /\ c # NoCall
BY DEF Calls, NoCall

\* A frame leaves the link at its head and enters it at its end.
LEMMA Leaves ==
    ASSUME NEW S, NEW s \in Seq(S), s # <<>>
    PROVE  /\ Head(s) = s[1] /\ Head(s) \in S /\ 1 \in DOMAIN s
           /\ Tail(s) \in Seq(S) /\ Len(Tail(s)) < Len(s)
           /\ \A n \in DOMAIN Tail(s) :
                 /\ n \in Nat /\ n + 1 \in DOMAIN s /\ Tail(s)[n] = s[n + 1]
                 /\ \A m \in 1 .. n - 1 : /\ m \in DOMAIN Tail(s)
                                          /\ Tail(s)[m] = s[m + 1] /\ m + 1 \in 1 .. n
                 /\ 1 \in 1 .. n
OBVIOUS

LEMMA Enters ==
    ASSUME NEW S, NEW s \in Seq(S), NEW e \in S
    PROVE  /\ Append(s, e) \in Seq(S) /\ Len(Append(s, e)) = Len(s) + 1
           /\ \A n \in DOMAIN Append(s, e) :
                 /\ \/ n \in DOMAIN s /\ Append(s, e)[n] = s[n]
                    \/ n = Len(s) + 1 /\ Append(s, e)[n] = e
                 /\ \A m \in 1 .. n - 1 : m \in DOMAIN s /\ Append(s, e)[m] = s[m]
OBVIOUS

LEMMA AdapterType ==
    ASSUME TypeOK, req # <<>>, NEW refused \in BOOLEAN
    PROVE  /\ Head(req) \in Calls
           /\ Executed(Head(req)) \in [Regs -> Data]
           /\ Answer(Head(req), refused) \in Frame
<1>1. Head(req) \in Calls
    BY Leaves DEF TypeOK
<1>2. Executed(Head(req)) \in [Regs -> Data]
    BY <1>1, CallsType DEF TypeOK, Executed
<1>3. Answer(Head(req), refused) \in Frame
    BY <1>1, CallsType DEF TypeOK, Answer, Frame
<1> QED
    BY <1>1, <1>2, <1>3

\* The type part of LinkInv.
LEMMA InitTypeOK == Init => TypeOK
BY EocAssumption DEF Init, TypeOK, Calls, Frame, NoCall

LEMMA NextTypeOK == TypeOK /\ [Next]_vars => TypeOK'
<1> SUFFICES ASSUME TypeOK, [Next]_vars PROVE TypeOK'
    OBVIOUS
<1> USE EocAssumption
<1>1. ASSUME NEW c \in Calls, Begin(c) PROVE TypeOK'
    BY <1>1, CallsType DEF Begin, TypeOK
<1>2. CASE Send
    <2>1. state = "send" => call \in Calls
        BY DEF TypeOK
    <2> QED
        BY <1>2, <2>1, SMTT(40) DEF Send, RetryOrExit, TypeOK
<1>3. CASE Receive
    BY <1>3, CallsType DEF Receive, caller, TypeOK, NoCall
<1>4. CASE Timeout
    BY <1>4 DEF Timeout, RetryOrExit, TypeOK
<1>5. CASE Adapter
    <2>1. PICK refused \in BOOLEAN :
             /\ phy' = IF refused THEN phy ELSE Executed(Head(req))
             /\ \/ /\ Len(cnf) < InFlight
                   /\ cnf' = Append(cnf, Answer(Head(req), refused))
                \/ UNCHANGED cnf
        BY <1>5 DEF Adapter
    <2>2. phy' \in [Regs -> Data]
        BY <1>5, <2>1, AdapterType DEF Adapter, TypeOK
    <2>3. cnf' \in Seq(Frame) /\ Len(cnf') <= InFlight
        <3>1. Answer(Head(req), refused) \in Frame
            BY <1>5, AdapterType DEF Adapter
        <3>2. Len(cnf) \in Nat
            BY DEF TypeOK
        <3> QED
            BY <2>1, <3>1, <3>2, Enters, SMTT(40) DEF TypeOK
    <2>4. req' \in Seq(Calls) /\ Len(req') <= InFlight
        BY <1>5, Leaves DEF Adapter, TypeOK
    <2> QED
        BY <1>5, <2>2, <2>3, <2>4 DEF Adapter, caller, TypeOK
<1>6. CASE UNCHANGED vars
    BY <1>6 DEF vars, TypeOK
<1> QED
    BY <1>1, <1>2, <1>3, <1>4, <1>5, <1>6 DEF Next, Caller

-----------------------------------------------------------------------------
\* A call ends on a confirmation: what it names holds what was confirmed, and
\* the frames that stay behind are of no further interest.
LEMMA ReturnIsTrue ==
    ASSUME LinkInv, Receive, state' = "idle"
    PROVE  /\ call \in Calls
           /\ call.op = "read" => result'.data = phy[call.reg]
           /\ call.op = "write" => phy[call.reg] = call.data
<1>1. /\ state = "wait" /\ cnf # <<>> /\ Confirms(Head(cnf)) /\ ~Head(cnf).MSTATUS
      /\ result' = [op |-> call.op, reg |-> call.reg, data |-> Head(cnf).data]
    BY DEF Receive, caller, LinkInv, TypeOK
<1>2. call \in Calls
    BY <1>1 DEF LinkInv, TypeOK
<1>3. Head(cnf) = cnf[1] /\ 1 \in DOMAIN cnf
    BY <1>1, Leaves DEF LinkInv, TypeOK
<1>4. CASE Head(cnf).data = phy[call.reg]
    BY <1>1, <1>2, <1>4 DEF Confirms
<1>5. CASE Head(cnf).data # phy[call.reg]
    BY <1>1, <1>2, <1>3, <1>5, CallsType DEF LinkInv, LateConfirmations, IsWrite, Confirms
<1> QED
    BY <1>4, <1>5

\* A request that is executed changes only the register of the write in
\* progress, to its data.
LEMMA ExecutesCall ==
    ASSUME LinkInv, req # <<>>, Executed(Head(req)) # phy
    PROVE  Head(req) = call /\ call.op = "write"
<1>1. Head(req) = req[1] /\ Head(req) \in Calls /\ 1 \in DOMAIN req
    BY Leaves DEF LinkInv, TypeOK
<1>2. Head(req).op = "write" /\ phy[Head(req).reg] # Head(req).data
    BY <1>1, CallsType DEF Executed, LinkInv, TypeOK
<1> QED
    BY <1>1, <1>2 DEF LinkInv, LateRequests

\* Init and the steps that leave the link alone or only shorten it.
LEMMA InitLinkInv == Init => LinkInv
BY InitTypeOK DEF Init, LinkInv, LateRequests, LateConfirmations

LEMMA BeginLink ==
    ASSUME LinkInv, NEW c \in Calls, Begin(c)
    PROVE  LateRequests' /\ LateConfirmations'
<1>0. call = NoCall /\ req' = req /\ cnf' = cnf /\ phy' = phy
    BY DEF Begin, LinkInv, TypeOK
<1>1. \A n \in DOMAIN req : req[n] # call
    BY <1>0, CallsType DEF LinkInv, TypeOK
<1>2. LateRequests'
    BY <1>0, <1>1 DEF LinkInv, LateRequests, IsWrite
<1>3. LateConfirmations'
    BY <1>0 DEF LinkInv, LateConfirmations, IsWrite, NoCall
<1> QED
    BY <1>2, <1>3

LEMMA SendLink ==
    ASSUME LinkInv, Send
    PROVE  LateRequests' /\ LateConfirmations'
<1>0. call \in Calls /\ call' = call /\ cnf' = cnf /\ phy' = phy
    BY DEF Send, RetryOrExit, LinkInv, TypeOK
<1>1. CASE req' = Append(req, call)
    <2> SUFFICES ASSUME NEW n \in DOMAIN req', req'[n].op = "write", req'[n] # call
                 PROVE  /\ phy[req'[n].reg] = req'[n].data
                        /\ \A m \in 1 .. n - 1 :
                              IsWrite(req'[m], req'[n].reg) => req'[m].data = req'[n].data
        BY <1>0 DEF LateRequests, LinkInv, LateConfirmations, IsWrite, Answered
    <2>1. n \in DOMAIN req /\ req'[n] = req[n] /\ \A m \in 1 .. n - 1 : req'[m] = req[m]
        BY <1>0, <1>1, Enters DEF LinkInv, TypeOK
    <2> QED
        BY <2>1 DEF LinkInv, LateRequests
<1>2. CASE req' = req
    BY <1>0, <1>2 DEF LateRequests, LinkInv, LateConfirmations, IsWrite, Answered
<1> QED
    BY <1>1, <1>2 DEF Send

LEMMA ReceiveLink ==
    ASSUME LinkInv, Receive
    PROVE  LateRequests' /\ LateConfirmations'
<1>0. /\ state = "wait" /\ cnf # <<>> /\ cnf' = Tail(cnf) /\ req' = req /\ phy' = phy
      /\ call' = call \/ (call' = NoCall /\ state' = "idle")
    BY DEF Receive, caller
<1>1. \A n \in DOMAIN cnf' :
          /\ n + 1 \in DOMAIN cnf /\ cnf'[n] = cnf[n + 1] /\ 1 \in 1 .. (n + 1) - 1
          /\ \A m \in 1 .. n - 1 : cnf'[m] = cnf[m + 1] /\ m + 1 \in 1 .. (n + 1) - 1
    BY <1>0, Leaves DEF LinkInv, TypeOK
<1>2. CASE call' = call
    <2>1. LateRequests'
        BY <1>0, <1>2 DEF LinkInv, LateRequests, IsWrite
    <2>2. LateConfirmations'
        BY <1>0, <1>1, <1>2 DEF LinkInv, LateConfirmations, IsWrite, Answered
    <2> QED
        BY <2>1, <2>2
<1>3. CASE call' = NoCall /\ state' = "idle"
    <2>0. /\ Confirms(Head(cnf)) /\ ~Head(cnf).MSTATUS /\ Head(cnf) = cnf[1]
          /\ call \in Calls /\ (call.op = "write" => phy[call.reg] = call.data)
        BY <1>0, <1>3, ReturnIsTrue, Leaves DEF Receive, caller, LinkInv, TypeOK
    <2>1. LateRequests'
        <3> SUFFICES ASSUME NEW n \in DOMAIN req, req[n].op = "write"
                     PROVE  /\ phy[req[n].reg] = req[n].data
                            /\ \A m \in 1 .. n - 1 :
                                  IsWrite(req[m], req[n].reg) => req[m].data = req[n].data
            BY <1>0 DEF LateRequests
        <3>1. \A m \in 1 .. n - 1 : m \in DOMAIN req
            BY DEF LinkInv, TypeOK
        <3>2. CASE req[n] # call
            BY <3>2 DEF LinkInv, LateRequests
        <3>3. CASE req[n] = call
            BY <2>0, <3>1, <3>3 DEF LinkInv, LateRequests, IsWrite
        <3> QED
            BY <3>2, <3>3
    <2>2. \A n \in DOMAIN cnf' : ~cnf'[n].MSTATUS => cnf'[n].data = phy[cnf'[n].reg]
        <3> SUFFICES ASSUME NEW n \in DOMAIN cnf', ~cnf'[n].MSTATUS,
                            cnf'[n].data # phy[cnf'[n].reg]
                     PROVE  FALSE
            OBVIOUS
        <3>1. /\ IsWrite(call, cnf'[n].reg)
              /\ \A m \in 1 .. (n + 1) - 1 :
                    Answered(cnf[m], call.reg) => cnf[m].data # call.data
            BY <1>1 DEF LinkInv, LateConfirmations
        <3> QED
            BY <1>1, <2>0, <3>1 DEF Answered, Confirms, IsWrite
    <2>3. LateConfirmations'
        BY <1>0, <2>2 DEF LateConfirmations
    <2> QED
        BY <2>1, <2>3
<1> QED
    BY <1>0, <1>2, <1>3

LEMMA AdapterLink ==
    ASSUME LinkInv, Adapter
    PROVE  LateRequests' /\ LateConfirmations'
<1>0. req # <<>> /\ req' = Tail(req) /\ call' = call
    BY DEF Adapter, caller
<1>1. PICK refused \in BOOLEAN :
         /\ phy' = IF refused THEN phy ELSE Executed(Head(req))
         /\ cnf' = Append(cnf, Answer(Head(req), refused)) \/ cnf' = cnf
    BY DEF Adapter
<1>2. Head(req) = req[1] /\ Head(req) \in Calls /\ 1 \in DOMAIN req
    BY <1>0, Leaves DEF LinkInv, TypeOK
\* Either no register changed, or the write in progress was done.
<1>3. \/ phy' = phy
      \/ /\ req[1] = call /\ call \in Calls /\ call.op = "write"
         /\ phy' = [phy EXCEPT ![call.reg] = call.data]
    BY <1>0, <1>1, <1>2, ExecutesCall DEF Executed
<1>4. \A r \in Regs : phy'[r] = phy[r] \/ (IsWrite(call, r) /\ phy'[r] = call.data)
    BY <1>3, CallsType DEF IsWrite, LinkInv, TypeOK
<1>5. LateRequests'
    <2> SUFFICES ASSUME NEW n \in DOMAIN req', req'[n].op = "write", req'[n] # call
                 PROVE  /\ phy'[req'[n].reg] = req'[n].data
                        /\ \A m \in 1 .. n - 1 :
                              IsWrite(req'[m], req'[n].reg) => req'[m].data = req'[n].data
        BY <1>0 DEF LateRequests
    <2>1. /\ n + 1 \in DOMAIN req /\ req'[n] = req[n + 1] /\ 1 \in 1 .. (n + 1) - 1
          /\ \A m \in 1 .. n - 1 : req'[m] = req[m + 1] /\ m + 1 \in 1 .. (n + 1) - 1
          /\ req[n + 1] \in Calls
        BY <1>0, Leaves DEF LinkInv, TypeOK
    <2>2. /\ phy[req'[n].reg] = req'[n].data
          /\ \A m \in 1 .. (n + 1) - 1 :
                IsWrite(req[m], req'[n].reg) => req[m].data = req'[n].data
        BY <2>1 DEF LinkInv, LateRequests
    <2>3. phy'[req'[n].reg] = req'[n].data
        BY <1>3, <2>1, <2>2, CallsType, SMTT(40) DEF IsWrite, LinkInv, TypeOK
    <2> QED
        BY <2>1, <2>2, <2>3
<1>6. LateConfirmations'
    <2> SUFFICES ASSUME NEW n \in DOMAIN cnf', ~cnf'[n].MSTATUS,
                        cnf'[n].data # phy'[cnf'[n].reg]
                 PROVE  /\ IsWrite(call, cnf'[n].reg) /\ phy'[call.reg] = call.data
                        /\ \A m \in 1 .. n - 1 :
                              Answered(cnf'[m], call.reg) => cnf'[m].data # call.data
        BY <1>0 DEF LateConfirmations
    <2>1. /\ n \in DOMAIN cnf /\ cnf'[n] = cnf[n] /\ cnf[n] \in Frame
          /\ \A m \in 1 .. n - 1 : m \in DOMAIN cnf /\ cnf'[m] = cnf[m]
        <3>1. n \in DOMAIN cnf => cnf[n] \in Frame
            BY DEF LinkInv, TypeOK
        <3>2. CASE cnf' = cnf
            BY <3>1, <3>2 DEF LinkInv, TypeOK
        <3>3. CASE cnf' = Append(cnf, Answer(Head(req), refused))
            <4>1. Answer(Head(req), refused) \in Frame
                BY <1>0, AdapterType DEF LinkInv
            <4>2. ~refused => Answer(Head(req), refused).data
                                 = phy'[Answer(Head(req), refused).reg]
                BY <1>1, <1>2, CallsType DEF Answer, Executed, LinkInv, TypeOK
            <4>3. refused => Answer(Head(req), refused).MSTATUS
                BY DEF Answer
            <4>4. cnf'[n] # Answer(Head(req), refused)
                BY <4>2, <4>3
            <4> QED
                BY <3>1, <3>3, <4>1, <4>4, Enters DEF LinkInv, TypeOK
        <3> QED
            BY <1>1, <3>2, <3>3
    <2>2. cnf[n].reg \in Regs
        BY <2>1 DEF Frame
    <2>3. CASE phy'[cnf[n].reg] = phy[cnf[n].reg]
        <3>1. /\ IsWrite(call, cnf[n].reg) /\ phy[call.reg] = call.data
              /\ \A m \in 1 .. n - 1 :
                    Answered(cnf[m], call.reg) => cnf[m].data # call.data
            BY <2>1, <2>3 DEF LinkInv, LateConfirmations
        <3> QED
            BY <2>1, <2>3, <3>1 DEF IsWrite
    <2>4. CASE phy'[cnf[n].reg] # phy[cnf[n].reg]
        <3>1. IsWrite(call, cnf[n].reg) /\ phy'[call.reg] = call.data /\ phy[call.reg] # call.data
            BY <1>4, <2>2, <2>4 DEF IsWrite
        <3>2. \A m \in 1 .. n - 1 : Answered(cnf[m], call.reg) => cnf[m].data # call.data
            BY <2>1, <3>1 DEF LinkInv, LateConfirmations, Answered
        <3> QED
            BY <2>1, <3>1, <3>2
    <2> QED
        BY <2>3, <2>4
<1> QED
    BY <1>5, <1>6

\* LinkInv: whatever is left on the link of earlier attempts and calls can
\* neither undo nor fake the call in progress (packet_send).
THEOREM LinkSafe == Spec => []LinkInv
<1>1. LinkInv /\ [Next]_vars => LinkInv'
    <2> SUFFICES ASSUME LinkInv, [Next]_vars PROVE LinkInv'
        OBVIOUS
    <2>1. TypeOK'
        BY NextTypeOK DEF LinkInv
    <2>2. CASE Timeout \/ UNCHANGED vars
        BY <2>2, SMTT(40) DEF Timeout, RetryOrExit, vars, LinkInv, LateRequests, LateConfirmations,
                    IsWrite, Answered, TypeOK
    <2>3. LateRequests' /\ LateConfirmations'
        BY <2>2, BeginLink, SendLink, ReceiveLink, AdapterLink DEF Next, Caller, LinkInv
    <2> QED
        BY <2>1, <2>3 DEF LinkInv
<1> QED
    BY <1>1, InitLinkInv, PTL DEF Spec

\* ReturnsTrue: eoc_phy_read returns what the register holds, and when
\* eoc_phy_write returns 0 the register holds its data.
THEOREM ReturnsAreTrue == Spec => ReturnsTrue
<1>1. LinkInv /\ [Next]_vars =>
        [state = "wait" /\ state' = "idle"
         => phy[call.reg] = IF call.op = "read" THEN result'.data ELSE call.data]_vars
    <2> SUFFICES ASSUME LinkInv, Next, state = "wait", state' = "idle"
                 PROVE  phy[call.reg] = IF call.op = "read" THEN result'.data ELSE call.data
        BY DEF vars
    <2>1. Receive
        BY DEF Next, Caller, Begin, Send, Timeout, Adapter, RetryOrExit, caller
    <2> QED
        BY <2>1, ReturnIsTrue, CallsType
<1> QED
    BY <1>1, LinkSafe, PTL DEF Spec, ReturnsTrue

\* NoLateWrite: a request of a finished call that the adapter executes late
\* changes no register.
THEOREM NoWriteIsLate == Spec => NoLateWrite
<1>1. LinkInv /\ [Next]_vars =>
        [\A r \in Regs : phy'[r] # phy[r] => IsWrite(call, r) /\ phy'[r] = call.data]_vars
    <2> SUFFICES ASSUME LinkInv, Next, NEW r \in Regs, phy'[r] # phy[r]
                 PROVE  IsWrite(call, r) /\ phy'[r] = call.data
        BY DEF vars
    <2>1. Adapter
        BY DEF Next, Caller, Begin, Send, Receive, Timeout
    <2>2. req # <<>> /\ phy' = Executed(Head(req)) /\ phy' # phy
        BY <2>1 DEF Adapter
    <2>3. Head(req) = call /\ call.op = "write"
        BY <2>2, ExecutesCall
    <2> QED
        BY <2>2, <2>3 DEF Executed, IsWrite, LinkInv, TypeOK
<1> QED
    BY <1>1, LinkSafe, PTL DEF Spec, NoLateWrite

-----------------------------------------------------------------------------
\* How many steps, of whoever takes them, a call in progress may still see:
\* an attempt costs its send, its wait and what comes of its request; a
\* request under way is executed and its confirmation read; a confirmation is
\* read.
InCall == state \in {"send", "wait"}
Effort == 5 * (LoopNum - i) + (IF state = "wait" THEN 1 ELSE 0) + 2 * Len(req) + Len(cnf)
MostEffort == 5 * LoopNum + 1 + 3 * InFlight

LEMMA EffortBound == TypeOK => Effort \in 0 .. MostEffort
<1> SUFFICES ASSUME TypeOK PROVE Effort \in 0 .. MostEffort
    OBVIOUS
<1>1. i \in 0 .. LoopNum /\ Len(req) \in 0 .. InFlight /\ Len(cnf) \in 0 .. InFlight
    BY DEF TypeOK
<1>2. \A k \in {0, 1} : 5 * (LoopNum - i) + k + 2 * Len(req) + Len(cnf) \in 0 .. MostEffort
    BY <1>1, EocAssumption DEF MostEffort
<1> QED
    BY <1>2 DEF Effort

\* A frame that is sent is one more on the link; one that arrives one less.
LEMMA LinkLengths ==
    ASSUME TypeOK
    PROVE  /\ Len(req) \in Nat /\ Len(cnf) \in Nat
           /\ \A e \in Calls : Len(Append(req, e)) = Len(req) + 1
           /\ \A e \in Frame : Len(Append(cnf, e)) = Len(cnf) + 1
           /\ req # <<>> => Len(req) \in Nat \ {0} /\ Len(Tail(req)) = Len(req) - 1
           /\ cnf # <<>> => Len(cnf) \in Nat \ {0} /\ Len(Tail(cnf)) = Len(cnf) - 1
BY DEF TypeOK

\* Every step while a call is in progress brings it nearer to its end: it
\* cannot take more than MostEffort of them, whatever the link loses and
\* whenever the adapter answers.  packet_send reads frames until one confirms
\* its request or ReadMME times out, so it is to be shown that what others
\* left on the link runs out.
THEOREM CallsAreShort ==
    /\ Spec => [](Effort \in 0 .. MostEffort)
    /\ Spec => [][InCall /\ InCall' => Effort' < Effort]_vars
<1>1. TypeOK /\ [Next]_vars => [InCall /\ InCall' => Effort' < Effort]_vars
    <2> SUFFICES ASSUME TypeOK, Next, InCall, InCall'
                 PROVE  Effort' < Effort
        BY DEF vars
    <2> USE EocAssumption
    <2>1. i \in Nat /\ LoopNum \in Nat /\ i <= LoopNum
        BY DEF TypeOK
    <2>2. call \in Calls
        BY DEF TypeOK, InCall
    <2>3. CASE Send
        <3>1. state = "send" /\ i' = i + 1 /\ cnf' = cnf
            BY <2>3 DEF Send
        <3>2. Len(req') <= Len(req) + 1 /\ Len(req') \in Nat
            BY <2>3, <2>2, LinkLengths DEF Send
        <3> QED
            BY <2>1, <3>1, <3>2, LinkLengths DEF Effort
    <2>4. CASE Receive
        <3>1. cnf # <<>> /\ cnf' = Tail(cnf) /\ UNCHANGED <<state, i, req>>
            BY <2>4 DEF Receive, caller, InCall
        <3> QED
            BY <2>1, <3>1, LinkLengths DEF Effort
    <2>5. CASE Timeout
        <3>1. state = "wait" /\ state' = "send" /\ UNCHANGED <<i, req, cnf>>
            BY <2>5 DEF Timeout, RetryOrExit, InCall
        <3> QED
            BY <2>1, <3>1, LinkLengths DEF Effort
    <2>6. CASE Adapter
        <3>1. req # <<>> /\ req' = Tail(req) /\ UNCHANGED <<state, i>>
            BY <2>6 DEF Adapter, caller
        <3>2. Len(cnf') <= Len(cnf) + 1 /\ Len(cnf') \in Nat
            BY <2>6, <3>1, AdapterType, LinkLengths DEF Adapter
        <3> QED
            BY <2>1, <3>1, <3>2, LinkLengths DEF Effort
    <2>7. ASSUME NEW c \in Calls, Begin(c) PROVE FALSE
        BY <2>7 DEF Begin, InCall
    <2> QED
        BY <2>3, <2>4, <2>5, <2>6, <2>7 DEF Next, Caller
<1>2. LinkInv => TypeOK
    BY DEF LinkInv
<1> QED
    BY <1>1, <1>2, EffortBound, LinkSafe, PTL DEF Spec
=============================================================================

---------------------------- MODULE SvlanProofs ----------------------------
(***************************************************************************)
(* Proofs about Svlan for any number of ports, slots, entries and SVLANs.  *)
(*                                                                         *)
(* Each table is written by the calls of one table only, so the invariants *)
(* are proved one table at a time: each is inductive together with TypeOK. *)
(* The action properties rest on them: copies that agree make a delete of  *)
(* an address harmless, and unique translations make both scans meet.      *)
(***************************************************************************)
EXTENDS Svlan, TLAPS

\* Callers that never give a slot to another SVLAN by index.
Disciplined == ~AnyRaw

-----------------------------------------------------------------------------
\* The registers start in range.
LEMMA InitTypeOK == Init => TypeOK
<1> SUFFICES ASSUME Init PROVE TypeOK
    OBVIOUS
<1>1. 0 \in Slots /\ 0 \in Vids
    BY SvlanAssumption DEF Slots, Vids
<1>2. mc \in [Slots -> SlotReg]
    BY <1>1 DEF Init, EmptySlot, SlotReg
<1>3. fall \in [Frames -> FallReg]
    BY <1>1 DEF Init, FallReg, Actions
<1>4. c2s \in [C2sIdx -> C2sReg]
    BY <1>1 DEF Init, EmptyC2s, C2sReg
<1>5. mc2s \in [Mc2sIdx -> Mc2sReg]
    BY <1>1 DEF Init, EmptyMc2s, Mc2sReg
<1>6. sp2c \in [Sp2cIdx -> Sp2cReg]
    BY <1>1 DEF Init, EmptySp2c, Sp2cReg
<1> QED
    BY <1>1, <1>2, <1>3, <1>4, <1>5, <1>6 DEF Init, TypeOK, Results

\* A refused call keeps the registers in range.
LEMMA RefuseTypeOK ==
    ASSUME TypeOK, NEW r \in Results, Refuse(r)
    PROVE  TypeOK'
BY DEF Refuse, Return, tables, TypeOK

\* The slot calls keep the registers in range.
LEMMA SlotCallTypeOK == TypeOK /\ SlotCall => TypeOK'
<1> SUFFICES ASSUME TypeOK, SlotCall PROVE TypeOK'
    OBVIOUS
<1>0. 0 \in Slots /\ 0 \in Vids
    BY SvlanAssumption DEF Slots, Vids
<1>1. ASSUME NEW s \in CallSvids, NEW m \in Masks, MemberPortEntrySet(s, m) PROVE TypeOK'
    <2>1. CASE Refuse("svid") \/ Refuse("full")
        BY <2>1, RefuseTypeOK DEF Results
    <2>2. CASE /\ s <= VIDMAX
               /\ RewriteSlot(s, m) \/ FillSlot(s, m)
               /\ Return("ok")
               /\ UNCHANGED <<dflt, fall, c2s, mc2s, sp2c>>
        <3>1. s \in Vids /\ m \in SUBSET Ports
            BY <2>2, SvlanAssumption DEF Vids
        <3>2. PICK i \in Slots, t \in {0, s} : mc' = [mc EXCEPT ![i] = [svid |-> t, mbr |-> m]]
            BY <2>2 DEF RewriteSlot, FillSlot
        <3>3. [svid |-> t, mbr |-> m] \in SlotReg
            BY <1>0, <3>1 DEF SlotReg
        <3> QED
            BY <2>2, <3>2, <3>3 DEF Return, TypeOK, Results
    <2> QED
        BY <1>1, <2>1, <2>2 DEF MemberPortEntrySet
<1>2. ASSUME NEW i \in Slots, NEW c \in RawCfgs, MemberPortEntryAdvSet(i, c) PROVE TypeOK'
    BY <1>2, SvlanAssumption DEF MemberPortEntryAdvSet, Return, TypeOK, Results
<1>3. CASE SvlanInit
    <2>1. /\ EmptySlot \in SlotReg /\ EmptyC2s \in C2sReg
          /\ EmptyMc2s \in Mc2sReg /\ EmptySp2c \in Sp2cReg
        BY <1>0 DEF EmptySlot, EmptyC2s, EmptyMc2s, EmptySp2c,
                    SlotReg, C2sReg, Mc2sReg, Sp2cReg
    <2>2. fall' \in [Frames -> FallReg]
        BY <1>3 DEF SvlanInit, TypeOK, FallReg, Actions
    <2> QED
        BY <1>3, <2>1, <2>2 DEF SvlanInit, Return, TypeOK, Results
<1> QED
    BY <1>1, <1>2, <1>3 DEF SlotCall

\* The calls on default SVLANs and frame actions keep the registers in range.
LEMMA FrameCallTypeOK == TypeOK /\ FrameCall => TypeOK'
<1> SUFFICES ASSUME TypeOK, FrameCall PROVE TypeOK'
    OBVIOUS
<1>1. ASSUME NEW p \in Ports, NEW s \in CallSvids, DefaultSvlanSet(p, s) PROVE TypeOK'
    <2>1. CASE Refuse("svid") \/ Refuse("notfound")
        BY <2>1, RefuseTypeOK DEF Results
    <2>2. ASSUME NEW i \in Slots, PointDefault(p, i), Return("ok"),
                 UNCHANGED <<mc, fall, c2s, mc2s, sp2c>>
          PROVE  TypeOK'
        BY <2>2 DEF PointDefault, Return, TypeOK, Results
    <2> QED
        BY <1>1, <2>1, <2>2 DEF DefaultSvlanSet
<1>2. ASSUME NEW f \in Frames, NEW a \in Actions, NEW s \in CallSvids, ActionSet(f, a, s)
      PROVE  TypeOK'
    <2>1. CASE Refuse("svid")
        BY <2>1, RefuseTypeOK DEF Results
    <2>2. ASSUME fall' \in [Frames -> FallReg], Return("ok") \/ Return("notfound"),
                 UNCHANGED <<mc, dflt, c2s, mc2s, sp2c>>
          PROVE  TypeOK'
        BY <2>2 DEF Return, TypeOK, Results
    <2>3. ASSUME fall' = [fall EXCEPT ![f].action = a] PROVE fall' \in [Frames -> FallReg]
        BY <2>3 DEF TypeOK, FallReg
    <2>4. ASSUME NEW i \in Slots, fall' = [fall EXCEPT ![f] = [action |-> a, svidx |-> i]]
          PROVE  fall' \in [Frames -> FallReg]
        BY <2>4 DEF TypeOK, FallReg
    <2> QED
        BY <1>2, <2>1, <2>2, <2>3, <2>4 DEF ActionSet
<1> QED
    BY <1>1, <1>2 DEF FrameCall

\* What the scan of rtk_svlan_c2s_add leaves is in range.
LEMMA C2sMovedType ==
    ASSUME TypeOK, NEW v \in Vids, NEW p \in Ports, NEW i \in Slots, NEW passed
    PROVE  C2sMoved(v, p, i, passed) \in [C2sIdx -> C2sReg]
BY DEF C2sMoved, TypeOK, C2sReg

\* The C2S calls keep the registers in range.
LEMMA C2sCallTypeOK == TypeOK /\ C2sCall => TypeOK'
<1> SUFFICES ASSUME TypeOK, C2sCall PROVE TypeOK'
    OBVIOUS
<1>0. 0 \in Slots /\ 0 \in Vids
    BY SvlanAssumption DEF Slots, Vids
<1>1. ASSUME c2s' \in [C2sIdx -> C2sReg], ret' \in Results,
             UNCHANGED <<mc, dflt, fall, mc2s, sp2c>>
      PROVE  TypeOK'
    BY <1>1 DEF TypeOK
<1>2. ASSUME NEW v \in CallCvids, NEW p \in Ports, NEW s \in CallSvids, C2sAdd(v, p, s)
      PROVE  TypeOK'
    <2>1. CASE Refuse("svid") \/ Refuse("vid")
        BY <2>1, RefuseTypeOK DEF Results
    <2>2. ASSUME NEW i \in Slots, v <= VIDMAX, C2sEnter(v, p, i),
                 UNCHANGED <<mc, dflt, fall, mc2s, sp2c>>
          PROVE  TypeOK'
        <3>1. v \in Vids
            BY <2>2, SvlanAssumption DEF Vids
        <3>2. ret' \in Results
            BY <2>2 DEF C2sEnter, Return, Results
        <3>3. ASSUME NEW n \in C2sIdx, NEW passed,
                     c2s' = [C2sMoved(v, p, i, passed) EXCEPT ![n].pmsk = @ \cup {p}]
              PROVE  c2s' \in [C2sIdx -> C2sReg]
            <4> DEFINE moved == C2sMoved(v, p, i, passed)
            <4>1. moved \in [C2sIdx -> C2sReg]
                BY <3>1, C2sMovedType
            <4> HIDE DEF moved
            <4>2. [moved[n] EXCEPT !.pmsk = @ \cup {p}] \in C2sReg
                BY <4>1 DEF C2sReg
            <4>3. c2s' = [moved EXCEPT ![n] = [moved[n] EXCEPT !.pmsk = @ \cup {p}]]
                BY <3>3 DEF moved
            <4> QED
                BY <4>1, <4>2, <4>3
        <3>4. ASSUME NEW n \in C2sIdx, NEW passed,
                     c2s' = [C2sMoved(v, p, i, passed) EXCEPT
                               ![n] = [evid |-> v, pmsk |-> {p}, svidx |-> i]]
              PROVE  c2s' \in [C2sIdx -> C2sReg]
            <4>1. [evid |-> v, pmsk |-> {p}, svidx |-> i] \in C2sReg
                BY <3>1 DEF C2sReg
            <4> QED
                BY <3>1, <3>4, <4>1, C2sMovedType
        <3>5. c2s' = C2sMoved(v, p, i, C2sIdx) => c2s' \in [C2sIdx -> C2sReg]
            BY <3>1, C2sMovedType
        <3> QED
            BY <1>1, <2>2, <3>2, <3>3, <3>4, <3>5 DEF C2sEnter
    <2> QED
        BY <1>2, <2>1, <2>2 DEF C2sAdd
<1>3. ASSUME NEW v \in CallCvids, NEW p \in Ports, C2sDel(v, p) PROVE TypeOK'
    <2>1. CASE Refuse("vid") \/ Refuse("range")
        BY <2>1, RefuseTypeOK DEF Results
    <2>2. ASSUME NEW n \in C2sIdx, NEW e \in {EmptyC2s, [c2s[n] EXCEPT !.pmsk = @ \ {p}]},
                 c2s' = [c2s EXCEPT ![n] = e], Return("ok"),
                 UNCHANGED <<mc, dflt, fall, mc2s, sp2c>>
          PROVE  TypeOK'
        <3>1. c2s[n] \in C2sReg
            BY DEF TypeOK
        <3>2. e \in C2sReg
            BY <1>0, <3>1 DEF EmptyC2s, C2sReg
        <3> QED
            BY <1>1, <2>2, <3>2 DEF TypeOK, Return, Results
    <2> QED
        BY <1>3, <2>1, <2>2 DEF C2sDel
<1> QED
    BY <1>2, <1>3 DEF C2sCall

\* The MC2S calls keep the registers in range.
LEMMA Mc2sCallTypeOK == TypeOK /\ Mc2sCall => TypeOK'
<1> SUFFICES ASSUME TypeOK, Mc2sCall PROVE TypeOK'
    OBVIOUS
<1>0. 0 \in Slots
    BY SvlanAssumption DEF Slots
<1>1. ASSUME mc2s' \in [Mc2sIdx -> Mc2sReg], ret' \in Results,
             UNCHANGED <<mc, dflt, fall, c2s, sp2c>>
      PROVE  TypeOK'
    BY <1>1 DEF TypeOK
<1>2. ASSUME NEW a \in Addrs, NEW s \in CallSvids, Mc2sAdd(a, s) PROVE TypeOK'
    <2>1. CASE Refuse("svid") \/ Refuse("input") \/ Refuse("notfound")
        BY <2>1, RefuseTypeOK DEF Results
    <2>2. ASSUME NEW i \in Slots, a \in Multicast, Mc2sEnter(a, i),
                 UNCHANGED <<mc, dflt, fall, c2s, sp2c>>
          PROVE  TypeOK'
        <3>1. Mc2sPointed(a, i) \in [Mc2sIdx -> Mc2sReg]
            BY DEF Mc2sPointed, TypeOK, Mc2sReg
        <3>2. [valid |-> TRUE, addr |-> a, svidx |-> i] \in Mc2sReg
            BY <2>2 DEF Mc2sReg
        <3>3. mc2s' \in [Mc2sIdx -> Mc2sReg]
            BY <2>2, <3>1, <3>2 DEF Mc2sEnter
        <3> QED
            BY <1>1, <2>2, <3>3 DEF Mc2sEnter, Return, Results
    <2> QED
        BY <1>2, <2>1, <2>2 DEF Mc2sAdd
<1>3. ASSUME NEW a \in Addrs, Mc2sDel(a) PROVE TypeOK'
    <2>1. CASE Refuse("input") \/ Refuse("range")
        BY <2>1, RefuseTypeOK DEF Results
    <2>2. EmptyMc2s \in Mc2sReg
        BY <1>0 DEF EmptyMc2s, Mc2sReg
    <2>3. ASSUME NEW n \in Mc2sIdx, mc2s' = [mc2s EXCEPT ![n] = EmptyMc2s], Return("ok"),
                 UNCHANGED <<mc, dflt, fall, c2s, sp2c>>
          PROVE  TypeOK'
        BY <1>1, <2>2, <2>3 DEF TypeOK, Return, Results
    <2> QED
        BY <1>3, <2>1, <2>3 DEF Mc2sDel
<1> QED
    BY <1>2, <1>3 DEF Mc2sCall

\* The SP2C calls keep the registers in range.
LEMMA Sp2cCallTypeOK == TypeOK /\ Sp2cCall => TypeOK'
<1> SUFFICES ASSUME TypeOK, Sp2cCall PROVE TypeOK'
    OBVIOUS
<1>0. 0 \in Slots /\ 0 \in Vids
    BY SvlanAssumption DEF Slots, Vids
<1>1. ASSUME sp2c' \in [Sp2cIdx -> Sp2cReg], ret' \in Results,
             UNCHANGED <<mc, dflt, fall, c2s, mc2s>>
      PROVE  TypeOK'
    BY <1>1 DEF TypeOK
<1>2. UNCHANGED sp2c => sp2c' \in [Sp2cIdx -> Sp2cReg]
    BY DEF TypeOK
<1>3. ASSUME NEW s \in CallSvids, NEW p \in Ports, NEW v \in CallCvids, Sp2cAdd(s, p, v)
      PROVE  TypeOK'
    <2>1. CASE Refuse("svid") \/ Refuse("vid") \/ Refuse("notfound")
        BY <2>1, RefuseTypeOK DEF Results
    <2>2. ASSUME NEW i \in Slots, NEW n \in Sp2cIdx, v <= VIDMAX, Return("ok"),
                 sp2c' = [sp2c EXCEPT ![n] =
                            [valid |-> TRUE, svidx |-> i, dst |-> p, vid |-> v]],
                 UNCHANGED <<mc, dflt, fall, c2s, mc2s>>
          PROVE  TypeOK'
        <3>1. [valid |-> TRUE, svidx |-> i, dst |-> p, vid |-> v] \in Sp2cReg
            BY <2>2, SvlanAssumption DEF Sp2cReg, Vids
        <3> QED
            BY <1>1, <2>2, <3>1 DEF TypeOK, Return, Results
    <2>3. CASE Return("range") /\ UNCHANGED <<sp2c, mc, dflt, fall, c2s, mc2s>>
        BY <1>1, <1>2, <2>3 DEF Return, Results
    <2> QED
        BY <1>3, <2>1, <2>2, <2>3 DEF Sp2cAdd
<1>4. ASSUME NEW s \in CallSvids, NEW p \in Ports, Sp2cDel(s, p) PROVE TypeOK'
    <2>1. CASE Refuse("svid") \/ Refuse("notfound")
        BY <2>1, RefuseTypeOK DEF Results
    <2>2. EmptySp2c \in Sp2cReg
        BY <1>0 DEF EmptySp2c, Sp2cReg
    <2>3. ASSUME NEW n \in Sp2cIdx, sp2c' = [sp2c EXCEPT ![n] = EmptySp2c], Return("ok"),
                 UNCHANGED <<mc, dflt, fall, c2s, mc2s>>
          PROVE  TypeOK'
        BY <1>1, <2>2, <2>3 DEF TypeOK, Return, Results
    <2>4. CASE Return("range") /\ UNCHANGED <<sp2c, mc, dflt, fall, c2s, mc2s>>
        BY <1>1, <1>2, <2>4 DEF Return, Results
    <2> QED
        BY <1>4, <2>1, <2>3, <2>4 DEF Sp2cDel
<1> QED
    BY <1>3, <1>4 DEF Sp2cCall

\* A call keeps the registers in range.
LEMMA NextTypeOK == TypeOK /\ [Next]_vars => TypeOK'
<1>1. TypeOK /\ UNCHANGED vars => TypeOK'
    BY DEF vars, TypeOK
<1> QED
    BY <1>1, SlotCallTypeOK, FrameCallTypeOK, C2sCallTypeOK, Mc2sCallTypeOK, Sp2cCallTypeOK
    DEF Next

\* TypeOK: whatever callers pass, the registers of the SVLAN tables hold values
\* their fields can hold.
THEOREM TypeCorrect == Spec => []TypeOK
BY InitTypeOK, NextTypeOK, PTL DEF Spec

-----------------------------------------------------------------------------
\* rtk_svlan_memberPortEntry_set fills a slot only after it found none of the
\* SVLAN, and a disciplined write by index brings no SVLAN in.
LEMMA SlotCallOneSlot ==
    Disciplined /\ TypeOK /\ OneSlotPerSvid /\ SlotCall => OneSlotPerSvid'
<1> SUFFICES ASSUME Disciplined, TypeOK, OneSlotPerSvid, SlotCall PROVE OneSlotPerSvid'
    OBVIOUS
<1>1. ASSUME NEW i \in Slots, NEW c, mc' = [mc EXCEPT ![i] = c],
             c.svid # 0 => \A j \in Slots : j # i => mc[j].svid # c.svid
      PROVE  OneSlotPerSvid'
    <2>1. \A j \in Slots : mc'[j] = IF j = i THEN c ELSE mc[j]
        BY <1>1 DEF TypeOK
    <2> QED
        BY <1>1, <2>1 DEF OneSlotPerSvid
<1>2. ASSUME NEW s \in CallSvids, NEW m \in Masks, MemberPortEntrySet(s, m)
      PROVE  OneSlotPerSvid'
    <2>1. CASE UNCHANGED mc
        BY <2>1 DEF OneSlotPerSvid
    <2>2. CASE RewriteSlot(s, m)
        <3>1. PICK i \in Slots : /\ mc[i].svid = s
                                 /\ mc' = [mc EXCEPT ![i] =
                                       [svid |-> IF m = {} THEN 0 ELSE s, mbr |-> m]]
            BY <2>2 DEF RewriteSlot, Lowest, SlotsWith
        <3>2. s # 0 => \A j \in Slots : j # i => mc[j].svid # s
            BY <3>1 DEF OneSlotPerSvid
        <3> QED
            BY <1>1, <3>1, <3>2
    <2>3. CASE FillSlot(s, m)
        <3>1. PICK i \in Slots : mc' = [mc EXCEPT ![i] = [svid |-> s, mbr |-> m]]
            BY <2>3 DEF FillSlot
        <3>2. \A j \in Slots : mc[j].svid # s
            BY <2>3 DEF FillSlot, SlotsWith
        <3> QED
            BY <1>1, <3>1, <3>2
    <2> QED
        BY <1>2, <2>1, <2>2, <2>3 DEF MemberPortEntrySet, Refuse, tables
<1>3. ASSUME NEW i \in Slots, NEW c \in RawCfgs, c.svid \in {0, mc[i].svid},
             MemberPortEntryAdvSet(i, c)
      PROVE  OneSlotPerSvid'
    <2>1. c.svid # 0 => \A j \in Slots : j # i => mc[j].svid # c.svid
        BY <1>3 DEF OneSlotPerSvid
    <2> QED
        BY <1>1, <1>3, <2>1 DEF MemberPortEntryAdvSet
<1>4. CASE SvlanInit
    BY <1>4 DEF SvlanInit, EmptySlot, OneSlotPerSvid
<1> QED
    BY <1>2, <1>3, <1>4 DEF SlotCall, Disciplined

\* SlotInv: every search by SVID -- the setter's, and those of the default,
\* C2S, MC2S and SP2C calls -- finds the same slot.
THEOREM OneSlotSafe ==
    ASSUME Disciplined
    PROVE  Spec => []SlotInv
<1>1. Init => SlotInv
    BY InitTypeOK DEF Init, EmptySlot, SlotInv, OneSlotPerSvid
<1>2. SlotInv /\ [Next]_vars => SlotInv'
    <2> SUFFICES ASSUME SlotInv, [Next]_vars PROVE OneSlotPerSvid'
        BY NextTypeOK DEF SlotInv
    <2>1. ~SlotCall => UNCHANGED mc
        BY DEF Next, FrameCall, DefaultSvlanSet, ActionSet, C2sCall, C2sAdd, C2sDel,
               Mc2sCall, Mc2sAdd, Mc2sDel, Sp2cCall, Sp2cAdd, Sp2cDel,
               Refuse, tables, vars
    <2>2. UNCHANGED mc => OneSlotPerSvid'
        BY DEF SlotInv, OneSlotPerSvid
    <2> QED
        BY <2>1, <2>2, SlotCallOneSlot DEF SlotInv
<1> QED
    BY <1>1, <1>2, PTL DEF Spec

-----------------------------------------------------------------------------
\* rtk_svlan_sp2c_add takes a free entry only when no entry has the slot and
\* port, and an entry it takes over is the only one.
LEMMA Sp2cCallUnique == TypeOK /\ Sp2cUnique /\ Sp2cCall => Sp2cUnique'
<1> SUFFICES ASSUME TypeOK, Sp2cUnique, Sp2cCall PROVE Sp2cUnique'
    OBVIOUS
<1>0. UNCHANGED sp2c => Sp2cUnique'
    BY DEF Sp2cUnique
<1>1. ASSUME NEW n \in Sp2cIdx, NEW e, sp2c' = [sp2c EXCEPT ![n] = e],
             e.valid => \A k \in Sp2cIdx :
                 sp2c[k].valid /\ sp2c[k].svidx = e.svidx /\ sp2c[k].dst = e.dst => k = n
      PROVE  Sp2cUnique'
    <2>1. \A k \in Sp2cIdx : sp2c'[k] = IF k = n THEN e ELSE sp2c[k]
        BY <1>1 DEF TypeOK
    <2> QED
        BY <1>1, <2>1 DEF Sp2cUnique
<1>2. ASSUME NEW i \in Slots, NEW p \in Ports, NEW v, NEW n \in Sp2cIdx,
             Sp2cTarget(n, i, p),
             sp2c' = [sp2c EXCEPT ![n] =
                        [valid |-> TRUE, svidx |-> i, dst |-> p, vid |-> v]]
      PROVE  Sp2cUnique'
    <2>1. \A k \in Sp2cIdx : sp2c[k].valid /\ sp2c[k].svidx = i /\ sp2c[k].dst = p => k = n
        BY <1>2 DEF Sp2cTarget, Highest, Sp2cWith, Sp2cUnique
    <2> QED
        BY <1>1, <1>2, <2>1
<1>3. ASSUME NEW n \in Sp2cIdx, sp2c' = [sp2c EXCEPT ![n] = EmptySp2c] PROVE Sp2cUnique'
    BY <1>1, <1>3 DEF EmptySp2c
<1> QED
    BY <1>0, <1>2, <1>3 DEF Sp2cCall, Sp2cAdd, Sp2cDel, Refuse, tables

\* Sp2cUnique: a slot and port never have two translations, so the getter and
\* the delete, which scan from the other end than the add, meet its entry.
THEOREM Sp2cSafe == Spec => []Sp2cUnique
<1> DEFINE IInv == TypeOK /\ Sp2cUnique
<1>1. Init => IInv
    BY InitTypeOK DEF Init, EmptySp2c, Sp2cUnique
<1>2. IInv /\ [Next]_vars => IInv'
    <2> SUFFICES ASSUME IInv, [Next]_vars PROVE Sp2cUnique'
        BY NextTypeOK
    <2>1. ~Sp2cCall /\ ~SvlanInit => UNCHANGED sp2c
        BY DEF Next, SlotCall, MemberPortEntrySet, MemberPortEntryAdvSet,
               FrameCall, DefaultSvlanSet, ActionSet, C2sCall, C2sAdd, C2sDel,
               Mc2sCall, Mc2sAdd, Mc2sDel, Refuse, tables, vars
    <2>2. UNCHANGED sp2c => Sp2cUnique'
        BY DEF Sp2cUnique
    <2>3. SvlanInit => Sp2cUnique'
        BY DEF SvlanInit, EmptySp2c, Sp2cUnique
    <2> QED
        BY <2>1, <2>2, <2>3, Sp2cCallUnique
<1>3. IInv => Sp2cUnique
    OBVIOUS
<1> QED
    BY <1>1, <1>2, <1>3, PTL DEF Spec

-----------------------------------------------------------------------------
\* The scan of the MC2S adds re-points every entry of the address before the
\* free entry is filled for it.
LEMMA Mc2sCallAgree == TypeOK /\ Mc2sCopiesAgree /\ Mc2sCall => Mc2sCopiesAgree'
<1> SUFFICES ASSUME TypeOK, Mc2sCopiesAgree, Mc2sCall PROVE Mc2sCopiesAgree'
    OBVIOUS
<1>0. UNCHANGED mc2s => Mc2sCopiesAgree'
    BY DEF Mc2sCopiesAgree
<1>1. ASSUME NEW a \in Addrs, NEW i \in Slots, Mc2sEnter(a, i) PROVE Mc2sCopiesAgree'
    <2>1. \A k \in Mc2sIdx :
             /\ Mc2sPointed(a, i)[k].valid = mc2s[k].valid
             /\ Mc2sPointed(a, i)[k].addr = mc2s[k].addr
             /\ Mc2sPointed(a, i)[k].svidx =
                    IF mc2s[k].valid /\ mc2s[k].addr = a THEN i ELSE mc2s[k].svidx
        BY DEF Mc2sPointed, Mc2sWith, TypeOK, Mc2sReg
    <2>2. CASE mc2s' = Mc2sPointed(a, i)
        BY <2>1, <2>2 DEF Mc2sCopiesAgree
    <2>3. ASSUME NEW n \in Mc2sIdx,
                 mc2s' = [Mc2sPointed(a, i) EXCEPT
                            ![n] = [valid |-> TRUE, addr |-> a, svidx |-> i]]
          PROVE  Mc2sCopiesAgree'
        <3>1. \A k \in Mc2sIdx :
                 mc2s'[k] = IF k = n THEN [valid |-> TRUE, addr |-> a, svidx |-> i]
                            ELSE Mc2sPointed(a, i)[k]
            BY <2>3 DEF Mc2sPointed
        <3>2. \A k \in Mc2sIdx : mc2s'[k].valid /\ mc2s'[k].addr = a => mc2s'[k].svidx = i
            BY <2>1, <3>1
        <3>3. \A k \in Mc2sIdx :
                 mc2s'[k].valid /\ mc2s'[k].addr # a =>
                     /\ mc2s[k].valid /\ mc2s[k].addr = mc2s'[k].addr
                     /\ mc2s[k].svidx = mc2s'[k].svidx
            BY <2>1, <3>1
        <3> QED
            BY <3>2, <3>3 DEF Mc2sCopiesAgree
    <2> QED
        BY <1>1, <2>2, <2>3 DEF Mc2sEnter
<1>2. ASSUME NEW n \in Mc2sIdx, mc2s' = [mc2s EXCEPT ![n] = EmptyMc2s]
      PROVE  Mc2sCopiesAgree'
    <2>1. \A k \in Mc2sIdx : mc2s'[k] = IF k = n THEN EmptyMc2s ELSE mc2s[k]
        BY <1>2 DEF TypeOK
    <2> QED
        BY <2>1 DEF EmptyMc2s, Mc2sCopiesAgree
<1> QED
    BY <1>0, <1>1, <1>2 DEF Mc2sCall, Mc2sAdd, Mc2sDel, Refuse, tables

\* Mc2sCopiesAgree: however many entries repeated rtk_svlan_ipmc2s_add and
\* rtk_svlan_l2mc2s_add calls leave for an address, they have one SVLAN.
THEOREM Mc2sSafe == Spec => []Mc2sCopiesAgree
<1> DEFINE IInv == TypeOK /\ Mc2sCopiesAgree
<1>1. Init => IInv
    BY InitTypeOK DEF Init, EmptyMc2s, Mc2sCopiesAgree
<1>2. IInv /\ [Next]_vars => IInv'
    <2> SUFFICES ASSUME IInv, [Next]_vars PROVE Mc2sCopiesAgree'
        BY NextTypeOK
    <2>1. ~Mc2sCall /\ ~SvlanInit => UNCHANGED mc2s
        BY DEF Next, SlotCall, MemberPortEntrySet, MemberPortEntryAdvSet,
               FrameCall, DefaultSvlanSet, ActionSet, C2sCall, C2sAdd, C2sDel,
               Sp2cCall, Sp2cAdd, Sp2cDel, Refuse, tables, vars
    <2>2. UNCHANGED mc2s => Mc2sCopiesAgree'
        BY DEF Mc2sCopiesAgree
    <2>3. SvlanInit => Mc2sCopiesAgree'
        BY DEF SvlanInit, EmptyMc2s, Mc2sCopiesAgree
    <2> QED
        BY <2>1, <2>2, <2>3, Mc2sCallAgree
<1>3. IInv => Mc2sCopiesAgree
    OBVIOUS
<1> QED
    BY <1>1, <1>2, <1>3, PTL DEF Spec

\* EntriesAgree: the two tables of entries never disagree with themselves,
\* whatever callers pass.
THEOREM EntriesSafe == Spec => []EntriesAgree
BY Sp2cSafe, Mc2sSafe, PTL DEF EntriesAgree

-----------------------------------------------------------------------------
\* A search of a table stops at one entry.
LEMMA LowestUnique ==
    ASSUME NEW S \in SUBSET Nat, NEW i, NEW j, Lowest(i, S), Lowest(j, S)
    PROVE  i = j
BY DEF Lowest

\* Only a slot call writes slots, and it gives no other SVLAN to a slot that
\* holds one: rtk_svlan_memberPortEntry_set rewrites the slot it found by SVID
\* or fills an empty one.
LEMMA SlotKept ==
    ASSUME Disciplined, TypeOK, Next, NEW i \in Slots, mc[i].svid # 0
    PROVE  mc'[i].svid \in {0, mc[i].svid}
<1>1. ASSUME NEW j \in Slots, NEW c, mc' = [mc EXCEPT ![j] = c],
             mc[j].svid = 0 \/ c.svid \in {0, mc[j].svid}
      PROVE  mc'[i].svid \in {0, mc[i].svid}
    <2>1. mc'[i] = IF i = j THEN c ELSE mc[i]
        BY <1>1 DEF TypeOK
    <2> QED
        BY <1>1, <2>1
<1>2. ASSUME NEW s \in CallSvids, NEW m \in Masks, MemberPortEntrySet(s, m)
      PROVE  mc'[i].svid \in {0, mc[i].svid}
    <2>1. CASE UNCHANGED mc
        BY <2>1
    <2>2. CASE RewriteSlot(s, m)
        BY <1>1, <2>2 DEF RewriteSlot, Lowest, SlotsWith
    <2>3. CASE FillSlot(s, m)
        <3>1. PICK j \in Slots :
                 j \in EmptySlots /\ mc' = [mc EXCEPT ![j] = [svid |-> s, mbr |-> m]]
            BY <2>3 DEF FillSlot, Lowest
        <3>2. mc[j].svid = 0
            BY <3>1 DEF EmptySlots, EmptySlot
        <3> QED
            BY <1>1, <3>1, <3>2
    <2> QED
        BY <1>2, <2>1, <2>2, <2>3 DEF MemberPortEntrySet, Refuse, tables
<1>3. ASSUME NEW j \in Slots, NEW c \in RawCfgs, c.svid \in {0, mc[j].svid},
             MemberPortEntryAdvSet(j, c)
      PROVE  mc'[i].svid \in {0, mc[i].svid}
    BY <1>1, <1>3 DEF MemberPortEntryAdvSet
<1>4. CASE SvlanInit
    BY <1>4 DEF SvlanInit, EmptySlot
<1>5. CASE UNCHANGED mc
    BY <1>5
<1>6. ~SlotCall => UNCHANGED mc
    BY DEF Next, FrameCall, DefaultSvlanSet, ActionSet, C2sCall, C2sAdd, C2sDel,
           Mc2sCall, Mc2sAdd, Mc2sDel, Sp2cCall, Sp2cAdd, Sp2cDel,
           Refuse, tables
<1> QED
    BY <1>2, <1>3, <1>4, <1>5, <1>6 DEF SlotCall, Disciplined

\* The default SVLAN of a port goes from one SVLAN to another only by
\* rtk_svlan_defaultSvlan_set for that port.
LEMMA DefaultStable ==
    ASSUME Disciplined, TypeOK, Next, NEW p \in Ports,
           Switches({DefaultSvlan(p)}, {DefaultSvlan(p)'})
    PROVE  \E s \in CallSvids : DefaultSvlanSet(p, s)
<1>0. dflt[p] \in Slots
    BY DEF TypeOK
<1>1. /\ mc[dflt[p]].svid # 0 /\ mc'[dflt'[p]].svid # 0
      /\ mc'[dflt'[p]].svid # mc[dflt[p]].svid
    BY DEF Switches, DefaultSvlan
<1>2. dflt'[p] # dflt[p]
    BY <1>0, <1>1, SlotKept
<1>3. ~FrameCall => UNCHANGED dflt
    BY DEF Next, SlotCall, MemberPortEntrySet, MemberPortEntryAdvSet, SvlanInit,
           C2sCall, C2sAdd, C2sDel, Mc2sCall, Mc2sAdd, Mc2sDel,
           Sp2cCall, Sp2cAdd, Sp2cDel, Refuse, tables
<1>4. PICK q \in Ports, s \in CallSvids : DefaultSvlanSet(q, s)
    BY <1>2, <1>3 DEF FrameCall, ActionSet, Refuse, tables
<1>5. q # p => dflt'[p] = dflt[p]
    BY <1>4 DEF DefaultSvlanSet, PointDefault, Refuse, tables, TypeOK
<1> QED
    BY <1>2, <1>4, <1>5

\* An address goes from one SVLAN to another only by an add of that address:
\* the entries other calls leave it name the slot its entries named before.
LEMMA Mc2sStable ==
    ASSUME Disciplined, TypeOK, Mc2sCopiesAgree, Next, NEW a \in Addrs,
           Switches(Mc2sOf(a), Mc2sOf(a)')
    PROVE  \E s \in CallSvids : Mc2sAdd(a, s)
<1>0. Mc2sIdx \in SUBSET Nat
    BY SvlanAssumption DEF Mc2sIdx
<1>1. PICK n \in Mc2sIdx, k \in Mc2sIdx :
         /\ Lowest(n, Mc2sWith(a)) /\ Lowest(k, Mc2sWith(a)')
         /\ mc[mc2s[n].svidx].svid # 0 /\ mc'[mc2s'[k].svidx].svid # 0
         /\ mc'[mc2s'[k].svidx].svid # mc[mc2s[n].svidx].svid
    <2>1. PICK n \in Mc2sIdx, k \in Mc2sIdx :
             /\ Lowest(n, Mc2sWith(a)) /\ Lowest(k, Mc2sWith(a)')
             /\ mc[mc2s[n].svidx].svid # 0 /\ mc'[mc2s'[k].svidx].svid # 0
        BY DEF Switches, Mc2sOf
    <2>2. /\ \A j : Lowest(j, Mc2sWith(a)) => j = n
          /\ \A j : Lowest(j, Mc2sWith(a)') => j = k
        BY <1>0, <2>1, LowestUnique DEF Mc2sWith
    <2>3. /\ Mc2sOf(a) = {mc[mc2s[n].svidx].svid}
          /\ Mc2sOf(a)' = {mc'[mc2s'[k].svidx].svid}
        BY <2>1, <2>2 DEF Mc2sOf
    <2> QED
        BY <2>1, <2>3 DEF Switches
<1>2. /\ mc2s[n].valid /\ mc2s[n].addr = a
      /\ mc2s'[k].valid /\ mc2s'[k].addr = a
    BY <1>1 DEF Lowest, Mc2sWith
<1>3. mc2s[n].svidx \in Slots
    BY DEF TypeOK, Mc2sReg
<1>4. mc2s'[k].svidx # mc2s[n].svidx
    BY <1>1, <1>3, SlotKept
<1>5. ~(mc2s[k].valid /\ mc2s[k].addr = a /\ mc2s[k].svidx = mc2s'[k].svidx)
    BY <1>2, <1>4 DEF Mc2sCopiesAgree
<1>6. mc2s' # mc2s
    BY <1>2, <1>5
<1>7. Mc2sCall
    <2>1. ~Mc2sCall /\ ~SvlanInit => UNCHANGED mc2s
        BY DEF Next, SlotCall, MemberPortEntrySet, MemberPortEntryAdvSet,
               FrameCall, DefaultSvlanSet, ActionSet, C2sCall, C2sAdd, C2sDel,
               Sp2cCall, Sp2cAdd, Sp2cDel, Refuse, tables
    <2>2. ~SvlanInit
        BY <1>2 DEF SvlanInit, EmptyMc2s
    <2> QED
        BY <1>6, <2>1, <2>2
<1>8. ASSUME NEW b \in Addrs, Mc2sDel(b) PROVE FALSE
    <2>1. PICK m \in Mc2sIdx : mc2s' = [mc2s EXCEPT ![m] = EmptyMc2s]
        BY <1>6, <1>8 DEF Mc2sDel, Refuse, tables
    <2>2. mc2s'[k] = IF k = m THEN EmptyMc2s ELSE mc2s[k]
        BY <2>1 DEF TypeOK
    <2> QED
        BY <1>2, <1>5, <2>2 DEF EmptyMc2s
<1>9. ASSUME NEW b \in Addrs, b # a, NEW s \in CallSvids, Mc2sAdd(b, s) PROVE FALSE
    <2>1. PICK i \in Slots : Mc2sEnter(b, i)
        BY <1>6, <1>9 DEF Mc2sAdd, Refuse, tables
    <2>2. \A j \in Mc2sIdx : mc2s[j].addr # b => Mc2sPointed(b, i)[j] = mc2s[j]
        BY DEF Mc2sPointed, Mc2sWith
    <2>3. \A j \in Mc2sIdx : Mc2sPointed(b, i)[j].addr = mc2s[j].addr
        BY DEF Mc2sPointed, TypeOK, Mc2sReg
    <2>4. mc2s'[k] = Mc2sPointed(b, i)[k] \/ mc2s'[k].addr = b
        <3>1. CASE mc2s' = Mc2sPointed(b, i)
            BY <3>1
        <3>2. ASSUME NEW m \in Mc2sIdx,
                     mc2s' = [Mc2sPointed(b, i) EXCEPT
                                ![m] = [valid |-> TRUE, addr |-> b, svidx |-> i]]
              PROVE  mc2s'[k] = Mc2sPointed(b, i)[k] \/ mc2s'[k].addr = b
            BY <3>2 DEF Mc2sPointed
        <3> QED
            BY <2>1, <3>1, <3>2 DEF Mc2sEnter
    <2> QED
        BY <1>2, <1>5, <1>9, <2>2, <2>3, <2>4
<1> QED
    BY <1>7, <1>8, <1>9 DEF Mc2sCall

\* An entry serves port p in customer VLAN v after a call as it did before.
ServesAlike(v, p) ==
    \A j \in C2sIdx :
        /\ j \in C2sWith(v, p)' <=> j \in C2sWith(v, p)
        /\ j \in C2sWith(v, p) => c2s'[j].svidx = c2s[j].svidx

\* An add for one customer VLAN leaves the entries of the others alone: those
\* it moves or joins are of that VLAN, and the one it fills was empty.
LEMMA C2sAddAlike ==
    ASSUME TypeOK, NEW w \in CallCvids, NEW q \in Ports, NEW s, C2sAdd(w, q, s),
           NEW v, v # w, NEW p \in Ports
    PROVE  ServesAlike(v, p)
<1>1. CASE UNCHANGED c2s
    BY <1>1 DEF ServesAlike, C2sWith
<1>2. ASSUME w <= VIDMAX, NEW i \in Slots, C2sEnter(w, q, i) PROVE ServesAlike(v, p)
    <2>0. w \in Vids
        BY <1>2, SvlanAssumption DEF Vids
    <2>1. ASSUME NEW passed
          PROVE  \A j \in C2sIdx :
                    \/ C2sMoved(w, q, i, passed)[j] = c2s[j]
                    \/ c2s[j].evid = w /\ C2sMoved(w, q, i, passed)[j].evid = w
        BY DEF C2sMoved, Moves
    <2>2. ASSUME NEW moved, moved \in [C2sIdx -> C2sReg],
                 \A j \in C2sIdx :
                    moved[j] = c2s[j] \/ (c2s[j].evid = w /\ moved[j].evid = w),
                 NEW n \in C2sIdx, NEW e, e.evid = w, c2s[n].evid = w \/ c2s[n] = EmptyC2s,
                 c2s' = [moved EXCEPT ![n] = e] \/ c2s' = moved
          PROVE  ServesAlike(v, p)
        <3>1. \A j \in C2sIdx :
                 \/ c2s'[j] = c2s[j]
                 \/ c2s'[j].evid = w /\ (c2s[j].evid = w \/ c2s[j] = EmptyC2s)
            BY <2>2
        <3>2. p \notin EmptyC2s.pmsk
            BY DEF EmptyC2s
        <3> QED
            BY <3>1, <3>2 DEF ServesAlike, C2sWith
    <2>3. ASSUME NEW n \in C2sIdx, Highest(n, Joins(w, q, i)), NEW passed,
                 c2s' = [C2sMoved(w, q, i, passed) EXCEPT ![n].pmsk = @ \cup {q}]
          PROVE  ServesAlike(v, p)
        <3> DEFINE moved == C2sMoved(w, q, i, passed)
        <3>1. c2s[n].evid = w
            BY <2>3 DEF Highest, Joins
        <3>2. moved[n] = c2s[n] \/ moved[n].evid = w
            BY <2>1
        <3>3. moved[n] \in [evid : {w}, pmsk : SUBSET Ports, svidx : Slots]
            BY <3>1, <3>2, <2>3 DEF C2sMoved, Moves, Highest, Joins, TypeOK, C2sReg
        <3> HIDE DEF moved
        <3>4. [moved[n] EXCEPT !.pmsk = @ \cup {q}].evid = w
            BY <3>3
        <3>5. c2s' = [moved EXCEPT ![n] = [moved[n] EXCEPT !.pmsk = @ \cup {q}]]
            BY <2>3 DEF moved
        <3>6. /\ moved \in [C2sIdx -> C2sReg]
              /\ \A j \in C2sIdx :
                    moved[j] = c2s[j] \/ (c2s[j].evid = w /\ moved[j].evid = w)
            BY <2>0, <2>1, C2sMovedType DEF moved
        <3> DEFINE e == [moved[n] EXCEPT !.pmsk = @ \cup {q}]
        <3>7. e.evid = w /\ c2s' = [moved EXCEPT ![n] = e]
            BY <3>4, <3>5
        <3> HIDE DEF e
        <3> QED
            BY <2>2, <3>1, <3>6, <3>7
    <2>4. ASSUME NEW n \in C2sIdx, Lowest(n, FreeC2s(w)),
                 c2s' = [C2sMoved(w, q, i, C2sIdx) EXCEPT
                           ![n] = [evid |-> w, pmsk |-> {q}, svidx |-> i]]
          PROVE  ServesAlike(v, p)
        <3> DEFINE moved == C2sMoved(w, q, i, C2sIdx)
                   e == [evid |-> w, pmsk |-> {q}, svidx |-> i]
        <3>1. e.evid = w /\ c2s[n] = EmptyC2s /\ c2s' = [moved EXCEPT ![n] = e]
            BY <2>4 DEF Lowest, FreeC2s
        <3>2. /\ moved \in [C2sIdx -> C2sReg]
              /\ \A j \in C2sIdx :
                    moved[j] = c2s[j] \/ (c2s[j].evid = w /\ moved[j].evid = w)
            BY <2>0, <2>1, C2sMovedType
        <3> HIDE DEF moved, e
        <3> QED
            BY <2>2, <3>1, <3>2
    <2>5. CASE c2s' = C2sMoved(w, q, i, C2sIdx)
        BY <2>1, <2>5 DEF ServesAlike, C2sWith
    <2> QED
        BY <1>2, <2>3, <2>4, <2>5 DEF C2sEnter
<1> QED
    BY <1>1, <1>2 DEF C2sAdd, Refuse, tables

\* A delete takes one port out of one entry, or clears the entry it was the
\* last port of.
LEMMA C2sDelAlike ==
    ASSUME TypeOK, NEW w, NEW q \in Ports, C2sDel(w, q),
           NEW v, NEW p \in Ports, v # w \/ p # q
    PROVE  ServesAlike(v, p)
<1>1. CASE UNCHANGED c2s
    BY <1>1 DEF ServesAlike, C2sWith
<1>2. ASSUME NEW n \in C2sIdx, c2s[n].evid = w, q \in c2s[n].pmsk,
             c2s' = [c2s EXCEPT ![n] = IF c2s[n].pmsk = {q} THEN EmptyC2s
                                       ELSE [c2s[n] EXCEPT !.pmsk = @ \ {q}]]
      PROVE  ServesAlike(v, p)
    <2>1. \A j \in C2sIdx : j # n => c2s'[j] = c2s[j]
        BY <1>2 DEF TypeOK
    <2>2. c2s[n] \in C2sReg
        BY DEF TypeOK
    <2>3. CASE c2s[n].pmsk = {q}
        <3>1. c2s'[n] = EmptyC2s
            BY <1>2, <2>3 DEF TypeOK
        <3> QED
            BY <1>2, <2>1, <2>3, <3>1 DEF ServesAlike, C2sWith, EmptyC2s
    <2>4. CASE c2s[n].pmsk # {q}
        <3>1. c2s'[n] = [c2s[n] EXCEPT !.pmsk = c2s[n].pmsk \ {q}]
            BY <1>2, <2>4 DEF TypeOK
        <3>2. /\ c2s'[n].evid = w /\ c2s'[n].svidx = c2s[n].svidx
              /\ c2s'[n].pmsk = c2s[n].pmsk \ {q}
            BY <1>2, <2>2, <3>1 DEF C2sReg
        <3> QED
            BY <1>2, <2>1, <3>2 DEF ServesAlike, C2sWith
    <2> QED
        BY <2>3, <2>4
<1> QED
    BY <1>1, <1>2 DEF C2sDel, Lowest, C2sWith, Refuse, tables

\* A port's traffic of a customer VLAN goes from one SVLAN to another only by
\* a C2S add for that VLAN or the delete for that VLAN and port.
LEMMA C2sStable ==
    ASSUME Disciplined, TypeOK, Next, NEW v \in CallCvids, NEW p \in Ports,
           Switches(C2sOf(v, p), C2sOf(v, p)')
    PROVE  \/ C2sDel(v, p)
           \/ \E q \in Ports, s \in CallSvids : C2sAdd(v, q, s)
<1>0. C2sIdx \in SUBSET Nat
    BY SvlanAssumption DEF C2sIdx
<1>1. PICK n \in C2sIdx, k \in C2sIdx :
         /\ Lowest(n, C2sWith(v, p)) /\ Lowest(k, C2sWith(v, p)')
         /\ mc[c2s[n].svidx].svid # 0 /\ mc'[c2s'[k].svidx].svid # 0
         /\ mc'[c2s'[k].svidx].svid # mc[c2s[n].svidx].svid
    <2>1. PICK n \in C2sIdx, k \in C2sIdx :
             /\ Lowest(n, C2sWith(v, p)) /\ Lowest(k, C2sWith(v, p)')
             /\ mc[c2s[n].svidx].svid # 0 /\ mc'[c2s'[k].svidx].svid # 0
        BY DEF Switches, C2sOf
    <2>2. /\ \A j : Lowest(j, C2sWith(v, p)) => j = n
          /\ \A j : Lowest(j, C2sWith(v, p)') => j = k
        BY <1>0, <2>1, LowestUnique DEF C2sWith
    <2>3. /\ C2sOf(v, p) = {mc[c2s[n].svidx].svid}
          /\ C2sOf(v, p)' = {mc'[c2s'[k].svidx].svid}
        BY <2>1, <2>2 DEF C2sOf
    <2> QED
        BY <2>1, <2>3 DEF Switches
<1>2. ~ServesAlike(v, p)
    <2> SUFFICES ASSUME ServesAlike(v, p) PROVE FALSE
        OBVIOUS
    <2>1. C2sWith(v, p)' = C2sWith(v, p)
        BY DEF ServesAlike, C2sWith
    <2>2. n = k
        BY <1>0, <1>1, <2>1, LowestUnique DEF C2sWith
    <2>3. c2s'[k].svidx = c2s[n].svidx
        BY <1>1, <2>2 DEF ServesAlike, Lowest
    <2>4. c2s[n].svidx \in Slots
        BY DEF TypeOK, C2sReg
    <2> QED
        BY <1>1, <2>3, <2>4, SlotKept
<1>3. C2sCall
    <2>1. ~C2sCall /\ ~SvlanInit => UNCHANGED c2s
        BY DEF Next, SlotCall, MemberPortEntrySet, MemberPortEntryAdvSet,
               FrameCall, DefaultSvlanSet, ActionSet, Mc2sCall, Mc2sAdd, Mc2sDel,
               Sp2cCall, Sp2cAdd, Sp2cDel, Refuse, tables
    <2>2. UNCHANGED c2s => ServesAlike(v, p)
        BY DEF ServesAlike, C2sWith
    <2>3. ~SvlanInit
        BY <1>1 DEF SvlanInit, Lowest, C2sWith, EmptyC2s
    <2> QED
        BY <1>2, <2>1, <2>2, <2>3
<1> QED
    BY <1>2, <1>3, C2sAddAlike, C2sDelAlike DEF C2sCall

\* RefsStable: unless callers relabel slots by index, no default SVLAN, no
\* customer VLAN of a port and no multicast address goes from one SVLAN
\* straight to another except by a call on it.
THEOREM ReferencesStable ==
    ASSUME Disciplined
    PROVE  Spec => RefsStable
<1> DEFINE IInv == TypeOK /\ Mc2sCopiesAgree
           Stable ==
               /\ \A p \in Ports :
                     Switches({DefaultSvlan(p)}, {DefaultSvlan(p)'}) =>
                         \E s \in CallSvids : DefaultSvlanSet(p, s)
               /\ \A a \in Addrs :
                     Switches(Mc2sOf(a), Mc2sOf(a)') => \E s \in CallSvids : Mc2sAdd(a, s)
               /\ \A v \in CallCvids, p \in Ports :
                     Switches(C2sOf(v, p), C2sOf(v, p)') =>
                         \/ C2sDel(v, p)
                         \/ \E q \in Ports, s \in CallSvids : C2sAdd(v, q, s)
<1>1. IInv /\ [Next]_vars => [Stable]_vars
    BY DefaultStable, Mc2sStable, C2sStable
<1>2. Spec => []IInv
    BY TypeCorrect, Mc2sSafe, PTL
<1> QED
    BY <1>1, <1>2, PTL DEF Spec, RefsStable

-----------------------------------------------------------------------------
\* Sp2cHonoured: rtk_svlan_sp2c_get, scanning from the other end than the add,
\* returns what an accepted rtk_svlan_sp2c_add gave, and nothing after a delete.
THEOREM Sp2cReadBack == Spec => Sp2cHonoured
<1> DEFINE Honoured ==
        \A s \in CallSvids, p \in Ports :
            ret' = "ok" =>
               /\ \A v \in CallCvids : Sp2cAdd(s, p, v) => Sp2cOf(s, p)' = {v}
               /\ Sp2cDel(s, p) => Sp2cOf(s, p)' = {}
<1>1. ASSUME TypeOK, Sp2cUnique, Sp2cUnique', NEW s \in CallSvids, NEW p \in Ports,
             ret' = "ok"
      PROVE  /\ \A v \in CallCvids : Sp2cAdd(s, p, v) => Sp2cOf(s, p)' = {v}
             /\ Sp2cDel(s, p) => Sp2cOf(s, p)' = {}
    <2>1. Slots \in SUBSET Nat
        BY SvlanAssumption DEF Slots
    <2>2. ASSUME NEW v \in CallCvids, Sp2cAdd(s, p, v) PROVE Sp2cOf(s, p)' = {v}
        <3>1. PICK i \in Slots, n \in Sp2cIdx :
                 /\ SlotOf(i, s) /\ UNCHANGED mc
                 /\ sp2c' = [sp2c EXCEPT ![n] =
                               [valid |-> TRUE, svidx |-> i, dst |-> p, vid |-> v]]
            BY <1>1, <2>2 DEF Sp2cAdd, Refuse, Return
        <3>2. sp2c'[n] = [valid |-> TRUE, svidx |-> i, dst |-> p, vid |-> v]
            BY <1>1, <3>1 DEF TypeOK
        <3>3. \A j \in Slots : SlotOf(j, s)' <=> j = i
            BY <2>1, <3>1, LowestUnique DEF SlotOf, SlotsWith
        <3>4. Sp2cWith(i, p)' = {n}
            BY <1>1, <3>2 DEF Sp2cWith, Sp2cUnique
        <3>5. \A k \in Sp2cIdx : Lowest(k, Sp2cWith(i, p)') <=> k = n
            BY <3>4, SvlanAssumption DEF Lowest, Sp2cIdx
        <3>6. Sp2cOf(s, p)' = {sp2c'[n].vid}
            BY <3>3, <3>5 DEF Sp2cOf
        <3> QED
            BY <3>2, <3>6
    <2>3. ASSUME Sp2cDel(s, p) PROVE Sp2cOf(s, p)' = {}
        <3>1. PICK i \in Slots, n \in Sp2cIdx :
                 /\ SlotOf(i, s) /\ UNCHANGED mc
                 /\ n \in Sp2cWith(i, p)
                 /\ sp2c' = [sp2c EXCEPT ![n] = EmptySp2c]
            BY <1>1, <2>3 DEF Sp2cDel, Refuse, Return, Lowest
        <3>2. \A k \in Sp2cIdx : sp2c'[k] = IF k = n THEN EmptySp2c ELSE sp2c[k]
            BY <1>1, <3>1 DEF TypeOK
        <3>3. \A j \in Slots : SlotOf(j, s)' => j = i
            BY <2>1, <3>1, LowestUnique DEF SlotOf, SlotsWith
        <3>4. Sp2cWith(i, p)' = {}
            BY <1>1, <3>1, <3>2 DEF Sp2cWith, Sp2cUnique, EmptySp2c
        <3> QED
            BY <3>3, <3>4 DEF Sp2cOf, Lowest
    <2> QED
        BY <2>2, <2>3
<1>2. TypeOK /\ Sp2cUnique /\ Sp2cUnique' /\ [Next]_vars => [Honoured]_vars
    BY <1>1
<1>3. Spec => [](TypeOK /\ Sp2cUnique)
    BY TypeCorrect, Sp2cSafe, PTL
<1> QED
    BY <1>2, <1>3, PTL DEF Spec, Sp2cHonoured
=============================================================================

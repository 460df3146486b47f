------------------------------- MODULE WalProofs ------------------------------
(***************************************************************************)
(* For any number of processes, pages, read locks and frames: the state of *)
(* the log and of its index is well formed, shared and exclusive holders   *)
(* of a read lock exclude each other, and no writer loses an update; every *)
(* reader has the snapshot its header stands for, and what is committed    *)
(* can be recovered whatever dies when.                                    *)
(***************************************************************************)
EXTENDS Wal, WellFoundedInduction, TLAPS

(* Well-formed state. *)

PageNo  == Page \cup {0}
LinkT   == PageNo \X (0..MaxTxn) \X BOOLEAN
FrameT  == [pg : PageNo, v : 0..MaxTxn, commit : BOOLEAN, salt : 0..MaxTxn, sum : Seq(LinkT)]
LogT    == [salt : 0..MaxTxn, frame : [Frame -> FrameT]]
HeaderT == [mx : 0..MaxFrame, change : Nat, salt : 0..MaxTxn, sum : Seq(LinkT),
            txn : 0..MaxTxn, init : BOOLEAN]
IndexT  == [a : HeaderT, b : HeaderT, pgno : [Frame -> PageNo], nBackfill : 0..MaxFrame,
            mark : [Slot -> 0..NotUsed]]

Writing == {"WRITER", "WRITER_HDR", "WRITER_MARK", "RESTART_A", "RESTART", "COMMIT", "COMMIT_A"}
Reading == {"HDR", "MARK", "READER"}
Copying == {"CKPT", "CKPT_HDR", "CKPT_MARKS", "BACKFILL", "CKPT_DONE"}
Places  == Writing \cup Reading \cup Copying \cup {"OPEN", "DEAD"}

CkptT   == [safe : 0..MaxFrame, i : Nat, todo : SUBSET Frame, from : 0..MaxFrame]
Holder  == Proc \cup {Nobody}

DiskOK ==
  /\ db \in [Page -> 0..MaxTxn] /\ dbLoss \in [Page -> SUBSET (0..MaxTxn)]
  /\ log \in LogT /\ logDisk \in LogT
HistOK ==
  /\ txn \in 0..MaxTxn /\ com \in 0..MaxTxn /\ base \in 0..MaxTxn
  /\ wrote \in SUBSET Page /\ state \in [0..MaxTxn -> [Page -> 0..MaxTxn]]
  /\ overrun \in BOOLEAN
ProcOK ==
  /\ st \in [Proc -> Places]
  /\ hdr \in [Proc -> HeaderT]
  /\ pick \in [Proc -> (0..(NReader - 1)) \X (0..NotUsed)]
  /\ ck \in CkptT
LockOK ==
  /\ rlock \in [Proc -> -1..(NReader - 1)]
  /\ wlock \in Holder /\ ckpt \in Holder
  /\ xlock \in [0..(NReader - 1) -> Holder]
  /\ \A p \in Proc : rlock[p] # -1 => xlock[rlock[p]] = Nobody

WalTypeInv == DiskOK /\ idx \in IndexT /\ HistOK /\ ProcOK /\ LockOK

(* What a writer adds to. *)
WriterInv ==
  /\ \A p \in Proc : st[p] \in Writing => wlock = p /\ idx.a.init
  /\ \A p \in Proc : st[p] \in Writing \cup Reading => hdr[p].init
  /\ \A p \in Proc : st[p] \in Writing =>
       hdr[p].txn = IF st[p] \in {"COMMIT", "COMMIT_A"} THEN txn ELSE com
  /\ idx.a.init => idx.a.txn = com

-------------------------------------------------------------------------------
(* Largest and smallest elements, for the best mark, the first free read lock *)
(* and the last frame of a page.                                              *)

LEMMA NatMin ==
  ASSUME NEW T \in SUBSET Nat, T # {}
  PROVE  \E x \in T : \A y \in T : x <= y
<1> DEFINE R == {ss \in Nat \X Nat : ss[1] < ss[2]}
<1>1. IsWellFoundedOn(R, Nat)
  BY NatLessThanWellFounded DEF OpToRel
<1>2. \A x, y \in Nat : y < x => <<y, x>> \in R
  OBVIOUS
<1> HIDE DEF R
<1>3. PICK x \in T : \A y \in T : ~(<<y, x>> \in R)
  BY <1>1, WFMin
<1>4. \A y \in T : x \in Nat /\ y \in Nat /\ ~(y < x)
  BY <1>2, <1>3
<1>5. \A y \in T : x <= y
  BY <1>4
<1> QED BY <1>5

LEMMA MinIn ==
  ASSUME NEW T \in SUBSET Nat, T # {}
  PROVE  Min(T) \in T /\ \A y \in T : Min(T) <= y
  BY NatMin DEF Min

LEMMA MaxIn ==
  ASSUME NEW n \in Nat, NEW T \in SUBSET (0..n), T # {}
  PROVE  Max(T) \in T /\ \A y \in T : Max(T) >= y
<1> DEFINE U == {n - x : x \in T}
<1>1. \A x \in T : x \in 0..n
  OBVIOUS
<1>2. U \in SUBSET Nat /\ U # {}
  BY <1>1
<1>3. PICK u \in U : \A y \in U : u <= y
  BY <1>2, NatMin
<1>4. PICK x \in T : u = n - x
  BY <1>3
<1>5. ASSUME NEW y \in T PROVE x >= y
  <2>1. n - y \in U
    OBVIOUS
  <2>2. n - x <= n - y
    BY <1>3, <1>4, <2>1
  <2> QED BY <1>1, <2>2
<1> QED BY <1>5 DEF Max

(* The last frame of a page up to mx. *)
LEMMA FindFrameIn ==
  ASSUME NEW g, NEW pg, NEW mx
  PROVE  /\ FindFrame(g, pg, mx) \in 0..MaxFrame
         /\ FindFrame(g, pg, mx) # 0 =>
              /\ FindFrame(g, pg, mx) \in Frame /\ FindFrame(g, pg, mx) <= mx
              /\ g[FindFrame(g, pg, mx)] = pg
         /\ \A f \in Frame : f <= mx /\ g[f] = pg => f <= FindFrame(g, pg, mx)
<1> DEFINE T == {0} \cup {f \in Frame : f <= mx /\ g[f] = pg}
<1>1. T \in SUBSET (0..MaxFrame) /\ T # {} /\ MaxFrame \in Nat
  BY WalAssumption DEF Frame
<1>2. Max(T) \in T /\ \A y \in T : Max(T) >= y
  BY <1>1, MaxIn
<1>3. FindFrame(g, pg, mx) = Max(T)
  BY DEF FindFrame
<1> HIDE DEF T
<1>4. \A y \in T : y \in 0..MaxFrame
  BY <1>1
<1>5. \A f \in Frame : f <= mx /\ g[f] = pg => f \in T
  BY DEF T
<1>6. \A f \in T : f # 0 => f \in Frame /\ f <= mx /\ g[f] = pg
  BY DEF T
<1>7. \A y \in T : y <= Max(T)
  BY <1>1, <1>2, <1>4
<1> QED BY <1>2, <1>3, <1>4, <1>5, <1>6, <1>7

(* The last commit record that recovery trusts. *)
LEMMA LastCommitIn ==
  ASSUME NEW l
  PROVE  /\ LastCommit(l) \in 0..MaxFrame
         /\ LastCommit(l) # 0 =>
              /\ LastCommit(l) \in Frame /\ Valid(l, LastCommit(l))
              /\ l.frame[LastCommit(l)].commit
         /\ \A f \in Frame : Valid(l, f) /\ l.frame[f].commit => f <= LastCommit(l)
<1> DEFINE T == {0} \cup {f \in Frame : Valid(l, f) /\ l.frame[f].commit}
<1>1. T \in SUBSET (0..MaxFrame) /\ T # {} /\ MaxFrame \in Nat
  BY WalAssumption DEF Frame
<1>2. Max(T) \in T /\ \A y \in T : Max(T) >= y
  BY <1>1, MaxIn
<1>3. LastCommit(l) = Max(T)
  BY DEF LastCommit
<1>4. \A f \in Frame : Valid(l, f) /\ l.frame[f].commit => f \in T
  OBVIOUS
<1>5. \A f \in T : f # 0 => f \in Frame /\ Valid(l, f) /\ l.frame[f].commit
  OBVIOUS
<1> HIDE DEF T
<1>6. \A y \in T : y \in 0..MaxFrame
  BY <1>1
<1>7. \A y \in T : y <= Max(T)
  BY <1>1, <1>2, <1>6
<1> QED BY <1>2, <1>3, <1>4, <1>5, <1>6, <1>7

LEMMA RecoveredTxnType ==
  ASSUME NEW l \in LogT, base \in 0..MaxTxn
  PROVE  RecoveredTxn(l) \in 0..MaxTxn
<1>1. LastCommit(l) # 0 => LastCommit(l) \in Frame
  BY LastCommitIn
<1> QED BY <1>1 DEF RecoveredTxn, LogT, FrameT

LEMMA BackfilledType ==
  ASSUME NEW d \in [Page -> 0..MaxTxn], NEW l \in LogT, NEW g, NEW from \in Nat, NEW mx
  PROVE  Backfilled(d, l, g, from, mx) \in [Page -> 0..MaxTxn]
<1> SUFFICES ASSUME NEW pg \in Page, ~(FindFrame(g, pg, mx) <= from)
             PROVE  l.frame[FindFrame(g, pg, mx)].v \in 0..MaxTxn
  BY DEF Backfilled
<1>1. FindFrame(g, pg, mx) \in 0..MaxFrame /\ (FindFrame(g, pg, mx) # 0 => FindFrame(g, pg, mx) \in Frame)
  BY FindFrameIn
<1>2. FindFrame(g, pg, mx) # 0
  BY <1>1
<1> QED BY <1>1, <1>2 DEF LogT, FrameT

-------------------------------------------------------------------------------
(* Every step leaves the state well formed. *)

LEMMA GotoOK ==
  ASSUME ProcOK, NEW p \in Proc, NEW s \in Places, Goto(p, s)
  PROVE  /\ st' \in [Proc -> Places] /\ st'[p] = s
         /\ \A q \in Proc : q # p => st'[q] = st[q]
  BY DEF Goto, ProcOK

LEMMA KeepDisk == DiskOK /\ UNCHANGED disk => DiskOK'
  BY DEF DiskOK, disk

LEMMA KeepHist == HistOK /\ UNCHANGED hist => HistOK'
  BY DEF HistOK, hist

LEMMA KeepLocks == LockOK /\ UNCHANGED locks => LockOK'
  BY DEF LockOK, locks

LEMMA PlacesIn ==
  /\ "OPEN" \in Places /\ "DEAD" \in Places /\ "HDR" \in Places /\ "MARK" \in Places
  /\ "READER" \in Places /\ "WRITER" \in Places /\ "WRITER_HDR" \in Places
  /\ "WRITER_MARK" \in Places /\ "RESTART_A" \in Places /\ "RESTART" \in Places
  /\ "COMMIT" \in Places /\ "COMMIT_A" \in Places /\ "CKPT" \in Places
  /\ "CKPT_HDR" \in Places /\ "CKPT_MARKS" \in Places /\ "BACKFILL" \in Places
  /\ "CKPT_DONE" \in Places
  BY DEF Places, Writing, Reading, Copying

(* The values every variable starts from, and goes back to. *)
LEMMA FreshOK ==
  /\ NoHdr \in HeaderT /\ NoIdx \in IndexT /\ NoLog \in LogT /\ CkptOver \in CkptT
  /\ Nobody \in Holder /\ <<0, 0>> \in (0..(NReader - 1)) \X (0..NotUsed)
<1>1. << >> \in Seq(LinkT)
  OBVIOUS
<1>2. NoHdr \in HeaderT
  BY <1>1, WalAssumption DEF NoHdr, HeaderT
<1>3. NotUsed \in 0..NotUsed /\ 0 \in 0..MaxFrame /\ 0 \in 0..MaxTxn /\ 0 \in 0..NotUsed
      /\ 0 \in 0..(NReader - 1) /\ 0 \in PageNo
  BY WalAssumption DEF NotUsed, PageNo
<1>4. NoIdx \in IndexT
  BY <1>2, <1>3 DEF NoIdx, IndexT
<1>5. NoFrame \in FrameT
  BY <1>1, <1>3 DEF NoFrame, FrameT
<1>6. NoLog \in LogT
  BY <1>3, <1>5 DEF NoLog, LogT
<1>7. CkptOver \in CkptT
  BY <1>3 DEF CkptOver, CkptT
<1> QED BY <1>2, <1>3, <1>4, <1>6, <1>7 DEF Holder

(* The fields of a header. *)
LEMMA HeaderFields ==
  ASSUME NEW h \in HeaderT
  PROVE  /\ h.mx \in 0..MaxFrame /\ h.change \in Nat /\ h.salt \in 0..MaxTxn
         /\ h.sum \in Seq(LinkT) /\ h.txn \in 0..MaxTxn /\ h.init \in BOOLEAN
         /\ h = [mx |-> h.mx, change |-> h.change, salt |-> h.salt, sum |-> h.sum,
                 txn |-> h.txn, init |-> h.init]
  BY DEF HeaderT

LEMMA TypeReadHdr ==
  ASSUME WalTypeInv, NEW p \in Proc, ReadHdr(p) \/ CkptHdr(p) PROVE WalTypeInv'
<1> USE DEF WalTypeInv
<1>1. hdr' = [hdr EXCEPT ![p] = idx.a] /\ idx.a \in HeaderT
  BY DEF ReadHdr, CkptHdr, IndexT
<1>2. UNCHANGED <<disk, idx, pick, locks, ck, hist>>
  BY DEF ReadHdr, CkptHdr
<1>3. st' \in [Proc -> Places]
  BY GotoOK, PlacesIn DEF ReadHdr, CkptHdr
<1>4. ProcOK'
  BY <1>1, <1>2, <1>3 DEF ProcOK
<1> QED BY <1>2, <1>4, KeepDisk, KeepHist, KeepLocks

LEMMA TypeRecover ==
  ASSUME WalTypeInv, NEW p \in Proc, Recover(p) PROVE WalTypeInv'
<1> USE DEF WalTypeInv
<1> DEFINE mx == LastCommit(log)
           sm == [i \in 1..mx |-> Link(log.frame[i])]
           h  == [mx |-> mx, change |-> 0, salt |-> log.salt, sum |-> sm,
                  txn |-> RecoveredTxn(log), init |-> TRUE]
           g  == [f \in Frame |-> IF Valid(log, f) THEN log.frame[f].pg ELSE 0]
           m  == [i \in Slot |-> IF i = 1 /\ mx > 0 THEN mx ELSE NotUsed]
<1>1. log \in LogT /\ log.salt \in 0..MaxTxn /\ log.frame \in [Frame -> FrameT]
  BY DEF DiskOK, LogT
<1>2. mx \in 0..MaxFrame
  BY LastCommitIn
<1>3. RecoveredTxn(log) \in 0..MaxTxn
  BY <1>1, RecoveredTxnType DEF HistOK
<1>4. \A f \in Frame : Link(log.frame[f]) \in LinkT /\ log.frame[f].pg \in PageNo
  BY <1>1 DEF FrameT, Link, LinkT
<1>5. sm \in Seq(LinkT)
  <2>1. \A i \in 1..mx : i \in Frame
    BY <1>2, WalAssumption DEF Frame
  <2>2. sm \in [1..mx -> LinkT] /\ mx \in Nat
    BY <1>2, <1>4, <2>1
  <2> QED BY <2>2
<1>6. g \in [Frame -> PageNo]
  BY <1>4 DEF PageNo
<1>7. m \in [Slot -> 0..NotUsed]
  BY <1>2, WalAssumption DEF NotUsed
<1>8. idx' = [a |-> h, b |-> h, nBackfill |-> 0, pgno |-> g, mark |-> m]
  BY DEF Recover
<1>9. com' = RecoveredTxn(log)
      /\ UNCHANGED <<disk, st, hdr, pick, locks, ck, txn, wrote, state, base, overrun>>
  BY DEF Recover
<1> HIDE DEF mx, sm, g, m
<1>10. h \in HeaderT
  BY <1>1, <1>2, <1>3, <1>5 DEF HeaderT
<1> HIDE DEF h
<1>11. idx' \in IndexT
  BY <1>6, <1>7, <1>8, <1>10, WalAssumption DEF IndexT
<1>12. HistOK'
  BY <1>3, <1>9 DEF HistOK
<1>13. ProcOK'
  BY <1>9 DEF ProcOK
<1> QED BY <1>9, <1>11, <1>12, <1>13, KeepDisk, KeepLocks

LEMMA TypeBeginRead0 ==
  ASSUME WalTypeInv, NEW p \in Proc, BeginRead0(p) PROVE WalTypeInv'
<1> USE DEF WalTypeInv
<1>1. UNCHANGED <<disk, idx, hdr, pick, wlock, ckpt, xlock, ck, hist>> /\ xlock[0] = Nobody
  BY DEF BeginRead0
<1>2. rlock' = [rlock EXCEPT ![p] = 0] \/ rlock' = rlock
  BY DEF BeginRead0
<1>3. st' \in [Proc -> Places]
  BY GotoOK, PlacesIn DEF BeginRead0
<1>4. ProcOK'
  BY <1>1, <1>3 DEF ProcOK
<1>5. LockOK'
  BY <1>1, <1>2, WalAssumption DEF LockOK
<1> QED BY <1>1, <1>4, <1>5, KeepDisk, KeepHist

LEMMA TypeChooseMark ==
  ASSUME WalTypeInv, NEW p \in Proc, ChooseMark(p) PROVE WalTypeInv'
<1> USE DEF WalTypeInv
<1> DEFINE mx   == hdr[p].mx
           best == Best(mx)
           free == {i \in Slot : FreeX(i)}
<1>1. UNCHANGED <<disk, hdr, locks, ck, hist>>
  BY DEF ChooseMark
<1>2. st' \in [Proc -> Places]
  BY GotoOK, PlacesIn DEF ChooseMark
<1>3. mx \in 0..NotUsed /\ idx.mark \in [Slot -> 0..NotUsed]
  <2>1. mx \in 0..MaxFrame
    BY HeaderFields DEF ProcOK
  <2> QED BY <2>1, WalAssumption DEF NotUsed, IndexT
<1>4. Slot \subseteq 0..(NReader - 1) /\ Slot \subseteq Nat /\ NReader - 1 \in Nat
  BY WalAssumption DEF Slot
<1>5. free # {} => Min(free) \in Slot
  <2>1. free \in SUBSET Nat
    BY <1>4
  <2> QED BY <2>1, MinIn
<1>6. best # {} => Max(best) \in Slot
  <2>1. best \in SUBSET Slot
    BY DEF Best
  <2>2. best \in SUBSET (0..(NReader - 1))
    BY <1>4, <2>1
  <2> HIDE DEF best
  <2> QED BY <1>4, <2>1, <2>2, MaxIn
<1>7. \/ /\ free # {}
         /\ idx' = [idx EXCEPT !.mark[Min(free)] = mx]
         /\ pick' = [pick EXCEPT ![p] = <<Min(free), mx>>]
      \/ /\ best # {} /\ idx' = idx
         /\ pick' = [pick EXCEPT ![p] = <<Max(best), idx.mark[Max(best)]>>]
      \/ idx' = idx /\ pick' = pick
  BY DEF ChooseMark
<1> HIDE DEF mx, best, free
<1>8. idx' \in IndexT
  BY <1>3, <1>5, <1>7 DEF IndexT
<1>9. pick' \in [Proc -> (0..(NReader - 1)) \X (0..NotUsed)]
  BY <1>3, <1>4, <1>5, <1>6, <1>7 DEF ProcOK
<1>10. ProcOK'
  BY <1>1, <1>2, <1>9 DEF ProcOK
<1> QED BY <1>1, <1>8, <1>10, KeepDisk, KeepHist, KeepLocks

LEMMA TypeLockMark ==
  ASSUME WalTypeInv, NEW p \in Proc, LockMark(p) PROVE WalTypeInv'
<1> USE DEF WalTypeInv
<1>1. UNCHANGED <<disk, idx, hdr, wlock, ckpt, xlock, ck, hist>>
      /\ pick' = [pick EXCEPT ![p] = <<0, 0>>]
  BY DEF LockMark
<1>2. st' \in [Proc -> Places]
  BY GotoOK, PlacesIn DEF LockMark
<1>3. pick[p][1] \in 0..(NReader - 1)
  BY DEF ProcOK
<1>4. (rlock' = [rlock EXCEPT ![p] = pick[p][1]] /\ xlock[pick[p][1]] = Nobody) \/ rlock' = rlock
  BY DEF LockMark
<1>5. ProcOK'
  BY <1>1, <1>2, FreshOK DEF ProcOK
<1>6. LockOK'
  <2>1. wlock' \in Holder /\ ckpt' \in Holder /\ xlock' \in [0..(NReader - 1) -> Holder]
    BY <1>1 DEF LockOK
  <2>2. rlock \in [Proc -> -1..(NReader - 1)] /\ pick[p][1] \in -1..(NReader - 1)
    BY <1>3, WalAssumption DEF LockOK
  <2>3. rlock' \in [Proc -> -1..(NReader - 1)]
    BY <1>4, <2>2
  <2>4. ASSUME NEW q \in Proc, rlock'[q] # -1 PROVE xlock'[rlock'[q]] = Nobody
    <3>1. rlock'[q] = rlock[q] \/ (rlock'[q] = pick[p][1] /\ xlock[pick[p][1]] = Nobody)
      BY <1>4, <2>2
    <3> QED BY <1>1, <2>4, <3>1 DEF LockOK
  <2> QED BY <2>1, <2>3, <2>4 DEF LockOK
<1> QED BY <1>1, <1>5, <1>6, KeepDisk, KeepHist

LEMMA TypeEndRead ==
  ASSUME WalTypeInv, NEW p \in Proc, EndRead(p) PROVE WalTypeInv'
<1> USE DEF WalTypeInv
<1>1. UNCHANGED <<disk, idx, hdr, pick, wlock, ckpt, xlock, ck, hist>>
      /\ rlock' = [rlock EXCEPT ![p] = -1]
  BY DEF EndRead
<1>2. st' \in [Proc -> Places]
  BY GotoOK, PlacesIn DEF EndRead
<1>3. ProcOK'
  BY <1>1, <1>2 DEF ProcOK
<1>4. LockOK'
  BY <1>1, WalAssumption DEF LockOK
<1> QED BY <1>1, <1>3, <1>4, KeepDisk, KeepHist

LEMMA TypeBeginWrite ==
  ASSUME WalTypeInv, NEW p \in Proc, BeginWrite(p) PROVE WalTypeInv'
<1> USE DEF WalTypeInv
<1>1. /\ UNCHANGED <<disk, idx, hdr, pick, rlock, ckpt, xlock, ck, com, state, base, overrun>>
      /\ wlock' = p /\ txn < MaxTxn /\ txn' = txn + 1 /\ wrote' = {}
  BY DEF BeginWrite
<1>2. st' \in [Proc -> Places]
  BY GotoOK, PlacesIn DEF BeginWrite
<1>3. ProcOK'
  BY <1>1, <1>2 DEF ProcOK
<1>4. LockOK'
  BY <1>1 DEF LockOK, Holder
<1>5. HistOK'
  BY <1>1, WalAssumption DEF HistOK
<1> QED BY <1>1, <1>3, <1>4, <1>5, KeepDisk

LEMMA TypeRestart ==
  ASSUME WalTypeInv, NEW p \in Proc, RestartLog(p) \/ RestartHdr(p) \/ RestartReset(p)
  PROVE  WalTypeInv'
<1> USE DEF WalTypeInv
<1>1. st' \in [Proc -> Places]
  BY GotoOK, PlacesIn DEF RestartLog, RestartHdr, RestartReset
<1>2. hdr[p] \in HeaderT /\ idx.a \in HeaderT /\ p \in Holder /\ Nobody \in Holder
  BY DEF ProcOK, IndexT, Holder
<1>3. CASE RestartLog(p)
  <2> DEFINE h == [hdr[p] EXCEPT !.mx = 0, !.salt = txn]
  <2>1. h \in HeaderT /\ h.txn \in 0..MaxTxn
    <3>1. 0 \in 0..MaxFrame /\ txn \in 0..MaxTxn
      BY WalAssumption DEF HistOK
    <3>2. hdr[p].txn \in 0..MaxTxn
      BY <1>2, HeaderFields
    <3> DEFINE L == Seq(LinkT)
               R == [mx : 0..MaxFrame, change : Nat, salt : 0..MaxTxn, sum : L,
                     txn : 0..MaxTxn, init : BOOLEAN]
    <3> HIDE DEF L
    <3>3. hdr[p] \in R
      BY <1>2 DEF HeaderT, L
    <3>4. h \in R /\ h.txn = hdr[p].txn
      BY <3>1, <3>3
    <3> QED BY <3>2, <3>4 DEF HeaderT, L
  <2>2. UNCHANGED <<disk, pick, wlock, ckpt, ck, txn, wrote, com, state, overrun>>
    BY <1>3 DEF RestartLog
  <2>3. CASE /\ \A i \in Slot : FreeX(i)
             /\ hdr' = [hdr EXCEPT ![p] = h] /\ idx' = [idx EXCEPT !.b = h]
             /\ xlock' = [i \in DOMAIN xlock |-> IF i \in Slot THEN p ELSE xlock[i]]
             /\ base' = h.txn /\ rlock' = rlock
    <3> HIDE DEF h
    <3>1. idx' \in IndexT
      BY <2>1, <2>3 DEF IndexT
    <3>2. ProcOK'
      BY <1>1, <2>1, <2>2, <2>3 DEF ProcOK
    <3>3. HistOK'
      BY <2>1, <2>2, <2>3 DEF HistOK
    <3>4. xlock' \in [0..(NReader - 1) -> Holder]
      BY <1>2, <2>3 DEF LockOK
    <3>5. \A q \in Proc : rlock[q] # -1 => rlock[q] \notin Slot
      BY <2>3 DEF FreeX, Shared
    <3>6. LockOK'
      BY <2>2, <2>3, <3>4, <3>5, WalAssumption DEF LockOK
    <3> QED BY <2>2, <3>1, <3>2, <3>3, <3>6, KeepDisk
  <2>4. CASE rlock' = [rlock EXCEPT ![p] = -1] /\ UNCHANGED <<idx, hdr, xlock, base>>
    <3>1. ProcOK'
      BY <1>1, <2>2, <2>4 DEF ProcOK
    <3>2. LockOK'
      BY <2>2, <2>4, WalAssumption DEF LockOK
    <3>3. HistOK'
      BY <2>2, <2>4 DEF HistOK
    <3> QED BY <2>2, <2>4, <3>1, <3>2, <3>3, KeepDisk
  <2> QED BY <1>3, <2>3, <2>4 DEF RestartLog
<1>4. CASE RestartHdr(p)
  <2>1. idx' = [idx EXCEPT !.a = hdr[p]] /\ UNCHANGED <<disk, hdr, pick, locks, ck, hist>>
    BY <1>4 DEF RestartHdr
  <2>2. idx' \in IndexT
    BY <1>2, <2>1 DEF IndexT
  <2>3. ProcOK'
    BY <1>1, <2>1 DEF ProcOK
  <2> QED BY <2>1, <2>2, <2>3, KeepDisk, KeepHist, KeepLocks
<1>5. CASE RestartReset(p)
  <2> DEFINE m == [i \in Slot |-> IF i = 1 THEN 0 ELSE NotUsed]
  <2>1. /\ idx' = [idx EXCEPT !.nBackfill = 0, !.mark = m]
        /\ xlock' = [i \in DOMAIN xlock |-> IF i \in Slot THEN Nobody ELSE xlock[i]]
        /\ rlock' = [rlock EXCEPT ![p] = -1]
        /\ UNCHANGED <<disk, hdr, pick, wlock, ckpt, ck, hist>>
    BY <1>5 DEF RestartReset
  <2>2. m \in [Slot -> 0..NotUsed] /\ 0 \in 0..MaxFrame
    BY WalAssumption DEF NotUsed
  <2> HIDE DEF m
  <2>3. idx' \in IndexT
    BY <2>1, <2>2 DEF IndexT
  <2>4. ProcOK'
    BY <1>1, <2>1 DEF ProcOK
  <2>5. LockOK'
    BY <1>2, <2>1, WalAssumption DEF LockOK
  <2> QED BY <2>1, <2>3, <2>4, <2>5, KeepDisk, KeepHist
<1> QED BY <1>3, <1>4, <1>5

(* What appending a frame does to the writer's header. *)
LEMMA WriteFrameHdr ==
  ASSUME WalTypeInv, NEW p \in Proc, NEW pg \in Page, NEW commit \in BOOLEAN,
         NEW fresh \in BOOLEAN, WriteFrame(p, pg, commit, fresh)
  PROVE  LET f  == hdr[p].mx + 1
             fr == FrameOf(p, pg, commit, fresh)
         IN /\ f \in Frame /\ fr \in FrameT
            /\ fr.pg = pg /\ fr.v = txn /\ fr.commit = commit
            /\ fr.salt = (IF fresh THEN txn ELSE hdr[p].salt)
            /\ hdr' \in [Proc -> HeaderT]
            /\ \A q \in Proc : q # p => hdr'[q] = hdr[q]
            /\ hdr'[p].mx = f /\ hdr'[p].salt = fr.salt /\ hdr'[p].sum = fr.sum
            /\ hdr'[p].txn = (IF commit THEN txn ELSE hdr[p].txn)
            /\ hdr'[p].init = hdr[p].init
            /\ hdr'[p].change = (IF commit THEN hdr[p].change + 1 ELSE hdr[p].change)
<1> DEFINE f  == hdr[p].mx + 1
           fr == FrameOf(p, pg, commit, fresh)
           sm == Append(IF hdr[p].mx = 0 THEN << >> ELSE hdr[p].sum, <<pg, txn, commit>>)
           sa == IF fresh THEN txn ELSE hdr[p].salt
           L  == Seq(LinkT)
           R == [mx : 0..MaxFrame, change : Nat, salt : 0..MaxTxn, sum : L,
                 txn : 0..MaxTxn, init : BOOLEAN]
<1>1. hdr \in [Proc -> HeaderT] /\ txn \in 0..MaxTxn
  BY DEF WalTypeInv, ProcOK, HistOK
<1>2. /\ hdr[p].mx \in 0..MaxFrame /\ hdr[p].salt \in 0..MaxTxn /\ hdr[p].sum \in Seq(LinkT)
      /\ hdr[p].mx < MaxFrame
  BY <1>1, HeaderFields DEF WriteFrame
<1>3. f \in Frame /\ f \in 0..MaxFrame
  BY <1>2, WalAssumption DEF Frame
<1>4. sm \in L
  <2>1. <<pg, txn, commit>> \in LinkT
    BY <1>1 DEF LinkT, PageNo
  <2>2. (IF hdr[p].mx = 0 THEN << >> ELSE hdr[p].sum) \in Seq(LinkT)
    BY <1>2
  <2> QED BY <2>1, <2>2
<1>5. sa \in 0..MaxTxn
  BY <1>1, <1>2
<1>6. fr = [pg |-> pg, v |-> txn, commit |-> commit, salt |-> sa, sum |-> sm]
  BY DEF FrameOf
<1>7. hdr \in [Proc -> R]
  BY <1>1 DEF HeaderT
<1>8. hdr' = [hdr EXCEPT ![p].mx = f, ![p].salt = fr.salt, ![p].sum = fr.sum,
                         ![p].change = IF commit THEN @ + 1 ELSE @,
                         ![p].txn = IF commit THEN txn ELSE @]
  BY DEF WriteFrame
<1> HIDE DEF f, fr, sm, sa, L
<1>9. fr.salt = sa /\ fr.sum = sm /\ fr.pg = pg /\ fr.v = txn /\ fr.commit = commit
  BY <1>6
<1>10. fr \in FrameT
  <2>1. pg \in PageNo
    BY DEF PageNo
  <2>2. fr \in [pg : PageNo, v : 0..MaxTxn, commit : BOOLEAN, salt : 0..MaxTxn, sum : L]
    BY <1>1, <1>4, <1>5, <1>6, <2>1
  <2> QED BY <2>2 DEF FrameT, L
<1>11. hdr' \in [Proc -> R]
  <2> DEFINE c == IF commit THEN hdr[p].change + 1 ELSE hdr[p].change
             t == IF commit THEN txn ELSE hdr[p].txn
             h == [hdr[p] EXCEPT !.mx = f, !.salt = sa, !.sum = sm, !.change = c, !.txn = t]
  <2>1. hdr[p] \in R
    BY <1>7
  <2>2. hdr' = [hdr EXCEPT ![p] = h]
    BY <1>7, <1>8, <1>9
  <2>3. c \in Nat /\ t \in 0..MaxTxn
    BY <1>1, <2>1
  <2> HIDE DEF c, t
  <2>4. h \in R
    BY <1>3, <1>4, <1>5, <2>1, <2>3
  <2> HIDE DEF h
  <2> QED BY <1>7, <2>2, <2>4
<1>12. /\ \A q \in Proc : q # p => hdr'[q] = hdr[q]
       /\ hdr'[p].mx = f /\ hdr'[p].salt = fr.salt /\ hdr'[p].sum = fr.sum
       /\ hdr'[p].txn = (IF commit THEN txn ELSE hdr[p].txn)
       /\ hdr'[p].init = hdr[p].init
       /\ hdr'[p].change = (IF commit THEN hdr[p].change + 1 ELSE hdr[p].change)
  BY <1>7, <1>8
<1>13. hdr' \in [Proc -> HeaderT]
  BY <1>11 DEF HeaderT, L
<1> QED BY <1>3, <1>9, <1>10, <1>12, <1>13 DEF f, fr, sa

LEMMA TypeWriteFrame ==
  ASSUME WalTypeInv, NEW p \in Proc, NEW pg \in Page, NEW commit \in BOOLEAN,
         NEW fresh \in BOOLEAN, WriteFrame(p, pg, commit, fresh)
  PROVE  WalTypeInv'
<1> DEFINE f  == hdr[p].mx + 1
           fr == FrameOf(p, pg, commit, fresh)
<1>1. f \in Frame /\ fr \in FrameT /\ fr.salt \in 0..MaxTxn /\ hdr' \in [Proc -> HeaderT]
  <2>1. f \in Frame /\ fr \in FrameT /\ hdr' \in [Proc -> HeaderT]
    BY WriteFrameHdr
  <2> HIDE DEF fr
  <2> QED BY <2>1 DEF FrameT
<1>2. log \in LogT /\ logDisk \in LogT /\ log.salt \in 0..MaxTxn /\ log.frame \in [Frame -> FrameT]
  BY DEF WalTypeInv, DiskOK, LogT
<1>3. /\ log' = [salt |-> IF f = 1 THEN fr.salt ELSE log.salt,
                 frame |-> [log.frame EXCEPT ![f] = fr]]
      /\ logDisk' = LogSynced(p, fr)
  BY DEF WriteFrame
<1>4. idx' = [idx EXCEPT !.pgno = [i \in Frame |->
                IF i = f THEN pg ELSE IF i > f /\ (f = 1 \/ @[f] # 0) THEN 0 ELSE @[i]]]
  BY DEF WriteFrame
<1>5. /\ wrote' = wrote \cup {pg}
      /\ state' = [state EXCEPT ![txn] = [q \in Page |-> IF q \in wrote' THEN txn
                                                        ELSE state[hdr[p].txn][q]]]
      /\ UNCHANGED <<db, dbLoss, pick, locks, ck, txn, com, base, overrun>>
  BY DEF WriteFrame
<1>6. st' \in [Proc -> Places]
  BY GotoOK, PlacesIn DEF WriteFrame, WalTypeInv
<1> HIDE DEF f, fr
<1>7. log' \in LogT
  BY <1>1, <1>2, <1>3 DEF LogT
<1>8. logDisk' \in LogT
  BY <1>1, <1>2, <1>3, <1>7 DEF LogSynced, LogT
<1>9. idx' \in IndexT
  <2>1. idx \in IndexT /\ idx.pgno \in [Frame -> PageNo] /\ pg \in PageNo /\ 0 \in PageNo
    BY DEF WalTypeInv, IndexT, PageNo
  <2> QED BY <1>4, <2>1 DEF IndexT
<1>10. HistOK'
  <2>1. state \in [0..MaxTxn -> [Page -> 0..MaxTxn]] /\ hdr[p].txn \in 0..MaxTxn
        /\ txn \in 0..MaxTxn /\ wrote \in SUBSET Page
    BY HeaderFields DEF WalTypeInv, HistOK, ProcOK
  <2>2. [q \in Page |-> IF q \in wrote' THEN txn ELSE state[hdr[p].txn][q]] \in [Page -> 0..MaxTxn]
    BY <2>1
  <2>3. state' \in [0..MaxTxn -> [Page -> 0..MaxTxn]] /\ wrote' \in SUBSET Page
    BY <1>5, <2>1, <2>2
  <2> QED BY <1>5, <2>3 DEF WalTypeInv, HistOK
<1>11. ProcOK'
  BY <1>1, <1>5, <1>6 DEF WalTypeInv, ProcOK
<1>12. DiskOK'
  BY <1>5, <1>7, <1>8 DEF WalTypeInv, DiskOK
<1> QED BY <1>5, <1>9, <1>10, <1>11, <1>12, KeepLocks DEF WalTypeInv

LEMMA TypePublish ==
  ASSUME WalTypeInv, NEW p \in Proc, PublishB(p) \/ PublishA(p) \/ Rollback(p)
  PROVE  WalTypeInv'
<1> USE DEF WalTypeInv
<1>1. st' \in [Proc -> Places]
  BY GotoOK, PlacesIn DEF PublishB, PublishA, Rollback
<1>2. hdr[p] \in HeaderT /\ idx.a \in HeaderT /\ idx.pgno \in [Frame -> PageNo] /\ 0 \in PageNo
  BY DEF ProcOK, IndexT, PageNo
<1>3. CASE PublishB(p)
  <2> DEFINE L == Seq(LinkT)
             R == [mx : 0..MaxFrame, change : Nat, salt : 0..MaxTxn, sum : L,
                   txn : 0..MaxTxn, init : BOOLEAN]
             h == [hdr[p] EXCEPT !.init = TRUE]
  <2> HIDE DEF L
  <2>1. hdr[p] \in R
    BY <1>2 DEF HeaderT, L
  <2>2. h \in R
    BY <2>1
  <2>3. h \in HeaderT
    BY <2>2 DEF HeaderT, L
  <2>4. idx' = [idx EXCEPT !.b = h] /\ UNCHANGED <<disk, hdr, pick, locks, ck, hist>>
    BY <1>3 DEF PublishB
  <2> HIDE DEF h
  <2>5. idx' \in IndexT
    BY <2>3, <2>4 DEF IndexT
  <2>6. ProcOK'
    BY <1>1, <2>4 DEF ProcOK
  <2> QED BY <2>4, <2>5, <2>6, KeepDisk, KeepHist, KeepLocks
<1>4. CASE PublishA(p)
  <2>1. /\ idx' = [idx EXCEPT !.a = hdr[p]] /\ com' = txn /\ wlock' = Nobody
        /\ UNCHANGED <<disk, hdr, pick, rlock, ckpt, xlock, ck, txn, wrote, state, base, overrun>>
    BY <1>4 DEF PublishA
  <2>2. idx' \in IndexT
    BY <1>2, <2>1 DEF IndexT
  <2>3. ProcOK'
    BY <1>1, <2>1 DEF ProcOK
  <2>4. HistOK'
    BY <2>1 DEF HistOK
  <2>5. LockOK'
    BY <2>1 DEF LockOK, Holder
  <2> QED BY <2>1, <2>2, <2>3, <2>4, <2>5, KeepDisk
<1>5. CASE Rollback(p)
  <2>1. /\ hdr' = [hdr EXCEPT ![p] = idx.a] /\ wlock' = Nobody
        /\ UNCHANGED <<disk, pick, rlock, ckpt, xlock, ck, hist>>
    BY <1>5 DEF Rollback
  <2>2. idx' = idx \/ idx' = [idx EXCEPT !.pgno = [f \in Frame |-> IF f > idx.a.mx THEN 0 ELSE @[f]]]
    BY <1>5 DEF Rollback
  <2>3. idx' \in IndexT
    BY <1>2, <2>2 DEF IndexT
  <2>4. ProcOK'
    BY <1>1, <1>2, <2>1 DEF ProcOK
  <2>5. LockOK'
    BY <2>1 DEF LockOK, Holder
  <2> QED BY <2>1, <2>3, <2>4, <2>5, KeepDisk, KeepHist
<1> QED BY <1>3, <1>4, <1>5

LEMMA TypeCkptBegin ==
  ASSUME WalTypeInv, NEW p \in Proc,
         (\E mode \in CkptModes : Checkpoint(p, mode)) \/ CkptBusy(p) \/ CkptDone(p)
  PROVE  WalTypeInv'
<1> USE DEF WalTypeInv
<1>1. st' \in [Proc -> Places]
  BY GotoOK, PlacesIn DEF Checkpoint, CkptBusy, CkptDone
<1>2. UNCHANGED <<disk, idx, pick, rlock, xlock, ck, hist>> /\ (hdr' = hdr \/ hdr' = [hdr EXCEPT ![p] = NoHdr])
  BY DEF Checkpoint, CkptBusy, CkptDone, locks
<1>3. wlock' \in Holder /\ ckpt' \in Holder
  BY DEF Checkpoint, CkptBusy, CkptDone, locks, LockOK, Holder
<1>4. ProcOK'
  BY <1>1, <1>2, FreshOK DEF ProcOK
<1>5. LockOK'
  BY <1>2, <1>3 DEF LockOK
<1> QED BY <1>2, <1>4, <1>5, KeepDisk, KeepHist

LEMMA TypeCkptStart ==
  ASSUME WalTypeInv, NEW p \in Proc, CkptStart(p) PROVE WalTypeInv'
<1> USE DEF WalTypeInv
<1>1. st' \in [Proc -> Places]
  BY GotoOK, PlacesIn DEF CkptStart
<1>2. UNCHANGED <<disk, idx, hdr, pick, locks, txn, wrote, com, state, base>>
  BY DEF CkptStart
<1> DEFINE todo == {FindFrame(idx.pgno, pg, hdr[p].mx) : pg \in Page} \ {0}
<1>3. todo \in SUBSET Frame
  BY FindFrameIn
<1>4. ck' = ck \/ ck' = [safe |-> hdr[p].mx, i |-> 1, from |-> 0, todo |-> todo]
  BY DEF CkptStart
<1> HIDE DEF todo
<1>5. hdr[p].mx \in 0..MaxFrame /\ 0 \in 0..MaxFrame
  BY HeaderFields, WalAssumption DEF ProcOK
<1>6. ck' \in CkptT
  BY <1>3, <1>4, <1>5 DEF CkptT, ProcOK
<1>7. overrun' \in BOOLEAN
  BY DEF CkptStart, HistOK
<1>8. ProcOK'
  BY <1>1, <1>2, <1>6 DEF ProcOK
<1>9. HistOK'
  BY <1>2, <1>7 DEF HistOK
<1> QED BY <1>2, <1>8, <1>9, KeepDisk, KeepLocks

LEMMA TypeCkptMark ==
  ASSUME WalTypeInv, NEW p \in Proc, CkptMark(p) PROVE WalTypeInv'
<1> USE DEF WalTypeInv
<1>1. UNCHANGED <<disk, st, hdr, pick, locks, hist>> /\ ck.i \in Slot
  BY DEF CkptMark
<1>2. /\ ck \in CkptT /\ ck.safe \in 0..MaxFrame /\ ck.i \in Nat
      /\ idx.mark \in [Slot -> 0..NotUsed] /\ idx.mark[ck.i] \in 0..NotUsed
  BY <1>1 DEF ProcOK, CkptT, IndexT
<1>3. \/ ck' = [ck EXCEPT !.i = ck.i + 1] /\ idx' = idx
      \/ /\ ck' = [ck EXCEPT !.i = ck.i + 1]
         /\ idx' = [idx EXCEPT !.mark[ck.i] = IF ck.i = 1 THEN ck.safe ELSE NotUsed]
      \/ /\ ~(ck.safe <= idx.mark[ck.i])
         /\ ck' = [ck EXCEPT !.safe = idx.mark[ck.i], !.i = ck.i + 1] /\ idx' = idx
  BY DEF CkptMark
<1>4. ~(ck.safe <= idx.mark[ck.i]) => idx.mark[ck.i] \in 0..MaxFrame
  BY <1>2, WalAssumption DEF NotUsed
<1>5. ck' \in CkptT
  <2>1. [ck EXCEPT !.i = ck.i + 1] \in CkptT
    BY <1>2 DEF CkptT
  <2>2. ASSUME ~(ck.safe <= idx.mark[ck.i])
        PROVE  [ck EXCEPT !.safe = idx.mark[ck.i], !.i = ck.i + 1] \in CkptT
    <3> DEFINE y == idx.mark[ck.i]
               j == ck.i + 1
    <3>1. y \in 0..MaxFrame /\ j \in Nat
      BY <1>2, <1>4, <2>2
    <3> HIDE DEF y, j
    <3>2. [ck EXCEPT !.safe = y, !.i = j] \in CkptT
      BY <1>2, <3>1 DEF CkptT
    <3> QED BY <3>2 DEF y, j
  <2> QED BY <1>3, <2>1, <2>2
<1>6. idx' \in IndexT
  <2>1. (IF ck.i = 1 THEN ck.safe ELSE NotUsed) \in 0..NotUsed
    BY <1>2, WalAssumption DEF NotUsed
  <2> QED BY <1>1, <1>2, <1>3, <2>1 DEF IndexT
<1>7. ProcOK'
  BY <1>1, <1>5 DEF ProcOK
<1> QED BY <1>1, <1>6, <1>7, KeepDisk, KeepHist, KeepLocks

LEMMA TypeCkptLock0 ==
  ASSUME WalTypeInv, NEW p \in Proc, CkptLock0(p) PROVE WalTypeInv'
<1> USE DEF WalTypeInv
<1>1. st' \in [Proc -> Places]
  BY GotoOK, PlacesIn DEF CkptLock0
<1>2. UNCHANGED <<db, dbLoss, log, idx, hdr, pick, rlock, wlock, ckpt, hist>>
  BY DEF CkptLock0
<1>3. logDisk' \in LogT
  BY DEF CkptLock0, DiskOK
<1>4. ck' = [ck EXCEPT !.from = idx.nBackfill] \/ ck' = CkptOver
  BY DEF CkptLock0
<1>5. ck' \in CkptT
  <2>1. ck \in CkptT /\ idx.nBackfill \in 0..MaxFrame
    BY DEF ProcOK, IndexT
  <2> QED BY <1>4, <2>1, FreshOK DEF CkptT
<1>6. xlock' = xlock \/ (xlock' = [xlock EXCEPT ![0] = p] /\ FreeX(0))
  BY DEF CkptLock0
<1>7. ProcOK'
  BY <1>1, <1>2, <1>5 DEF ProcOK
<1>8. LockOK'
  BY <1>2, <1>6, WalAssumption DEF LockOK, Holder, FreeX, Shared
<1>9. DiskOK'
  BY <1>2, <1>3 DEF DiskOK
<1> QED BY <1>2, <1>7, <1>8, <1>9, KeepHist

LEMMA TypeBackfill ==
  ASSUME WalTypeInv, NEW p \in Proc, NEW f \in Frame, Backfill(p, f) PROVE WalTypeInv'
<1> USE DEF WalTypeInv
<1>1. UNCHANGED <<log, logDisk, idx, st, hdr, pick, locks, hist>> /\ ck' = [ck EXCEPT !.todo = @ \ {f}]
  BY DEF Backfill
<1>2. log.frame[f].v \in 0..MaxTxn
  BY DEF DiskOK, LogT, FrameT
<1>3. \/ db' = db /\ dbLoss' = dbLoss
      \/ /\ db' = [db EXCEPT ![idx.pgno[f]] = log.frame[f].v]
         /\ dbLoss' = [dbLoss EXCEPT ![idx.pgno[f]] = @ \cup {log.frame[f].v}]
  BY DEF Backfill
<1>4. db' \in [Page -> 0..MaxTxn] /\ dbLoss' \in [Page -> SUBSET (0..MaxTxn)]
  BY <1>2, <1>3 DEF DiskOK
<1>5. ck' \in CkptT
  BY <1>1 DEF CkptT, ProcOK
<1>6. DiskOK'
  BY <1>1, <1>4 DEF DiskOK
<1>7. ProcOK'
  BY <1>1, <1>5 DEF ProcOK
<1> QED BY <1>1, <1>6, <1>7, KeepHist, KeepLocks

LEMMA TypeCkptEnd ==
  ASSUME WalTypeInv, NEW p \in Proc, CkptEnd(p) PROVE WalTypeInv'
<1> USE DEF WalTypeInv
<1>1. st' \in [Proc -> Places]
  BY GotoOK, PlacesIn DEF CkptEnd
<1>2. /\ UNCHANGED <<db, log, logDisk, hdr, pick, rlock, wlock, ckpt, hist>> /\ ck' = CkptOver
      /\ xlock' = [xlock EXCEPT ![0] = Nobody] /\ idx' = [idx EXCEPT !.nBackfill = ck.safe]
      /\ dbLoss' = IF ck.safe = idx.a.mx THEN [pg \in Page |-> {db[pg]}] ELSE dbLoss
  BY DEF CkptEnd
<1>3. idx' \in IndexT
  <2>1. ck.safe \in 0..MaxFrame
    BY DEF ProcOK, CkptT
  <2> QED BY <1>2, <2>1 DEF IndexT
<1>4. DiskOK'
  BY <1>2 DEF DiskOK
<1>5. ProcOK'
  BY <1>1, <1>2, FreshOK DEF ProcOK
<1>6. LockOK'
  BY <1>2, WalAssumption DEF LockOK, Holder
<1> QED BY <1>2, <1>3, <1>4, <1>5, <1>6, KeepHist

LEMMA TypeCrashOpen ==
  ASSUME WalTypeInv, NEW p \in Proc, Crash(p) \/ Open(p) PROVE WalTypeInv'
<1> USE DEF WalTypeInv
<1>1. st' \in [Proc -> Places]
  BY GotoOK, PlacesIn DEF Crash, Open
<1>2. CASE Crash(p)
  <2>1. /\ hdr' = [hdr EXCEPT ![p] = NoHdr] /\ pick' = [pick EXCEPT ![p] = <<0, 0>>]
        /\ rlock' = [rlock EXCEPT ![p] = -1]
        /\ wlock' = (IF wlock = p THEN Nobody ELSE wlock)
        /\ xlock' = [i \in DOMAIN xlock |-> IF xlock[i] = p THEN Nobody ELSE xlock[i]]
        /\ ((ckpt' = Nobody /\ ck' = CkptOver) \/ (ckpt' = ckpt /\ ck' = ck))
        /\ overrun' \in BOOLEAN
        /\ UNCHANGED <<disk, idx, txn, wrote, com, state, base>>
    BY <1>2 DEF Crash, HistOK
  <2>2. ProcOK'
    BY <1>1, <2>1, FreshOK DEF ProcOK
  <2>3. LockOK'
    BY <2>1, WalAssumption DEF LockOK, Holder
  <2>4. HistOK'
    BY <2>1 DEF HistOK
  <2> QED BY <2>1, <2>2, <2>3, <2>4, KeepDisk
<1>3. CASE Open(p)
  <2>1. (idx' = NoIdx \/ idx' = idx) /\ UNCHANGED <<disk, hdr, pick, locks, ck, hist>>
    BY <1>3 DEF Open
  <2>2. ProcOK'
    BY <1>1, <2>1 DEF ProcOK
  <2> QED BY <2>1, <2>2, FreshOK, KeepDisk, KeepHist, KeepLocks
<1> QED BY <1>2, <1>3

LEMMA TypeClose ==
  ASSUME WalTypeInv, NEW p \in Proc, Close(p) PROVE WalTypeInv'
<1> USE DEF WalTypeInv
<1>1. st' \in [Proc -> Places]
  BY GotoOK, PlacesIn DEF Close
<1>2. /\ db' = Backfilled(db, log, idx.pgno, idx.nBackfill, idx.a.mx)
      /\ log' = NoLog /\ idx' = NoIdx /\ base' = com
      /\ (dbLoss' = [pg \in Page |-> {db'[pg]}] /\ logDisk' = log) \/ UNCHANGED <<dbLoss, logDisk>>
      /\ UNCHANGED <<hdr, pick, locks, ck, txn, wrote, com, state, overrun>>
  BY DEF Close
<1>3. db' \in [Page -> 0..MaxTxn]
  <2>1. idx.nBackfill \in Nat /\ db \in [Page -> 0..MaxTxn] /\ log \in LogT
    BY DEF IndexT, DiskOK
  <2> QED BY <1>2, <2>1, BackfilledType
<1>4. DiskOK'
  BY <1>2, <1>3, FreshOK DEF DiskOK
<1>5. ProcOK'
  BY <1>1, <1>2 DEF ProcOK
<1>6. HistOK'
  BY <1>2 DEF HistOK
<1> QED BY <1>2, <1>4, <1>5, <1>6, FreshOK, KeepLocks

LEMMA TypePowerLoss == ASSUME WalTypeInv, PowerLoss PROVE WalTypeInv'
<1> USE DEF WalTypeInv
<1>1. log \in LogT /\ logDisk \in LogT /\ NoLog \in LogT
  BY FreshOK DEF DiskOK
<1>2. log' \in LogT
  <2>1. CASE log = NoLog
    BY <1>1, <2>1 DEF PowerLoss
  <2>2. CASE log # NoLog
    <3>1. PICK lost \in SUBSET {f \in Frame : log.frame[f] # logDisk.frame[f]},
               sa \in {log.salt, logDisk.salt} :
            log' = [salt |-> sa, frame |-> [f \in Frame |-> IF f \in lost THEN logDisk.frame[f]
                                                                         ELSE log.frame[f]]]
      BY <2>2 DEF PowerLoss
    <3>2. sa \in 0..MaxTxn /\ log.frame \in [Frame -> FrameT] /\ logDisk.frame \in [Frame -> FrameT]
      BY <1>1 DEF LogT
    <3> QED BY <3>1, <3>2 DEF LogT
  <2> QED BY <2>1, <2>2
<1>3. /\ logDisk' = log' /\ dbLoss' = [pg \in Page |-> {db'[pg]}] /\ com' = RecoveredTxn(log')
      /\ idx' = NoIdx /\ st' = [p \in Proc |-> "DEAD"] /\ hdr' = [p \in Proc |-> NoHdr]
      /\ rlock' = [p \in Proc |-> -1] /\ pick' = [p \in Proc |-> <<0, 0>>]
      /\ wlock' = Nobody /\ ckpt' = Nobody /\ xlock' = [i \in DOMAIN xlock |-> Nobody]
      /\ ck' = CkptOver /\ UNCHANGED <<txn, wrote, state, base, overrun>>
  BY DEF PowerLoss
<1>4. db' \in [Page -> 0..MaxTxn]
  <2>1. db' \in [Page -> UNION {dbLoss[pg] : pg \in Page}] /\ \A pg \in Page : db'[pg] \in dbLoss[pg]
    BY DEF PowerLoss
  <2>2. \A pg \in Page : db'[pg] \in 0..MaxTxn
    BY <2>1 DEF DiskOK
  <2> QED BY <2>1, <2>2
<1>5. DiskOK'
  BY <1>2, <1>3, <1>4 DEF DiskOK
<1>6. HistOK'
  BY <1>2, <1>3, RecoveredTxnType DEF HistOK
<1>7. ProcOK'
  BY <1>3, FreshOK, PlacesIn DEF ProcOK
<1>8. LockOK'
  BY <1>3, WalAssumption DEF LockOK, Holder
<1> QED BY <1>3, <1>5, <1>6, <1>7, <1>8, FreshOK

LEMMA WalTypeInit == Init => WalTypeInv
<1> SUFFICES ASSUME Init PROVE WalTypeInv
  OBVIOUS
<1>1. 0 \in 0..MaxTxn /\ -1 \in -1..(NReader - 1) /\ 0 \in 0..MaxFrame
  BY WalAssumption
<1>2. DiskOK
  BY <1>1, FreshOK DEF Init, DiskOK
<1>3. HistOK
  BY <1>1 DEF Init, HistOK
<1>4. ProcOK
  BY FreshOK, PlacesIn DEF Init, ProcOK, CkptOver
<1>5. LockOK
  BY <1>1, FreshOK DEF Init, LockOK
<1> QED BY <1>2, <1>3, <1>4, <1>5, FreshOK DEF Init, WalTypeInv

LEMMA WalTypeNext == WalTypeInv /\ [Next]_vars => WalTypeInv'
<1> SUFFICES ASSUME WalTypeInv, [Next]_vars PROVE WalTypeInv'
  OBVIOUS
<1>1. CASE PowerLoss
  BY <1>1, TypePowerLoss
<1>2. CASE UNCHANGED vars
  <2>1. UNCHANGED <<disk, idx, st, hdr, pick, locks, ck, hist>>
    BY <1>2 DEF vars
  <2> QED BY <2>1, KeepDisk, KeepHist, KeepLocks DEF WalTypeInv, ProcOK
<1>3. ASSUME NEW p \in Proc, NEW pg \in Page, NEW commit \in BOOLEAN, NEW fresh \in BOOLEAN,
             WriteFrame(p, pg, commit, fresh)
      PROVE  WalTypeInv'
  BY <1>3, TypeWriteFrame
<1>4. ASSUME NEW p \in Proc, NEW f \in Frame, Backfill(p, f) PROVE WalTypeInv'
  BY <1>4, TypeBackfill
<1>5. ASSUME NEW p \in Proc,
             \/ ReadHdr(p) \/ Recover(p) \/ BeginRead0(p) \/ ChooseMark(p) \/ LockMark(p)
             \/ EndRead(p) \/ BeginWrite(p) \/ RestartLog(p) \/ RestartHdr(p) \/ RestartReset(p)
      PROVE  WalTypeInv'
  BY <1>5, TypeReadHdr, TypeRecover, TypeBeginRead0, TypeChooseMark, TypeLockMark,
     TypeEndRead, TypeBeginWrite, TypeRestart
<1>6. ASSUME NEW p \in Proc,
             \/ PublishB(p) \/ PublishA(p) \/ Rollback(p)
             \/ \E mode \in CkptModes : Checkpoint(p, mode)
             \/ CkptHdr(p) \/ CkptBusy(p) \/ CkptStart(p) \/ CkptMark(p) \/ CkptLock0(p)
      PROVE  WalTypeInv'
  BY <1>6, TypePublish, TypeCkptBegin, TypeReadHdr, TypeCkptStart, TypeCkptMark, TypeCkptLock0
<1>7. ASSUME NEW p \in Proc, CkptEnd(p) \/ CkptDone(p) \/ Crash(p) \/ Open(p) \/ Close(p)
      PROVE  WalTypeInv'
  BY <1>7, TypeCkptEnd, TypeCkptBegin, TypeCrashOpen, TypeClose
<1> QED BY <1>1, <1>2, <1>3, <1>4, <1>5, <1>6, <1>7 DEF Next

LEMMA WalTypeInvariant == Spec => []WalTypeInv
  BY WalTypeInit, WalTypeNext, PTL DEF Spec

(* For any number of processes, read locks, frames and transactions: the      *)
(* database, nBackfill and aReadMark stay in range through crashes, losses of *)
(* power, recoveries and restarts of the log, and whoever holds a read lock   *)
(* exclusively shares it with nobody.                                         *)
THEOREM WalTypes == Spec => []TypeOK
<1>1. WalTypeInv => TypeOK
  <2> SUFFICES ASSUME WalTypeInv PROVE TypeOK
    OBVIOUS
  <2>1. /\ db \in [Page -> 0..MaxTxn] /\ com \in 0..MaxTxn
        /\ idx.nBackfill \in 0..MaxFrame /\ idx.mark \in [Slot -> 0..NotUsed]
        /\ rlock \in [Proc -> -1..(NReader - 1)]
    BY DEF WalTypeInv, DiskOK, HistOK, IndexT, LockOK
  <2>2. ASSUME NEW i \in 0..(NReader - 1) PROVE Shared(i) = {} \/ xlock[i] = Nobody
    <3>1. i # -1
      BY WalAssumption
    <3> QED BY <3>1 DEF Shared, WalTypeInv, LockOK
  <2> QED BY <2>1, <2>2 DEF TypeOK
<1> QED BY <1>1, WalTypeInvariant, PTL

-------------------------------------------------------------------------------
(* The writer.  Only the holder of WAL_WRITE_LOCK changes the first copy of   *)
(* the header, except for recovery, which needs the write lock free, and for  *)
(* the removal of the wal-index, when nobody is left.                         *)

LEMMA WriterStep ==
  ASSUME WriterInv, NEW p \in Proc,
         \A q \in Proc : q # p => st'[q] = st[q] /\ hdr'[q] = hdr[q],
         \A q \in Proc : q # p /\ st[q] \in Writing =>
           wlock' = wlock /\ idx'.a = idx.a /\ com' = com /\ txn' = txn,
         st'[p] \in Writing =>
           /\ wlock' = p /\ idx'.a.init
           /\ hdr'[p].txn = IF st'[p] \in {"COMMIT", "COMMIT_A"} THEN txn' ELSE com',
         st'[p] \in Writing \cup Reading => hdr'[p].init,
         idx'.a.init => idx'.a.txn = com'
  PROVE  WriterInv'
<1>1. ASSUME NEW q \in Proc, st'[q] \in Writing
      PROVE  /\ wlock' = q /\ idx'.a.init
             /\ hdr'[q].txn = IF st'[q] \in {"COMMIT", "COMMIT_A"} THEN txn' ELSE com'
  <2>1. CASE q = p
    BY <1>1, <2>1
  <2>2. CASE q # p
    <3>1. st'[q] = st[q] /\ hdr'[q] = hdr[q] /\ st[q] \in Writing
      BY <1>1, <2>2
    <3>2. wlock' = wlock /\ idx'.a = idx.a /\ com' = com /\ txn' = txn
      BY <2>2, <3>1
    <3>3. wlock = q /\ idx.a.init
          /\ hdr[q].txn = IF st[q] \in {"COMMIT", "COMMIT_A"} THEN txn ELSE com
      BY <3>1 DEF WriterInv
    <3> QED BY <3>1, <3>2, <3>3
  <2> QED BY <2>1, <2>2
<1>2. ASSUME NEW q \in Proc, st'[q] \in Writing \cup Reading PROVE hdr'[q].init
  <2>1. CASE q = p
    BY <1>2, <2>1
  <2>2. CASE q # p
    BY <1>2, <2>2 DEF WriterInv
  <2> QED BY <2>1, <2>2
<1> QED BY <1>1, <1>2 DEF WriterInv

(* At most one process writes. *)
LEMMA OneWriter ==
  ASSUME WriterInv, NEW p \in Proc, st[p] \in Writing \/ wlock \in {p, Nobody}
  PROVE  \A q \in Proc : q # p => st[q] \notin Writing
  BY WalAssumption DEF WriterInv

(* The steps that leave the header, the write lock and the history alone. *)
LEMMA WriterQuiet ==
  ASSUME WalTypeInv, WriterInv, NEW p \in Proc,
         \/ ReadHdr(p) \/ BeginRead0(p) \/ ChooseMark(p) \/ LockMark(p) \/ EndRead(p)
         \/ CkptHdr(p) \/ CkptBusy(p) \/ CkptStart(p) \/ CkptLock0(p) \/ CkptEnd(p)
         \/ PublishB(p) \/ RestartReset(p)
  PROVE  WriterInv'
<1>1. idx'.a = idx.a /\ UNCHANGED <<wlock, com, txn>>
  <2>1. idx \in IndexT
    BY DEF WalTypeInv
  <2> QED BY <2>1 DEF ReadHdr, BeginRead0, ChooseMark, LockMark, EndRead, CkptHdr, CkptBusy,
                      CkptStart, CkptLock0, CkptEnd, PublishB, RestartReset, IndexT, locks, hist
<1>2. \A q \in Proc : q # p => st'[q] = st[q] /\ hdr'[q] = hdr[q]
  BY DEF WalTypeInv, ProcOK, Goto, ReadHdr, BeginRead0, ChooseMark, LockMark, EndRead, CkptHdr,
         CkptBusy, CkptStart, CkptLock0, CkptEnd, PublishB, RestartReset
<1>3. /\ st'[p] \in Writing =>
           st[p] \in Writing /\ hdr'[p] = hdr[p] /\
           (st'[p] \in {"COMMIT", "COMMIT_A"} <=> st[p] \in {"COMMIT", "COMMIT_A"})
      /\ st'[p] \in Writing \cup Reading =>
           (st[p] \in Writing \cup Reading /\ hdr'[p] = hdr[p]) \/ (hdr'[p] = idx.a /\ GoodHdr)
  BY DEF WalTypeInv, ProcOK, Goto, ReadHdr, BeginRead0, ChooseMark, LockMark, EndRead, CkptHdr,
         CkptBusy, CkptStart, CkptLock0, CkptEnd, PublishB, RestartReset, Writing, Reading
<1>4. st'[p] \in Writing =>
        /\ wlock' = p /\ idx'.a.init
        /\ hdr'[p].txn = IF st'[p] \in {"COMMIT", "COMMIT_A"} THEN txn' ELSE com'
  BY <1>1, <1>3 DEF WriterInv
<1>5. st'[p] \in Writing \cup Reading => hdr'[p].init
  BY <1>3 DEF WriterInv, GoodHdr
<1>6. idx'.a.init => idx'.a.txn = com'
  BY <1>1 DEF WriterInv
<1> QED BY <1>1, <1>2, <1>4, <1>5, <1>6, WriterStep

(* Recovery publishes what it found, when nobody writes. *)
LEMMA WriterRecover ==
  ASSUME WalTypeInv, WriterInv, NEW p \in Proc, Recover(p) PROVE WriterInv'
<1>1. UNCHANGED <<st, hdr>> /\ wlock = Nobody /\ com' = RecoveredTxn(log)
      /\ idx'.a.txn = RecoveredTxn(log) /\ st[p] \in {"OPEN", "CKPT"}
  BY DEF Recover
<1>2. \A q \in Proc : st[q] \notin Writing
  BY <1>1, OneWriter DEF Writing
<1> QED BY <1>1, <1>2 DEF WriterInv

(* A transaction begins on the header that is the last one: hdr = idx.a. *)
LEMMA WriterBegin ==
  ASSUME WalTypeInv, WriterInv, NEW p \in Proc, BeginWrite(p) PROVE WriterInv'
<1>1. /\ wlock = Nobody /\ wlock' = p /\ UNCHANGED <<idx, hdr, com>> /\ hdr[p] = idx.a
      /\ st[p] = "READER" /\ Goto(p, "WRITER")
  BY DEF BeginWrite
<1>2. st'[p] = "WRITER" /\ \A q \in Proc : q # p => st'[q] = st[q]
  BY <1>1, GotoOK, PlacesIn DEF WalTypeInv
<1>3. \A q \in Proc : q # p => st[q] \notin Writing
  BY <1>1, OneWriter
<1>4. hdr[p].init
  BY <1>1 DEF WriterInv, Reading
<1>5. idx.a.init => idx.a.txn = com
  BY DEF WriterInv
<1> QED BY <1>1, <1>2, <1>3, <1>4, <1>5, WriterStep

(* Setting the log back to frame 0 keeps the transaction the header stands for. *)
LEMMA WriterRestart ==
  ASSUME WalTypeInv, WriterInv, NEW p \in Proc, RestartLog(p) \/ RestartHdr(p)
  PROVE  WriterInv'
<1>1. /\ st[p] \in Writing /\ st[p] \notin {"COMMIT", "COMMIT_A"}
      /\ UNCHANGED <<wlock, com, txn>>
  BY DEF RestartLog, RestartHdr, Writing, locks, hist
<1>2. /\ \A q \in Proc : q # p => st'[q] = st[q] /\ hdr'[q] = hdr[q]
      /\ st'[p] \in Writing /\ st'[p] \notin {"COMMIT", "COMMIT_A"}
  BY DEF WalTypeInv, ProcOK, Goto, RestartLog, RestartHdr, Writing
<1>3. \A q \in Proc : q # p => st[q] \notin Writing
  BY <1>1, OneWriter
<1>4. wlock = p /\ idx.a.init /\ hdr[p].init /\ hdr[p].txn = com /\ idx.a.txn = com
  BY <1>1 DEF WriterInv
<1>5. hdr'[p].txn = hdr[p].txn /\ hdr'[p].init = hdr[p].init
  <2>1. hdr \in [Proc -> HeaderT]
    BY DEF WalTypeInv, ProcOK
  <2>2. hdr' = hdr \/ hdr' = [hdr EXCEPT ![p] = [hdr[p] EXCEPT !.mx = 0, !.salt = txn]]
    BY DEF RestartLog, RestartHdr
  <2> QED BY <2>1, <2>2 DEF HeaderT
<1>6. idx'.a = idx.a \/ idx'.a = hdr[p]
  BY DEF WalTypeInv, IndexT, RestartLog, RestartHdr
<1>7. idx'.a.init /\ idx'.a.txn = com'
  BY <1>1, <1>4, <1>6
<1> QED BY <1>1, <1>2, <1>3, <1>4, <1>5, <1>7, WriterStep

LEMMA WriterFrame ==
  ASSUME WalTypeInv, WriterInv, NEW p \in Proc, NEW pg \in Page, NEW commit \in BOOLEAN,
         NEW fresh \in BOOLEAN, WriteFrame(p, pg, commit, fresh)
  PROVE  WriterInv'
<1>1. /\ st[p] = "WRITER" /\ UNCHANGED <<wlock, com, txn>> /\ idx'.a = idx.a
      /\ Goto(p, IF commit THEN "COMMIT" ELSE "WRITER")
  BY DEF WriteFrame, locks, WalTypeInv, IndexT
<1>2. /\ st'[p] = (IF commit THEN "COMMIT" ELSE "WRITER")
      /\ \A q \in Proc : q # p => st'[q] = st[q]
  BY <1>1, GotoOK, PlacesIn DEF WalTypeInv
<1>3. /\ hdr'[p].txn = (IF commit THEN txn ELSE hdr[p].txn) /\ hdr'[p].init = hdr[p].init
      /\ \A q \in Proc : q # p => hdr'[q] = hdr[q]
  BY WriteFrameHdr
<1>4. wlock = p /\ idx.a.init /\ hdr[p].init /\ hdr[p].txn = com /\ idx.a.txn = com
  BY <1>1 DEF WriterInv, Writing
<1> QED BY <1>1, <1>2, <1>3, <1>4, WriterStep

(* The commit: the header that becomes visible stands for the transaction. *)
LEMMA WriterEnd ==
  ASSUME WalTypeInv, WriterInv, NEW p \in Proc, PublishA(p) \/ Rollback(p)
  PROVE  WriterInv'
<1>1. /\ st[p] \in Writing /\ st'[p] = "READER" /\ \A q \in Proc : q # p => st'[q] = st[q]
  BY DEF PublishA, Rollback, WalTypeInv, ProcOK, Goto, Writing
<1>2. wlock = p /\ idx.a.init /\ hdr[p].init /\ idx.a.txn = com
  BY <1>1 DEF WriterInv
<1>3. \A q \in Proc : q # p => st[q] \notin Writing /\ hdr'[q] = hdr[q]
  <2>1. \A q \in Proc : q # p => hdr'[q] = hdr[q]
    BY DEF PublishA, Rollback, WalTypeInv, ProcOK
  <2> QED BY <1>1, <2>1, OneWriter
<1>4. CASE PublishA(p)
  <2>1. idx'.a = hdr[p] /\ hdr'[p] = hdr[p] /\ com' = txn /\ st[p] = "COMMIT_A"
    BY <1>4 DEF PublishA, WalTypeInv, IndexT
  <2>2. hdr[p].txn = txn
    BY <2>1 DEF WriterInv, Writing
  <2> QED BY <1>1, <1>2, <1>3, <2>1, <2>2, WriterStep DEF Writing
<1>5. CASE Rollback(p)
  <2>1. idx'.a = idx.a /\ hdr'[p] = idx.a /\ com' = com
    BY <1>5 DEF Rollback, WalTypeInv, IndexT, ProcOK, hist
  <2> QED BY <1>1, <1>2, <1>3, <2>1, WriterStep DEF Writing
<1> QED BY <1>4, <1>5

LEMMA WriterCkpt ==
  ASSUME WalTypeInv, WriterInv, NEW p \in Proc,
         \/ \E mode \in CkptModes : Checkpoint(p, mode)
         \/ CkptDone(p) \/ CkptMark(p) \/ \E f \in Frame : Backfill(p, f)
  PROVE  WriterInv'
<1>1. idx'.a = idx.a /\ com' = com /\ txn' = txn
  BY DEF Checkpoint, CkptDone, CkptMark, Backfill, WalTypeInv, IndexT, hist
<1>2. \A q \in Proc : q # p => st'[q] = st[q] /\ hdr'[q] = hdr[q]
  BY DEF Checkpoint, CkptDone, CkptMark, Backfill, WalTypeInv, ProcOK, Goto
<1>3. st'[p] \notin Writing \cup Reading
  BY DEF Checkpoint, CkptDone, CkptMark, Backfill, WalTypeInv, ProcOK, Goto, Writing, Reading
<1>4. \/ wlock' = wlock \/ wlock \in {p, Nobody}
  BY DEF Checkpoint, CkptDone, CkptMark, Backfill, locks
<1>5. \A q \in Proc : q # p /\ st[q] \in Writing => wlock' = wlock
  BY <1>4, OneWriter
<1>6. idx.a.init => idx.a.txn = com
  BY DEF WriterInv
<1> QED BY <1>1, <1>2, <1>3, <1>5, <1>6, WriterStep

(* Deaths and rebirths.  The wal-index is emptied only when nobody is there. *)
LEMMA WriterCrash ==
  ASSUME WalTypeInv, WriterInv, NEW p \in Proc, Crash(p) \/ Open(p) \/ Close(p)
  PROVE  WriterInv'
<1>1. \A q \in Proc : q # p => st'[q] = st[q] /\ hdr'[q] = hdr[q]
  BY DEF Crash, Open, Close, WalTypeInv, ProcOK, Goto
<1>2. st'[p] \notin Writing \cup Reading
  BY DEF Crash, Open, Close, WalTypeInv, ProcOK, Goto, Writing, Reading
<1>3. com' = com /\ txn' = txn
  BY DEF Crash, Open, Close, hist
<1>4. idx'.a = idx.a \/ (idx' = NoIdx /\ \A q \in Proc : q # p => st[q] = "DEAD")
  BY DEF Crash, Open, Close
<1>5. \A q \in Proc : q # p /\ st[q] \in Writing => wlock' = wlock /\ idx'.a = idx.a
  <2>1. \A q \in Proc : q # p /\ st[q] \in Writing => wlock = q /\ st[q] # "DEAD"
    BY DEF WriterInv, Writing
  <2>2. wlock' = wlock \/ wlock = p
    BY DEF Crash, Open, Close, locks
  <2> QED BY <1>4, <2>1, <2>2
<1>6. idx'.a.init => idx'.a.txn = com'
  BY <1>3, <1>4 DEF WriterInv, NoIdx, NoHdr
<1> QED BY <1>1, <1>2, <1>3, <1>5, <1>6, WriterStep

LEMMA WriterNext == WalTypeInv /\ WriterInv /\ [Next]_vars => WriterInv'
<1> SUFFICES ASSUME WalTypeInv, WriterInv, [Next]_vars PROVE WriterInv'
  OBVIOUS
<1>1. CASE PowerLoss
  <2>1. st' = [p \in Proc |-> "DEAD"] /\ idx' = NoIdx
    BY <1>1 DEF PowerLoss
  <2> QED BY <2>1 DEF WriterInv, Writing, Reading, NoIdx, NoHdr
<1>2. CASE UNCHANGED vars
  BY <1>2 DEF vars, hist, locks, WriterInv
<1>3. ASSUME NEW p \in Proc, NEW pg \in Page, NEW commit \in BOOLEAN, NEW fresh \in BOOLEAN,
             WriteFrame(p, pg, commit, fresh)
      PROVE  WriterInv'
  BY <1>3, WriterFrame
<1>4. ASSUME NEW p \in Proc,
             \/ ReadHdr(p) \/ Recover(p) \/ BeginRead0(p) \/ ChooseMark(p) \/ LockMark(p)
             \/ EndRead(p) \/ BeginWrite(p) \/ RestartLog(p) \/ RestartHdr(p) \/ RestartReset(p)
             \/ PublishB(p) \/ PublishA(p) \/ Rollback(p)
      PROVE  WriterInv'
  BY <1>4, WriterQuiet, WriterRecover, WriterBegin, WriterRestart, WriterEnd
<1>5. ASSUME NEW p \in Proc,
             \/ \E mode \in CkptModes : Checkpoint(p, mode)
             \/ CkptHdr(p) \/ CkptBusy(p) \/ CkptStart(p) \/ CkptMark(p) \/ CkptLock0(p)
             \/ \E f \in Frame : Backfill(p, f)
             \/ CkptEnd(p) \/ CkptDone(p) \/ Crash(p) \/ Open(p) \/ Close(p)
      PROVE  WriterInv'
  BY <1>5, WriterQuiet, WriterCkpt, WriterCrash
<1> QED BY <1>1, <1>2, <1>3, <1>4, <1>5 DEF Next

(* No lost update, for any number of processes and whatever dies when: the    *)
(* transaction that holds the write lock adds to the last commit.  The proof  *)
(* does not need the overrun that the statement excludes.                     *)
THEOREM UpdatesNotLost == Spec => []NoLostUpdate
<1>1. Init => WriterInv
  BY DEF Init, WriterInv, Writing, Reading, NoIdx, NoHdr
<1>2. WriterInv => NoLostUpdate
  BY DEF WriterInv, NoLostUpdate, Writing
<1> QED BY <1>1, <1>2, WriterNext, WalTypeInvariant, PTL DEF Spec

-------------------------------------------------------------------------------
(* What the log holds.  The checksum of a frame covers the list of the frames *)
(* up to it, so such a list says what the pages are after its n entries: the  *)
(* state S, over the state B the log starts from.                             *)

Links(l) == [j \in Frame |-> Link(l.frame[j])]

Unseen(sum, pg, n) == \A j \in 1..n : sum[j][1] # pg
LastIn(sum, j, n)  == \A k \in (j + 1)..n : sum[k][1] # sum[j][1]

Shows(S, B, sum, n) ==
  \A pg \in Page :
    /\ Unseen(sum, pg, n) => S[pg] = B[pg]
    /\ \A j \in 1..n : sum[j][1] = pg /\ LastIn(sum, j, n) => S[pg] = sum[j][2]

(* The frames lo+1..hi of l that are the last of their page up to m are in d. *)
Copied(d, l, lo, hi, m) ==
  \A f \in Frame : lo < f /\ f <= hi /\ LastIn(Links(l), f, m) =>
    d[l.frame[f].pg] = l.frame[f].v

PgnoOK(g, l, m) == \A j \in 1..m : g[j] = l.frame[j].pg

LEMMA LinkParts == \A fr : Link(fr)[1] = fr.pg /\ Link(fr)[2] = fr.v /\ Link(fr)[3] = fr.commit
  BY DEF Link

LEMMA LinksAt ==
  ASSUME NEW l, NEW f \in Frame
  PROVE  Links(l)[f] = Link(l.frame[f]) /\ Links(l)[f][1] = l.frame[f].pg
         /\ Links(l)[f][2] = l.frame[f].v
  BY LinkParts DEF Links

LEMMA InFrame == \A m \in 0..MaxFrame : \A j \in 1..m : j \in Frame /\ j \in Nat
  BY WalAssumption DEF Frame

LEMMA ShowsSame ==
  ASSUME NEW S, NEW B, NEW n \in Nat, NEW s, NEW u, \A j \in 1..n : u[j] = s[j],
         Shows(S, B, s, n)
  PROVE  Shows(S, B, u, n)
<1>1. \A pg : Unseen(u, pg, n) => Unseen(s, pg, n)
  BY DEF Unseen
<1>2. ASSUME NEW j \in 1..n, LastIn(u, j, n) PROVE LastIn(s, j, n)
  <2>1. \A k \in (j + 1)..n : k \in 1..n
    OBVIOUS
  <2> QED BY <1>2, <2>1 DEF LastIn
<1> QED BY <1>1, <1>2 DEF Shows

LEMMA ShowsBase ==
  ASSUME NEW S, NEW B, NEW C, NEW n, NEW s, Shows(S, B, s, n),
         \A pg \in Page : Unseen(s, pg, n) => C[pg] = B[pg]
  PROVE  Shows(S, C, s, n)
  BY DEF Shows

LEMMA ShowsNone ==
  ASSUME NEW S, NEW B, NEW s
  PROVE  Shows(S, B, s, 0) <=> \A pg \in Page : S[pg] = B[pg]
<1>1. \A pg : Unseen(s, pg, 0)
  BY DEF Unseen
<1>2. \A j \in 1..0 : FALSE
  OBVIOUS
<1> QED BY <1>1, <1>2 DEF Shows

LEMMA ShowsAppend ==
  ASSUME NEW S, NEW R, NEW B, NEW n \in Nat, NEW s, NEW u, \A j \in 1..n : u[j] = s[j],
         Shows(S, B, s, n), NEW pg \in Page, u[n + 1][1] = pg,
         R[pg] = u[n + 1][2], \A q \in Page : q # pg => R[q] = S[q]
  PROVE  Shows(R, B, u, n + 1)
<1>0. \A j \in 1..n : j \in 1..(n + 1)
  OBVIOUS
<1>00. n + 1 \in 1..(n + 1) /\ \A j \in 1..(n + 1) : j = n + 1 \/ j \in 1..n
  OBVIOUS
<1>1. ASSUME NEW q \in Page, Unseen(u, q, n + 1) PROVE R[q] = B[q]
  <2>1. q # pg
    BY <1>1, <1>00 DEF Unseen
  <2>2. Unseen(s, q, n)
    BY <1>1, <1>0 DEF Unseen
  <2> QED BY <2>1, <2>2 DEF Shows
<1>2. ASSUME NEW j \in 1..(n + 1), NEW q \in Page, u[j][1] = q, LastIn(u, j, n + 1)
      PROVE  R[q] = u[j][2]
  <2>1. CASE j = n + 1
    BY <1>2, <2>1
  <2>2. CASE j \in 1..n
    <3>1. n + 1 \in (j + 1)..(n + 1) /\ \A k \in (j + 1)..n : k \in 1..n /\ k \in (j + 1)..(n + 1)
      BY <2>2
    <3>2. q # pg
      BY <1>2, <3>1 DEF LastIn
    <3>3. LastIn(s, j, n)
      BY <1>2, <2>2, <3>1 DEF LastIn
    <3>4. S[q] = s[j][2]
      BY <1>2, <2>2, <3>3 DEF Shows
    <3> QED BY <2>2, <3>2, <3>4
  <2> QED BY <1>00, <2>1, <2>2
<1> QED BY <1>1, <1>2 DEF Shows

(* A checkpoint of the frames after from, of which the earlier ones are done, *)
(* gives the state the log stands for; a lookup is the case of none done.     *)
LEMMA BackfilledIs ==
  ASSUME NEW S \in [Page -> 0..MaxTxn], NEW B, NEW d, NEW l, NEW g, NEW from \in 0..MaxFrame,
         NEW m \in 0..MaxFrame, Shows(S, B, Links(l), m), PgnoOK(g, l, m),
         \A pg \in Page : Unseen(Links(l), pg, m) => d[pg] = B[pg],
         Copied(d, l, 0, from, m)
  PROVE  Backfilled(d, l, g, from, m) = S
<1> SUFFICES ASSUME NEW pg \in Page
             PROVE  (IF FindFrame(g, pg, m) <= from THEN d[pg] ELSE l.frame[FindFrame(g, pg, m)].v) = S[pg]
  BY DEF Backfilled
<1> DEFINE f == FindFrame(g, pg, m)
<1>1. /\ f \in 0..MaxFrame
      /\ f # 0 => f \in Frame /\ f <= m /\ g[f] = pg
      /\ \A k \in Frame : k <= m /\ g[k] = pg => k <= f
  BY FindFrameIn
<1> HIDE DEF f
<1>2. \A k \in 1..m : k \in Frame /\ k <= m /\ k \in Nat /\ Links(l)[k][1] = g[k] /\ Links(l)[k][2] = l.frame[k].v
  BY LinksAt, InFrame DEF PgnoOK
<1>3. CASE f = 0
  <2>1. Unseen(Links(l), pg, m)
    BY <1>1, <1>2, <1>3 DEF Unseen
  <2>2. d[pg] = S[pg]
    BY <2>1 DEF Shows
  <2> QED BY <1>3, <2>2 DEF f
<1>4. CASE f # 0
  <2>1. f \in 1..m /\ f \in Frame /\ g[f] = pg /\ 0 < f
    BY <1>1, <1>4
  <2>2. \A k \in (f + 1)..m : k \in 1..m /\ ~(k <= f)
    BY <2>1
  <2>3. LastIn(Links(l), f, m)
    <3>1. \A k \in (f + 1)..m : g[k] # pg
      BY <1>1, <1>2, <2>2
    <3> QED BY <1>2, <2>1, <2>2, <3>1 DEF LastIn
  <2>4. S[pg] = l.frame[f].v
    BY <1>2, <2>1, <2>3 DEF Shows
  <2>5. l.frame[f].pg = pg
    BY <2>1 DEF PgnoOK
  <2>6. f <= from => d[pg] = l.frame[f].v
    BY <2>1, <2>3, <2>5 DEF Copied
  <2> QED BY <2>4, <2>6 DEF f
<1> QED BY <1>3, <1>4

LEMMA OverlayIs ==
  ASSUME NEW S \in [Page -> 0..MaxTxn], NEW B, NEW d, NEW l, NEW g,
         NEW m \in 0..MaxFrame, Shows(S, B, Links(l), m), PgnoOK(g, l, m),
         \A pg \in Page : Unseen(Links(l), pg, m) => d[pg] = B[pg]
  PROVE  Overlay(d, l, g, m) = S
<1>1. 0 \in 0..MaxFrame
  BY WalAssumption
<1>2. Copied(d, l, 0, 0, m)
  BY DEF Copied, Frame
<1> QED BY <1>1, <1>2, BackfilledIs DEF Overlay

(* When all of the log has been copied the database is that state. *)
LEMMA AllCopied ==
  ASSUME NEW S \in [Page -> 0..MaxTxn], NEW B, NEW d \in [Page -> 0..MaxTxn], NEW l, NEW g,
         NEW m \in 0..MaxFrame, Shows(S, B, Links(l), m), PgnoOK(g, l, m),
         \A pg \in Page : Unseen(Links(l), pg, m) => d[pg] = B[pg],
         Copied(d, l, 0, m, m)
  PROVE  d = S
<1>1. Backfilled(d, l, g, m, m) = S
  BY BackfilledIs
<1>2. \A pg : FindFrame(g, pg, m) <= m
  <2> SUFFICES ASSUME NEW pg PROVE FindFrame(g, pg, m) <= m
    OBVIOUS
  <2>1. /\ FindFrame(g, pg, m) \in 0..MaxFrame
        /\ FindFrame(g, pg, m) # 0 => FindFrame(g, pg, m) <= m
    BY FindFrameIn
  <2> QED BY <2>1
<1>3. Backfilled(d, l, g, m, m) = d
  BY <1>2 DEF Backfilled
<1> QED BY <1>1, <1>3

-------------------------------------------------------------------------------
(* The inductive invariant.  A is the number of frames a loss of power cannot *)
(* take: up to it the log on the disk is valid and ends in a commit, and only *)
(* pages of these frames may differ from the state the log starts from.       *)

(* A frame's checksum ends in the frame, and nothing in it is newer. *)
FrameOK(fr, i, t) ==
  /\ fr.v <= t /\ fr.salt <= t
  /\ fr.salt # 0 => /\ Len(fr.sum) = i /\ fr.sum[i] = Link(fr) /\ fr.pg \in Page
                    /\ \A j \in 1..i : fr.sum[j][2] <= fr.v
FramesOK(l, t) == l.salt <= t /\ \A i \in Frame : FrameOK(l.frame[i], i, t)

(* A commit that follows the first A frames of k, wherever its frame is found, *)
(* has the state that was recorded for it.                                     *)
Extends(fr, A, k) == \A j \in 1..A : fr.sum[j] = Link(k.frame[j])
CommitOK(fr, i, b, S) == fr.v >= b /\ (fr.commit => Shows(S[fr.v], S[b], fr.sum, i))
CommitsOK(l, s, A, k, b, S) ==
  \A i \in Frame : l.frame[i].salt = s /\ s # 0 /\ i >= A /\ Extends(l.frame[i], A, k) =>
    CommitOK(l.frame[i], i, b, S)

CommitFrame(l, f) == f \in Frame /\ Valid(l, f) /\ l.frame[f].commit
Same(l, k, n)     == \A j \in 1..n : l.frame[j] = k.frame[j]
AtBase(dl, B)     == \A pg \in Page : dl[pg] = {B[pg]}

SaltsOK(l, k) ==
  /\ l # NoLog => l.salt = k.salt
  /\ l.salt = 0 => l = NoLog
  /\ k.salt = 0 => k = NoLog
AnchorOK(A, l, k) == A > 0 => CommitFrame(k, A) /\ (l # NoLog => Same(l, k, A))
LossOK(A, d, dl, k, B) ==
  \A pg \in Page : d[pg] \in dl[pg] /\ (Unseen(Links(k), pg, A) => dl[pg] = {B[pg]})

(* The log l over the database d, as they are and as a loss of power leaves them. *)
LogCore(A, d, dl, l, k, t, b, S) ==
  /\ FramesOK(l, t) /\ FramesOK(k, t)
  /\ SaltsOK(l, k) /\ AnchorOK(A, l, k)
  /\ CommitsOK(l, k.salt, A, k, b, S) /\ CommitsOK(k, k.salt, A, k, b, S)
  /\ LossOK(A, d, dl, k, S[b])
  /\ l = NoLog => AtBase(dl, S[b])

(* Where the last commit is. *)
SyncOK(l, k)   == FullSync => \A f \in Frame : CommitFrame(l, f) => Same(l, k, f)
ComIn(l, c)    == \E f \in Frame : CommitFrame(l, f) /\ l.frame[f].v = c
ComOK(l, k, c, b, t) ==
  /\ b <= c /\ c <= t /\ (l = NoLog => b = c) /\ SyncOK(l, k) /\ (c = b \/ ComIn(l, c))

LogInv(A) == LogCore(A, db, dbLoss, log, logDisk, txn, base, state)
             /\ ComOK(log, logDisk, com, base, txn)

(* The header h of the wal-index, its page numbers g and nBackfill n. *)
HdrFull(A, h, g, l, c) ==
  h.mx > 0 => /\ l.salt = h.salt /\ A <= h.mx /\ CommitFrame(l, h.mx)
              /\ l.frame[h.mx].v = c /\ h.sum = l.frame[h.mx].sum /\ PgnoOK(g, l, h.mx)
HdrEmpty(h, dl, l, c, b, S) ==
  h.mx = 0 => b = c /\ AtBase(dl, S[b]) /\ CommitsOK(l, h.salt, 0, l, b, S)
BackOK(n, m, d, dl, l) ==
  /\ n <= m /\ (n = m => \A pg \in Page : dl[pg] = {d[pg]})
  /\ Copied(d, l, 0, n, m)

Resetting  == \E p \in Proc : st[p] = "RESTART"
Restarting == \E p \in Proc : st[p] \in {"RESTART_A", "RESTART"}
Active     == \E p \in Proc : st[p] \in Writing

IdxInv(A) == idx.a.init =>
  /\ HdrFull(A, idx.a, idx.pgno, log, com)
  /\ HdrEmpty(idx.a, dbLoss, log, com, base, state)
  /\ idx.nBackfill <= A /\ idx.a.salt <= txn
  /\ ~Resetting => BackOK(idx.nBackfill, idx.a.mx, db, dbLoss, log)

(* A write transaction t that has written the pages W. *)
Older(l, lo, t)   == \A i \in Frame : i > lo /\ l.frame[i].salt # 0 =>
                       \A j \in 1..i : l.frame[i].sum[j][2] < t
Untouched(l, t)   == Older(l, 0, t) /\ \A i \in Frame : l.frame[i].salt < t
NoCommitOf(l, t)  == \A i \in Frame : l.frame[i].commit => l.frame[i].v < t
After(S, c, t, W) == [q \in Page |-> IF q \in W THEN t ELSE S[c][q]]
Added(A, h, m, g, l, t, W, c, b, S) ==
  /\ h.mx > m /\ A <= m
  /\ l.salt = h.salt /\ Valid(l, h.mx) /\ h.sum = l.frame[h.mx].sum /\ l.frame[h.mx].v = t
  /\ PgnoOK(g, l, h.mx) /\ Older(l, h.mx, t)
  /\ S[t] = After(S, c, t, W) /\ Shows(S[t], S[b], h.sum, h.mx)

Begun(p) == hdr[p] = IF st[p] = "RESTART_A" THEN [idx.a EXCEPT !.mx = 0, !.salt = txn] ELSE idx.a
RestartOK(p) ==
  /\ rlock[p] = 0 /\ \A i \in Slot : xlock[i] = p
  /\ base = com /\ AtBase(dbLoss, state[base])
  /\ st[p] = "RESTART_A" => idx.nBackfill = idx.a.mx
  /\ st[p] = "RESTART" => idx.a.mx = 0

WrtInv(A, p) == st[p] \in Writing =>
  /\ com < txn /\ (idx.a.salt = txn => idx.a.mx = 0)
  /\ st[p] \notin {"COMMIT", "COMMIT_A"} => NoCommitOf(log, txn) /\ NoCommitOf(logDisk, txn)
  /\ wrote = {} => Begun(p) /\ Untouched(log, txn)
  /\ wrote # {} => /\ st[p] \in {"WRITER", "COMMIT", "COMMIT_A"} /\ rlock[p] \in Slot
                   /\ hdr[p].salt \in {idx.a.salt, txn}
                   /\ Added(A, hdr[p], idx.a.mx, idx.pgno, log, txn, wrote, com, base, state)
  /\ st[p] \in {"COMMIT", "COMMIT_A"} => wrote # {} /\ log.frame[hdr[p].mx].commit
  /\ st[p] \in {"RESTART_A", "RESTART"} => RestartOK(p)
  /\ st[p] \in {"WRITER_HDR", "WRITER_MARK"} => rlock[p] = -1

(* A reader: with read lock 0 the database, otherwise the log up to its header. *)
Holding == {"READER", "WRITER", "RESTART_A", "RESTART", "COMMIT", "COMMIT_A"}
SlotView(h, d, l, b, S) ==
  /\ Shows(S[h.txn], S[b], Links(l), h.mx)
  /\ \A pg \in Page : Unseen(Links(l), pg, h.mx) => d[pg] = S[b][pg]

RdInv(p) ==
  /\ hdr[p].salt <= txn
  /\ rlock[p] # -1 => st[p] \in Holding /\ idx.a.init
  /\ st[p] = "READER" => rlock[p] # -1 /\ hdr[p].txn <= com
  /\ st[p] \in {"MARK", "WRITER_MARK"} => pick[p][1] \in Slot /\ pick[p][2] <= hdr[p].mx
  /\ rlock[p] \in Slot => idx.mark[rlock[p]] <= hdr[p].mx /\ idx.mark[rlock[p]] <= idx.a.mx
  /\ rlock[p] = 0 => /\ db = state[hdr[p].txn] /\ hdr[p].txn <= com
                     /\ hdr[p] = idx.a /\ ~Resetting => idx.nBackfill = idx.a.mx
  /\ rlock[p] \in Slot /\ st[p] = "READER" =>
       hdr[p].mx <= idx.a.mx /\ SlotView(hdr[p], db, log, base, state)

(* The checkpoint.  Its frames stay where they are as long as one of them is  *)
(* not in the database: no writer can start the log over before.              *)
ReadersSafe(i, safe) ==
  \A r \in Proc : rlock[r] \in Slot /\ rlock[r] < i /\ st[r] = "READER" => safe <= hdr[r].mx
TodoLast(l, m, todo) == \A f \in todo : f <= m /\ LastIn(Links(l), f, m)
TodoOK(l, m, todo) ==
  \A f \in Frame : f <= m /\ LastIn(Links(l), f, m) => f \in todo
DoneOK(d, l, m, lo, hi, todo) ==
  \A f \in Frame : lo < f /\ f <= hi /\ LastIn(Links(l), f, m) /\ f \notin todo =>
    d[l.frame[f].pg] = l.frame[f].v

CkInv(A, p) ==
  /\ st[p] \in Copying => ckpt = p
  /\ st[p] = "CKPT_HDR" =>
       /\ idx.a.init
       /\ hdr[p].salt = idx.a.salt =>
            hdr[p].mx <= idx.a.mx /\ (hdr[p].mx > 0 => log.frame[hdr[p].mx].commit)
       /\ Active /\ hdr[p].salt = txn => hdr[p].mx = 0
  /\ st[p] \in {"CKPT_MARKS", "BACKFILL"} =>
       /\ idx.a.init /\ 0 < hdr[p].mx /\ hdr[p].mx <= idx.a.mx /\ log.frame[hdr[p].mx].commit
       /\ idx.nBackfill < hdr[p].mx /\ ck.safe <= hdr[p].mx
       /\ ~Restarting /\ ReadersSafe(ck.i, ck.safe)
       /\ ck.i <= NReader /\ TodoLast(log, hdr[p].mx, ck.todo)
  /\ st[p] = "CKPT_MARKS" => TodoOK(log, hdr[p].mx, ck.todo)
  /\ st[p] = "BACKFILL" =>
       /\ ck.i = NReader /\ xlock[0] = p /\ hdr[p].mx <= A /\ ck.from = idx.nBackfill
       /\ DoneOK(db, log, hdr[p].mx, ck.from, ck.safe, ck.todo)

ProcInv(A, p) == WrtInv(A, p) /\ RdInv(p) /\ CkInv(A, p)
WalInv(A)     == LogInv(A) /\ IdxInv(A) /\ \A p \in Proc : ProcInv(A, p)

SnapshotInv == ~overrun => \E A \in 0..MaxFrame : WalInv(A)

-------------------------------------------------------------------------------
(* What the parts of the invariant say of a log. *)

LEMMA ValidPart ==
  ASSUME NEW l, NEW n, Valid(l, n), NEW i \in 1..n
  PROVE  /\ l.salt # 0 /\ l.frame[i].salt = l.salt
         /\ \A j \in 1..i : l.frame[i].sum[j] = Link(l.frame[j])
  BY DEF Valid

LEMMA ValidPrefix ==
  ASSUME NEW l, NEW n \in Int, Valid(l, n), NEW m \in Int, m <= n
  PROVE  Valid(l, m)
<1>1. \A i \in 1..m : i \in 1..n
  OBVIOUS
<1> QED BY <1>1 DEF Valid

LEMMA ValidSame ==
  ASSUME NEW l, NEW k, NEW n \in Int, Same(l, k, n), l.salt = k.salt, Valid(l, n)
  PROVE  Valid(k, n)
<1> SUFFICES ASSUME NEW i \in 1..n
             PROVE  /\ k.salt # 0 /\ k.frame[i].salt = k.salt
                    /\ k.frame[i].sum = [j \in 1..i |-> Link(k.frame[j])]
  BY DEF Valid
<1>1. l.salt # 0 /\ l.frame[i].salt = l.salt /\ l.frame[i].sum = [j \in 1..i |-> Link(l.frame[j])]
  BY DEF Valid
<1>2. \A j \in 1..i : j \in 1..n
  OBVIOUS
<1>3. k.frame[i] = l.frame[i] /\ \A j \in 1..i : k.frame[j] = l.frame[j]
  BY <1>2 DEF Same
<1>4. [j \in 1..i |-> Link(l.frame[j])] = [j \in 1..i |-> Link(k.frame[j])]
  BY <1>3
<1> QED BY <1>1, <1>3, <1>4

LEMMA SameSym ==
  ASSUME NEW l, NEW k, NEW n PROVE Same(l, k, n) <=> Same(k, l, n)
  BY DEF Same

LEMMA SamePrefix ==
  ASSUME NEW l, NEW k, NEW n \in Int, Same(l, k, n), NEW m \in Int, m <= n PROVE Same(l, k, m)
<1>1. \A i \in 1..m : i \in 1..n
  OBVIOUS
<1> QED BY <1>1 DEF Same

LEMMA CommitFrameSame ==
  ASSUME NEW l, NEW k, NEW f \in Frame, Same(l, k, f), l.salt = k.salt, CommitFrame(l, f)
  PROVE  CommitFrame(k, f)
<1>1. f \in 1..f /\ f \in Int
  BY DEF Frame
<1>2. k.frame[f] = l.frame[f]
  BY <1>1 DEF Same
<1>3. Valid(k, f)
  BY <1>1, ValidSame DEF CommitFrame
<1> QED BY <1>2, <1>3 DEF CommitFrame

(* Only a log with a header has valid frames. *)
LEMMA ValidHasLog ==
  ASSUME NEW l, NEW f \in Frame, Valid(l, f) PROVE l.salt # 0 /\ l # NoLog
<1>1. f \in 1..f
  BY DEF Frame
<1>2. l.salt # 0
  BY <1>1 DEF Valid
<1>3. NoLog.salt = 0
  BY DEF NoLog
<1> QED BY <1>2, <1>3

LEMMA ExtendsOf ==
  ASSUME NEW l, NEW k, NEW m \in Frame, NEW A \in Nat, A <= m, Same(l, k, A), Valid(l, m)
  PROVE  Extends(l.frame[m], A, k)
<1>1. m \in 1..m /\ \A j \in 1..A : j \in 1..m
  BY DEF Frame
<1>2. \A j \in 1..m : l.frame[m].sum[j] = Link(l.frame[j])
  BY <1>1, ValidPart
<1> QED BY <1>1, <1>2 DEF Extends, Same

(* The list of a valid frame is that of the log. *)
LEMMA ShowsLinks ==
  ASSUME NEW l, NEW m \in Frame, Valid(l, m), NEW S, NEW B
  PROVE  Shows(S, B, l.frame[m].sum, m) <=> Shows(S, B, Links(l), m)
<1>1. m \in 1..m /\ m \in Nat /\ m \in 0..MaxFrame
  BY DEF Frame
<1>2. \A j \in 1..m : l.frame[m].sum[j] = Links(l)[j] /\ Links(l)[j] = l.frame[m].sum[j]
  BY <1>1, ValidPart, LinksAt, InFrame
<1> QED BY <1>1, <1>2, ShowsSame

(* A page that is not in the log up to a frame after A is not in the first A. *)
LEMMA UnseenAnchor ==
  ASSUME NEW l, NEW k, NEW m \in 0..MaxFrame, NEW A \in 0..MaxFrame, A <= m, Same(l, k, A),
         NEW pg, Unseen(Links(l), pg, m)
  PROVE  Unseen(Links(k), pg, A)
<1>1. \A j \in 1..A : j \in 1..m /\ j \in Frame
  BY InFrame
<1>2. \A j \in 1..A : Links(k)[j][1] = Links(l)[j][1]
  BY <1>1, LinksAt DEF Same
<1> QED BY <1>1, <1>2 DEF Unseen

LEMMA CoreCommit ==
  ASSUME NEW A \in 0..MaxFrame, NEW d, NEW dl, NEW l, NEW k, NEW t, NEW b, NEW S,
         LogCore(A, d, dl, l, k, t, b, S), NEW m, CommitFrame(l, m), A <= m
  PROVE  /\ l # NoLog /\ l.salt = k.salt /\ Same(l, k, A)
         /\ CommitOK(l.frame[m], m, b, S)
         /\ l.frame[m].v >= b
         /\ Shows(S[l.frame[m].v], S[b], Links(l), m)
         /\ \A pg \in Page : Unseen(Links(l), pg, m) => dl[pg] = {S[b][pg]} /\ d[pg] = S[b][pg]
<1>1. m \in Frame /\ m \in 0..MaxFrame /\ m \in 1..m /\ Valid(l, m) /\ l.frame[m].commit
  BY DEF CommitFrame, Frame
<1>2. l # NoLog /\ l.salt = k.salt /\ k.salt # 0 /\ l.frame[m].salt = k.salt
  BY <1>1, ValidHasLog, ValidPart DEF LogCore, SaltsOK
<1>3. Same(l, k, A)
  <2>1. CASE A = 0
    BY <2>1 DEF Same
  <2>2. CASE A > 0
    BY <1>2, <2>2 DEF LogCore, AnchorOK
  <2> QED BY <2>1, <2>2
<1>4. Extends(l.frame[m], A, k)
  BY <1>1, <1>3, ExtendsOf
<1>5. CommitOK(l.frame[m], m, b, S)
  <2>1. CommitsOK(l, k.salt, A, k, b, S) /\ m >= A
    BY <1>1 DEF LogCore
  <2> QED BY <1>1, <1>2, <1>4, <2>1 DEF CommitsOK
<1>6. Shows(S[l.frame[m].v], S[b], Links(l), m) /\ l.frame[m].v >= b
  BY <1>1, <1>5, ShowsLinks DEF CommitOK
<1>7. ASSUME NEW pg \in Page, Unseen(Links(l), pg, m) PROVE dl[pg] = {S[b][pg]} /\ d[pg] = S[b][pg]
  <2>1. Unseen(Links(k), pg, A)
    BY <1>1, <1>3, <1>7, UnseenAnchor
  <2> QED BY <2>1 DEF LogCore, LossOK
<1> QED BY <1>2, <1>3, <1>5, <1>6, <1>7

LEMMA LastAfterAnchor ==
  ASSUME NEW A \in 0..MaxFrame, NEW d, NEW dl, NEW l, NEW k, NEW t, NEW b, NEW S,
         LogCore(A, d, dl, l, k, t, b, S), l # NoLog
  PROVE  A <= LastCommit(l)
<1>1. CASE A = 0
  BY <1>1, LastCommitIn
<1>2. CASE A > 0
  <2>1. CommitFrame(k, A) /\ Same(k, l, A) /\ k.salt = l.salt /\ A \in Frame
    BY <1>2, SameSym DEF LogCore, AnchorOK, SaltsOK, CommitFrame
  <2>2. CommitFrame(l, A)
    BY <2>1, CommitFrameSame
  <2> QED BY <2>1, <2>2, LastCommitIn DEF CommitFrame
<1> QED BY <1>1, <1>2

LEMMA LastCommitFrame ==
  ASSUME NEW l
  PROVE  /\ LastCommit(l) \in 0..MaxFrame /\ (LastCommit(l) # 0 => CommitFrame(l, LastCommit(l)))
         /\ \A f \in Frame : CommitFrame(l, f) => f <= LastCommit(l) /\ LastCommit(l) # 0
<1>1. /\ LastCommit(l) \in 0..MaxFrame
      /\ LastCommit(l) # 0 =>
              /\ LastCommit(l) \in Frame /\ Valid(l, LastCommit(l))
              /\ l.frame[LastCommit(l)].commit
      /\ \A f \in Frame : Valid(l, f) /\ l.frame[f].commit => f <= LastCommit(l)
  BY LastCommitIn
<1> QED BY <1>1 DEF CommitFrame, Frame

(* What recovery finds, for the log l that starts from transaction b. *)
Found(l, b) == IF LastCommit(l) = 0 THEN b ELSE l.frame[LastCommit(l)].v

LEMMA CoreRecovers ==
  ASSUME NEW A \in 0..MaxFrame, NEW d, NEW dl, NEW l, NEW k, NEW t \in Nat, NEW b \in Nat, NEW S,
         LogCore(A, d, dl, l, k, t, b, S), b <= t
  PROVE  /\ Found(l, b) >= b /\ Found(l, b) <= t
         /\ Shows(S[Found(l, b)], S[b], Links(l), LastCommit(l))
         /\ \A pg \in Page : Unseen(Links(l), pg, LastCommit(l)) =>
              dl[pg] = {S[b][pg]} /\ d[pg] = S[b][pg]
<1> DEFINE L == LastCommit(l)
<1>1. L \in 0..MaxFrame /\ (L # 0 => CommitFrame(l, L))
  BY LastCommitFrame
<1>2. l # NoLog => A <= L
  BY LastAfterAnchor
<1> HIDE DEF L
<1>3. CASE L = 0
  <2>1. Found(l, b) = b
    BY <1>3 DEF Found, L
  <2>2. Shows(S[b], S[b], Links(l), L)
    BY <1>3, ShowsNone
  <2>3. ASSUME NEW pg \in Page PROVE dl[pg] = {S[b][pg]} /\ d[pg] = S[b][pg]
    <3>1. CASE l = NoLog
      BY <3>1 DEF LogCore, AtBase, LossOK
    <3>2. CASE l # NoLog
      <4>1. A = 0
        BY <1>2, <1>3, <3>2
      <4>2. Unseen(Links(k), pg, A)
        BY <4>1 DEF Unseen
      <4> QED BY <4>2 DEF LogCore, LossOK
    <3> QED BY <3>1, <3>2
  <2> QED BY <2>1, <2>2, <2>3 DEF L
<1>4. CASE L # 0
  <2>1. CommitFrame(l, L) /\ l # NoLog /\ L \in Frame
    BY <1>1, <1>4, ValidHasLog DEF CommitFrame
  <2>2. A <= L
    BY <1>2, <2>1
  <2>3. /\ l.frame[L].v >= b /\ Shows(S[l.frame[L].v], S[b], Links(l), L)
        /\ \A pg \in Page : Unseen(Links(l), pg, L) => dl[pg] = {S[b][pg]} /\ d[pg] = S[b][pg]
    BY <2>1, <2>2, CoreCommit
  <2>4. l.frame[L].v <= t
    BY <2>1 DEF LogCore, FramesOK, FrameOK
  <2>5. Found(l, b) = l.frame[L].v
    BY <1>4 DEF Found, L
  <2> QED BY <2>3, <2>4, <2>5 DEF L
<1> QED BY <1>3, <1>4

(* A later commit record is of a later transaction. *)
LEMMA CommitsGrow ==
  ASSUME NEW l, NEW t, FramesOK(l, t), NEW f \in Frame, NEW g \in Frame, f <= g, Valid(l, g)
  PROVE  l.frame[f].v <= l.frame[g].v
<1>1. g \in 1..g /\ f \in 1..g
  BY DEF Frame
<1>2. l.frame[g].sum[f] = Link(l.frame[f]) /\ l.frame[g].salt # 0
  BY <1>1, ValidPart
<1>3. l.frame[g].sum[f][2] <= l.frame[g].v
  BY <1>1, <1>2 DEF FramesOK, FrameOK
<1> QED BY <1>2, <1>3, LinkParts

LEMMA FoundIsLast ==
  ASSUME NEW A \in 0..MaxFrame, NEW d, NEW dl, NEW l, NEW k, NEW t \in Nat, NEW b \in Nat, NEW S,
         LogCore(A, d, dl, l, k, t, b, S), NEW c \in Nat, b <= t, c = b \/ ComIn(l, c)
  PROVE  Found(l, b) >= c
<1>1. CASE c = b
  BY <1>1, CoreRecovers
<1>2. CASE ComIn(l, c)
  <2>1. PICK f \in Frame : CommitFrame(l, f) /\ l.frame[f].v = c
    BY <1>2 DEF ComIn
  <2>2. f <= LastCommit(l) /\ LastCommit(l) # 0 /\ CommitFrame(l, LastCommit(l))
    BY <2>1, LastCommitFrame
  <2>3. l.frame[f].v <= l.frame[LastCommit(l)].v
    BY <2>2, CommitsGrow DEF LogCore, CommitFrame
  <2>4. Found(l, b) = l.frame[LastCommit(l)].v /\ Found(l, b) >= b
    BY <2>2, CoreRecovers DEF Found
  <2> QED BY <2>1, <2>3, <2>4
<1> QED BY <1>1, <1>2

-------------------------------------------------------------------------------
(* Steps that leave the log, the database and what the wal-index says of them. *)

HdrSame == idx'.a = idx.a /\ idx'.nBackfill = idx.nBackfill
IdxSame == HdrSame /\ idx'.pgno = idx.pgno
LogSame == UNCHANGED <<db, dbLoss, log, logDisk, txn, wrote, com, state, base>>
OwnSame(q) == st'[q] = st[q] /\ hdr'[q] = hdr[q] /\ rlock'[q] = rlock[q] /\ pick'[q] = pick[q]
MarkSame(q) == rlock[q] \in Slot => idx'.mark[rlock[q]] = idx.mark[rlock[q]]

LEMMA LogKeep == ASSUME NEW A, LogInv(A), LogSame PROVE LogInv(A)'
  BY DEF LogInv, LogSame

LEMMA IdxKeep ==
  ASSUME NEW A, IdxInv(A), LogSame, IdxSame, Resetting' <=> Resetting
  PROVE  IdxInv(A)'
  BY DEF IdxInv, LogSame, IdxSame, HdrSame

LEMMA WrtKeep ==
  ASSUME NEW A, NEW q \in Proc, WrtInv(A, q), LogSame, IdxSame, OwnSame(q),
         st[q] \in {"RESTART_A", "RESTART"} => \A i \in Slot : xlock[i] = q => xlock'[i] = q
  PROVE  WrtInv(A, q)'
<1>1. Begun(q) => Begun(q)'
  BY DEF Begun, LogSame, IdxSame, HdrSame, OwnSame
<1>2. st[q] \in {"RESTART_A", "RESTART"} /\ RestartOK(q) => RestartOK(q)'
  BY DEF RestartOK, LogSame, IdxSame, HdrSame, OwnSame
<1> QED BY <1>1, <1>2 DEF WrtInv, LogSame, IdxSame, HdrSame, OwnSame

LEMMA RdKeep ==
  ASSUME NEW q \in Proc, RdInv(q), LogSame, HdrSame, OwnSame(q), MarkSame(q),
         Resetting' <=> Resetting
  PROVE  RdInv(q)'
  BY DEF RdInv, LogSame, HdrSame, OwnSame, MarkSame

LEMMA CkKeep ==
  ASSUME NEW A, NEW q \in Proc, CkInv(A, q), LogSame, HdrSame, OwnSame(q),
         st[q] \in Copying => ckpt' = ckpt /\ ck' = ck,
         st[q] = "BACKFILL" => xlock'[0] = xlock[0],
         Active' => Active, Restarting' => Restarting,
         st[q] \in {"CKPT_MARKS", "BACKFILL"} /\ ReadersSafe(ck.i, ck.safe) => ReadersSafe(ck.i, ck.safe)'
  PROVE  CkInv(A, q)'
<1>1. st[q] \in {"CKPT_MARKS", "BACKFILL", "CKPT_HDR"} => st[q] \in Copying
  BY DEF Copying
<1>2. st'[q] = st[q] /\ hdr'[q] = hdr[q]
  BY DEF OwnSame
<1>3. UNCHANGED <<db, log, txn>>
  BY DEF LogSame
<1>4. CASE st[q] \notin Copying
  BY <1>1, <1>2, <1>4 DEF CkInv
<1>5. CASE st[q] \in Copying
  <2>1. ckpt' = ckpt /\ ck' = ck
    BY <1>5
  <2> QED BY <1>1, <1>2, <1>3, <1>5, <2>1 DEF CkInv, HdrSame
<1> QED BY <1>4, <1>5

LEMMA QuietStep ==
  ASSUME WalTypeInv, WalTypeInv', WriterInv, NEW A, WalInv(A), NEW p \in Proc, LogSame, HdrSame,
         idx'.pgno = idx.pgno \/ (st[p] \in Writing /\ IdxInv(A)'),
         \A q \in Proc : q # p => OwnSame(q) /\ MarkSame(q),
         st[p] # "RESTART" /\ st'[p] # "RESTART",
         st'[p] = "RESTART_A" => st[p] = "RESTART_A", st'[p] \in Writing => st[p] \in Writing,
         \A i \in 0..(NReader - 1) : xlock[i] \in {p, Nobody} \/ xlock'[i] = xlock[i],
         ckpt \in {p, Nobody} \/ (ckpt' = ckpt /\ ck' = ck),
         st'[p] = "READER" /\ rlock'[p] \in Slot =>
           OwnSame(p) \/ hdr'[p].mx >= idx.a.mx,
         ProcInv(A, p)'
  PROVE  WalInv(A)'
<1>1. Resetting' <=> Resetting
  BY DEF Resetting, OwnSame
<1>2. Active' => Active
  BY DEF Active, OwnSame
<1>3. Restarting' => Restarting
  BY DEF Restarting, OwnSame
<1>4. LogInv(A)' /\ IdxInv(A)'
  BY <1>1, LogKeep, IdxKeep DEF WalInv, IdxSame
<1>5. ASSUME NEW q \in Proc, q # p PROVE ProcInv(A, q)'
  <2>1. WrtInv(A, q) /\ RdInv(q) /\ CkInv(A, q) /\ OwnSame(q) /\ MarkSame(q)
    BY <1>5 DEF WalInv, ProcInv
  <2>2. Slot \subseteq 0..(NReader - 1) /\ 0 \in 0..(NReader - 1) /\ q # Nobody
    BY WalAssumption DEF Slot
  <2>3. WrtInv(A, q)'
    <3>1. \A i \in Slot : xlock[i] = q => xlock'[i] = q
      BY <1>5, <2>2
    <3>2. CASE idx'.pgno = idx.pgno
      BY <2>1, <3>1, <3>2, WrtKeep DEF IdxSame
    <3>3. CASE st[p] \in Writing
      <4>1. st'[q] \notin Writing
        BY <1>5, <2>1, <3>3, OneWriter DEF OwnSame
      <4> QED BY <4>1 DEF WrtInv
    <3> QED BY <3>2, <3>3
  <2>4. RdInv(q)'
    BY <1>1, <2>1, RdKeep
  <2>5. CkInv(A, q)'
    <3>1. st[q] \in Copying => ckpt' = ckpt /\ ck' = ck
      BY <1>5, <2>1, <2>2 DEF CkInv
    <3>2. st[q] = "BACKFILL" => xlock'[0] = xlock[0]
      BY <1>5, <2>1, <2>2 DEF CkInv
    <3>3. ASSUME st[q] \in {"CKPT_MARKS", "BACKFILL"}, ReadersSafe(ck.i, ck.safe)
          PROVE  ReadersSafe(ck.i, ck.safe)'
      <4>1. st[q] \in Copying
        BY <3>3 DEF Copying
      <4>2. ck' = ck
        BY <3>1, <4>1
      <4>3. ck.safe <= idx.a.mx
        <5>1. hdr[q] \in HeaderT /\ idx.a \in HeaderT /\ ck \in CkptT
          BY DEF WalTypeInv, ProcOK, IndexT
        <5>2. hdr[q].mx \in 0..MaxFrame /\ idx.a.mx \in 0..MaxFrame /\ ck.safe \in 0..MaxFrame
          BY <5>1 DEF HeaderT, CkptT
        <5>3. ck.safe <= hdr[q].mx /\ hdr[q].mx <= idx.a.mx
          BY <2>1, <3>3 DEF CkInv
        <5> QED BY <5>2, <5>3
      <4>4. ASSUME NEW r \in Proc, rlock'[r] \in Slot, rlock'[r] < ck.i, st'[r] = "READER"
            PROVE  ck.safe <= hdr'[r].mx
        <5>1. CASE OwnSame(r)
          BY <3>3, <4>4, <5>1 DEF ReadersSafe, OwnSame
        <5>2. CASE r = p /\ hdr'[p].mx >= idx.a.mx /\ ~OwnSame(r)
          <6>1. idx.a.mx \in 0..MaxFrame /\ ck.safe \in 0..MaxFrame
            BY DEF WalTypeInv, ProcOK, IndexT, HeaderT, CkptT
          <6>2. hdr'[p].mx \in 0..MaxFrame
            BY DEF WalTypeInv, ProcOK, HeaderT
          <6> QED BY <4>3, <5>2, <6>1, <6>2
        <5> QED BY <4>4, <5>1, <5>2
      <4> QED BY <4>2, <4>4 DEF ReadersSafe
    <3> QED BY <1>2, <1>3, <2>1, <3>1, <3>2, <3>3, CkKeep
  <2> QED BY <2>3, <2>4, <2>5 DEF ProcInv
<1> QED BY <1>4, <1>5 DEF WalInv

-------------------------------------------------------------------------------
(* What the last header stands for, in the log and in the database. *)

LEMMA FieldTypes ==
  ASSUME WalTypeInv
  PROVE  /\ idx.a \in HeaderT /\ idx.a.mx \in 0..MaxFrame /\ idx.nBackfill \in 0..MaxFrame
         /\ txn \in Nat /\ com \in 0..MaxTxn /\ base \in 0..MaxTxn /\ com \in Nat /\ base \in Nat
         /\ state \in [0..MaxTxn -> [Page -> 0..MaxTxn]] /\ db \in [Page -> 0..MaxTxn]
         /\ log \in LogT /\ logDisk \in LogT
         /\ \A p \in Proc : hdr[p] \in HeaderT /\ hdr[p].mx \in 0..MaxFrame /\ hdr[p].salt \in Nat
                            /\ hdr[p].txn \in 0..MaxTxn
<1>1. \A h \in HeaderT : h.mx \in 0..MaxFrame /\ h.salt \in Nat /\ h.txn \in 0..MaxTxn
  BY HeaderFields, WalAssumption
<1>2. idx.a \in HeaderT /\ idx.nBackfill \in 0..MaxFrame
  BY DEF WalTypeInv, IndexT
<1>3. \A p \in Proc : hdr[p] \in HeaderT
  BY DEF WalTypeInv, ProcOK
<1>4. /\ txn \in Nat /\ com \in 0..MaxTxn /\ base \in 0..MaxTxn /\ com \in Nat /\ base \in Nat
      /\ state \in [0..MaxTxn -> [Page -> 0..MaxTxn]]
  BY WalAssumption DEF WalTypeInv, HistOK
<1>5. db \in [Page -> 0..MaxTxn] /\ log \in LogT /\ logDisk \in LogT
  BY DEF WalTypeInv, DiskOK
<1> QED BY <1>1, <1>2, <1>3, <1>4, <1>5

LEMMA CurrentView ==
  ASSUME WalTypeInv, NEW A \in 0..MaxFrame, LogInv(A), IdxInv(A), idx.a.init
  PROVE  /\ Shows(state[com], state[base], Links(log), idx.a.mx)
         /\ \A pg \in Page : Unseen(Links(log), pg, idx.a.mx) =>
              dbLoss[pg] = {state[base][pg]} /\ db[pg] = state[base][pg]
         /\ PgnoOK(idx.pgno, log, idx.a.mx)
<1>1. LogCore(A, db, dbLoss, log, logDisk, txn, base, state)
  BY DEF LogInv
<1>2. HdrFull(A, idx.a, idx.pgno, log, com) /\ HdrEmpty(idx.a, dbLoss, log, com, base, state)
  BY DEF IdxInv
<1>3. idx.a.mx \in 0..MaxFrame
  BY FieldTypes
<1>4. CASE idx.a.mx = 0
  <2>1. base = com /\ AtBase(dbLoss, state[base])
    BY <1>2, <1>4 DEF HdrEmpty
  <2>2. Shows(state[com], state[base], Links(log), idx.a.mx)
    BY <1>4, <2>1, ShowsNone
  <2>3. \A pg \in Page : dbLoss[pg] = {state[base][pg]} /\ db[pg] = state[base][pg]
    BY <1>1, <2>1 DEF AtBase, LogCore, LossOK
  <2>4. PgnoOK(idx.pgno, log, idx.a.mx)
    BY <1>4 DEF PgnoOK
  <2> QED BY <2>2, <2>3, <2>4
<1>5. CASE idx.a.mx > 0
  <2>1. /\ CommitFrame(log, idx.a.mx) /\ A <= idx.a.mx /\ log.frame[idx.a.mx].v = com
        /\ PgnoOK(idx.pgno, log, idx.a.mx)
    BY <1>2, <1>5 DEF HdrFull
  <2>2. /\ Shows(state[log.frame[idx.a.mx].v], state[base], Links(log), idx.a.mx)
        /\ \A pg \in Page : Unseen(Links(log), pg, idx.a.mx) =>
              dbLoss[pg] = {state[base][pg]} /\ db[pg] = state[base][pg]
    BY <1>1, <2>1, CoreCommit
  <2> QED BY <2>1, <2>2
<1> QED BY <1>3, <1>4, <1>5

(* All of the log copied back: the database is the last commit, on the disk too. *)
LEMMA AllBackfilled ==
  ASSUME WalTypeInv, NEW A \in 0..MaxFrame, LogInv(A), IdxInv(A), idx.a.init,
         ~Resetting, idx.nBackfill = idx.a.mx
  PROVE  db = state[com] /\ AtBase(dbLoss, state[com])
<1>1. BackOK(idx.nBackfill, idx.a.mx, db, dbLoss, log)
  BY DEF IdxInv
<1>2. Copied(db, log, 0, idx.a.mx, idx.a.mx) /\ \A pg \in Page : dbLoss[pg] = {db[pg]}
  BY <1>1 DEF BackOK
<1>3. state[com] \in [Page -> 0..MaxTxn] /\ db \in [Page -> 0..MaxTxn] /\ idx.a.mx \in 0..MaxFrame
  BY FieldTypes
<1>4. db = state[com]
  BY <1>2, <1>3, CurrentView, AllCopied
<1> QED BY <1>2, <1>4 DEF AtBase

-------------------------------------------------------------------------------
(* Readers, and the parts of a checkpoint that copy nothing. *)

LEMMA IdleProc ==
  ASSUME NEW A, NEW p \in Proc, st'[p] \in {"OPEN", "DEAD", "HDR"}, rlock'[p] = -1,
         hdr'[p].salt <= txn'
  PROVE  ProcInv(A, p)'
<1>1. -1 \notin Slot /\ -1 # 0
  BY DEF Slot
<1> QED BY <1>1 DEF ProcInv, WrtInv, RdInv, CkInv, Writing, Copying

LEMMA NoLockHeld ==
  ASSUME NEW A, NEW p \in Proc, ProcInv(A, p), st[p] \notin Holding PROVE rlock[p] = -1
  BY DEF ProcInv, RdInv

LEMMA SnapReadHdr ==
  ASSUME WalTypeInv, WalTypeInv', WriterInv, NEW A \in 0..MaxFrame, WalInv(A), NEW p \in Proc, ReadHdr(p)
  PROVE  WalInv(A)'
<1>1. /\ st[p] = "OPEN" /\ GoodHdr /\ hdr' = [hdr EXCEPT ![p] = idx.a] /\ Goto(p, "HDR")
      /\ UNCHANGED <<disk, idx, pick, locks, ck, hist>>
  BY DEF ReadHdr
<1>2. LogSame /\ HdrSame /\ idx' = idx /\ UNCHANGED <<rlock, xlock, ckpt, ck, pick>>
  BY <1>1 DEF LogSame, HdrSame, disk, locks, hist
<1>3. /\ st'[p] = "HDR" /\ hdr'[p] = idx.a
      /\ \A q \in Proc : q # p => st'[q] = st[q] /\ hdr'[q] = hdr[q]
  BY <1>1 DEF WalTypeInv, ProcOK, Goto
<1>4. \A q \in Proc : q # p => OwnSame(q) /\ MarkSame(q)
  BY <1>2, <1>3 DEF OwnSame, MarkSame
<1>5. rlock'[p] = -1
  BY <1>1, <1>2, NoLockHeld DEF WalInv, Holding
<1>6. idx.a.salt <= txn /\ txn' = txn
  BY <1>1, <1>2 DEF WalInv, IdxInv, GoodHdr, LogSame
<1>7. ProcInv(A, p)'
  BY <1>3, <1>5, <1>6, IdleProc
<1> QED BY <1>1, <1>2, <1>3, <1>4, <1>7, QuietStep DEF Writing

LEMMA SnapEndRead ==
  ASSUME WalTypeInv, WalTypeInv', WriterInv, NEW A \in 0..MaxFrame, WalInv(A), NEW p \in Proc, EndRead(p)
  PROVE  WalInv(A)'
<1>1. /\ st[p] = "READER" /\ rlock' = [rlock EXCEPT ![p] = -1] /\ Goto(p, "OPEN")
      /\ UNCHANGED <<disk, idx, hdr, pick, wlock, ckpt, xlock, ck, hist>>
  BY DEF EndRead
<1>2. LogSame /\ HdrSame /\ idx' = idx /\ UNCHANGED <<hdr, xlock, ckpt, ck, pick>>
  BY <1>1 DEF LogSame, HdrSame, disk, hist
<1>3. /\ st'[p] = "OPEN" /\ rlock'[p] = -1
      /\ \A q \in Proc : q # p => st'[q] = st[q] /\ rlock'[q] = rlock[q]
  BY <1>1 DEF WalTypeInv, ProcOK, LockOK, Goto
<1>4. \A q \in Proc : q # p => OwnSame(q) /\ MarkSame(q)
  BY <1>2, <1>3 DEF OwnSame, MarkSame
<1>5. hdr'[p].salt <= txn'
  BY <1>2 DEF WalInv, ProcInv, RdInv, LogSame
<1>6. ProcInv(A, p)'
  BY <1>3, <1>5, IdleProc
<1> QED BY <1>1, <1>2, <1>3, <1>4, <1>6, QuietStep DEF Writing

(* With read lock 0 the reader sees the last commit in the database. *)
LEMMA SnapBeginRead0 ==
  ASSUME WalTypeInv, WalTypeInv', WriterInv, NEW A \in 0..MaxFrame, WalInv(A), NEW p \in Proc, BeginRead0(p)
  PROVE  WalInv(A)'
<1>1. /\ st[p] = "HDR" /\ idx.nBackfill = hdr[p].mx
      /\ UNCHANGED <<disk, idx, hdr, pick, wlock, ckpt, xlock, ck, hist>>
  BY DEF BeginRead0
<1>2. LogSame /\ HdrSame /\ idx' = idx /\ UNCHANGED <<hdr, xlock, ckpt, ck, pick>>
  BY <1>1 DEF LogSame, HdrSame, disk, hist
<1>3. \/ idx.a = hdr[p] /\ st'[p] = "READER" /\ rlock'[p] = 0
      \/ st'[p] = "OPEN" /\ rlock'[p] = rlock[p]
  BY DEF BeginRead0, WalTypeInv, ProcOK, LockOK, Goto
<1>4. \A q \in Proc : q # p => OwnSame(q) /\ MarkSame(q)
  <2>1. \A q \in Proc : q # p => st'[q] = st[q] /\ rlock'[q] = rlock[q]
    BY DEF BeginRead0, WalTypeInv, ProcOK, LockOK, Goto
  <2> QED BY <1>2, <2>1 DEF OwnSame, MarkSame
<1>5. hdr'[p].salt <= txn' /\ rlock[p] = -1
  BY <1>1, <1>2, NoLockHeld DEF WalInv, ProcInv, RdInv, LogSame, Holding
<1>6. ProcInv(A, p)'
  <2>1. CASE st'[p] = "OPEN" /\ rlock'[p] = rlock[p]
    BY <1>5, <2>1, IdleProc
  <2>2. CASE idx.a = hdr[p] /\ st'[p] = "READER" /\ rlock'[p] = 0
    <3>1. idx.a.init /\ idx.a.txn = com
      BY <1>1, <2>2 DEF WriterInv, Reading
    <3>2. db = state[com]
      <4>1. CASE ~Resetting
        BY <1>1, <2>2, <3>1, <4>1, AllBackfilled DEF WalInv
      <4>2. CASE Resetting
        <5>1. PICK w \in Proc : st[w] = "RESTART"
          BY <4>2 DEF Resetting
        <5>2. base = com /\ AtBase(dbLoss, state[base])
          BY <5>1 DEF WalInv, ProcInv, WrtInv, Writing, RestartOK
        <5>3. \A pg \in Page : db[pg] \in dbLoss[pg]
          BY DEF WalInv, LogInv, LogCore, LossOK
        <5>4. db \in [Page -> 0..MaxTxn] /\ state[com] \in [Page -> 0..MaxTxn]
          BY FieldTypes
        <5>5. \A pg \in Page : db[pg] = state[com][pg]
          BY <5>2, <5>3 DEF AtBase
        <5> QED BY <5>4, <5>5
      <4> QED BY <4>1, <4>2
    <3>3. db' = state'[hdr'[p].txn] /\ hdr'[p].txn <= com' /\ idx'.a.init
          /\ hdr'[p] = idx'.a /\ idx'.nBackfill = idx'.a.mx
      BY <1>1, <1>2, <2>2, <3>1, <3>2, FieldTypes DEF LogSame
    <3>4. RdInv(p)'
      BY <1>5, <2>2, <3>3 DEF RdInv, Holding, Slot
    <3>5. WrtInv(A, p)' /\ CkInv(A, p)'
      BY <2>2 DEF WrtInv, CkInv, Writing, Copying
    <3> QED BY <3>4, <3>5 DEF ProcInv
  <2> QED BY <1>3, <2>1, <2>2
<1>7. 0 \notin Slot
  BY DEF Slot
<1>8. rlock'[p] \notin Slot
  BY <1>3, <1>5, <1>7 DEF Slot
<1>9. st'[p] \in {"READER", "OPEN"}
  BY <1>3
<1> QED BY <1>1, <1>2, <1>4, <1>6, <1>8, <1>9, QuietStep DEF Writing

(* A mark is only raised where nobody holds its lock. *)
LEMMA SnapChooseMark ==
  ASSUME WalTypeInv, WalTypeInv', WriterInv, NEW A \in 0..MaxFrame, WalInv(A), NEW p \in Proc, ChooseMark(p)
  PROVE  WalInv(A)'
<1> DEFINE mx   == hdr[p].mx
           best == Best(mx)
           free == {i \in Slot : FreeX(i)}
           s    == IF st[p] = "HDR" THEN "MARK" ELSE "WRITER_MARK"
<1>1. /\ st[p] \in {"HDR", "WRITER_HDR"} /\ UNCHANGED <<disk, hdr, locks, ck, hist>>
  BY DEF ChooseMark
<1>2. \/ /\ free # {}
         /\ idx' = [idx EXCEPT !.mark[Min(free)] = mx]
         /\ pick' = [pick EXCEPT ![p] = <<Min(free), mx>>] /\ Goto(p, s)
      \/ /\ best # {} /\ idx' = idx
         /\ pick' = [pick EXCEPT ![p] = <<Max(best), idx.mark[Max(best)]>>] /\ Goto(p, s)
      \/ idx' = idx /\ pick' = pick /\ Goto(p, IF st[p] = "HDR" THEN "OPEN" ELSE st[p])
  BY DEF ChooseMark
<1>3. free # {} => Min(free) \in free /\ Min(free) \in Slot
  <2>1. free \in SUBSET Nat
    BY DEF Slot
  <2> QED BY <2>1, MinIn
<1>4. best # {} => Max(best) \in Slot /\ idx.mark[Max(best)] <= mx
  <2>1. best \in SUBSET Slot /\ \A i \in best : idx.mark[i] <= mx
    BY DEF Best
  <2>2. best \in SUBSET (0..(NReader - 1)) /\ NReader - 1 \in Nat
    BY <2>1, WalAssumption DEF Slot
  <2> HIDE DEF best
  <2> QED BY <2>1, <2>2, MaxIn
<1>5. free # {} => \A q \in Proc : rlock[q] # Min(free)
  BY <1>3 DEF FreeX, Shared
<1> HIDE DEF best, free
<1>6. LogSame /\ UNCHANGED <<hdr, rlock, xlock, ckpt, ck>>
  BY <1>1 DEF LogSame, disk, locks, hist
<1>7. HdrSame /\ idx'.pgno = idx.pgno
  BY <1>2 DEF WalTypeInv, IndexT, HdrSame
<1>8. \A q \in Proc : q # p => OwnSame(q)
  <2>1. \A q \in Proc : q # p => st'[q] = st[q] /\ pick'[q] = pick[q]
    BY <1>2 DEF WalTypeInv, ProcOK, Goto
  <2> QED BY <1>6, <2>1 DEF OwnSame
<1>9. \A q \in Proc : MarkSame(q)
  BY <1>2, <1>3, <1>5 DEF WalTypeInv, IndexT, MarkSame
<1>10. st'[p] \in {"MARK", "WRITER_MARK", "OPEN", "WRITER_HDR"}
       /\ (st[p] = "HDR" => st'[p] \in {"MARK", "OPEN"})
       /\ (st[p] = "WRITER_HDR" => st'[p] \in {"WRITER_MARK", "WRITER_HDR"})
  BY <1>1, <1>2 DEF WalTypeInv, ProcOK, Goto
<1>11. st'[p] \in {"MARK", "WRITER_MARK"} => pick'[p][1] \in Slot /\ pick'[p][2] <= mx
  <2>1. mx \in 0..MaxFrame
    BY FieldTypes
  <2>2. pick \in [Proc -> (0..(NReader - 1)) \X (0..NotUsed)]
    BY DEF WalTypeInv, ProcOK
  <2>3. CASE pick' = [pick EXCEPT ![p] = <<Min(free), mx>>] /\ free # {}
    <3> HIDE DEF mx
    <3> QED BY <1>3, <2>1, <2>2, <2>3
  <2>4. CASE best # {} /\ pick' = [pick EXCEPT ![p] = <<Max(best), idx.mark[Max(best)]>>]
    BY <1>4, <2>2, <2>4
  <2>5. CASE Goto(p, IF st[p] = "HDR" THEN "OPEN" ELSE st[p])
    BY <1>1, <2>5 DEF WalTypeInv, ProcOK, Goto
  <2> QED BY <1>2, <2>3, <2>4, <2>5
<1>12. rlock[p] = -1 /\ RdInv(p) /\ WrtInv(A, p)
  BY <1>1, NoLockHeld DEF WalInv, Holding, ProcInv
<1>13. RdInv(p)'
  BY <1>6, <1>10, <1>11, <1>12 DEF RdInv, LogSame, Slot
<1>14. CkInv(A, p)'
  BY <1>10 DEF CkInv, Copying
<1>15. WrtInv(A, p)'
  <2>1. CASE st[p] = "HDR"
    BY <1>10, <2>1 DEF WrtInv, Writing
  <2>2. CASE st[p] = "WRITER_HDR"
    <3>1. st[p] \in Writing /\ st'[p] \in {"WRITER_MARK", "WRITER_HDR"}
      BY <1>10, <2>2 DEF Writing
    <3>2. /\ com < txn /\ (idx.a.salt = txn => idx.a.mx = 0)
          /\ NoCommitOf(log, txn) /\ NoCommitOf(logDisk, txn)
          /\ wrote = {} /\ Begun(p) /\ Untouched(log, txn)
      BY <1>12, <2>2, <3>1 DEF WrtInv
    <3>3. Begun(p)'
      BY <1>6, <1>7, <2>2, <3>1, <3>2 DEF Begun, LogSame, HdrSame
    <3> QED BY <1>6, <1>7, <1>12, <3>1, <3>2, <3>3 DEF WrtInv, LogSame, HdrSame
  <2> QED BY <1>1, <2>1, <2>2
<1>16. ProcInv(A, p)'
  BY <1>13, <1>14, <1>15 DEF ProcInv
<1>17. st[p] # "RESTART" /\ st'[p] \notin {"RESTART", "RESTART_A", "READER"}
       /\ (st'[p] \in Writing => st[p] \in Writing)
  BY <1>1, <1>10 DEF Writing
<1> QED BY <1>6, <1>7, <1>8, <1>9, <1>16, <1>17, QuietStep

(* The mark and the header are still what they were: the reader is on the     *)
(* last commit, and no checkpoint goes beyond its mark.                       *)
LEMMA SnapLockMark ==
  ASSUME WalTypeInv, WalTypeInv', WriterInv, NEW A \in 0..MaxFrame, WalInv(A), NEW p \in Proc, LockMark(p)
  PROVE  WalInv(A)'
<1> DEFINE i == pick[p][1]
<1>1. /\ st[p] \in {"MARK", "WRITER_MARK"} /\ pick' = [pick EXCEPT ![p] = <<0, 0>>]
      /\ UNCHANGED <<disk, idx, hdr, wlock, ckpt, xlock, ck, hist>>
  BY DEF LockMark
<1>2. LogSame /\ HdrSame /\ idx' = idx /\ UNCHANGED <<hdr, xlock, ckpt, ck>>
  BY <1>1 DEF LogSame, HdrSame, disk, hist
<1>3. \/ /\ idx.mark[i] = pick[p][2] /\ idx.a = hdr[p] /\ rlock'[p] = i
         /\ st'[p] = IF st[p] = "MARK" THEN "READER" ELSE "WRITER"
      \/ rlock'[p] = rlock[p] /\ st'[p] = IF st[p] = "MARK" THEN "OPEN" ELSE "WRITER_HDR"
  BY DEF LockMark, WalTypeInv, ProcOK, LockOK, Goto
<1>4. \A q \in Proc : q # p => OwnSame(q) /\ MarkSame(q)
  <2>1. \A q \in Proc : q # p => st'[q] = st[q] /\ rlock'[q] = rlock[q] /\ pick'[q] = pick[q]
    BY DEF LockMark, WalTypeInv, ProcOK, LockOK, Goto
  <2> QED BY <1>2, <2>1 DEF OwnSame, MarkSame
<1>5. hdr'[p].salt <= txn' /\ rlock[p] = -1
  BY <1>1, <1>2, NoLockHeld DEF WalInv, ProcInv, RdInv, LogSame, Holding
<1>6. i \in Slot /\ pick[p][2] <= hdr[p].mx
  BY <1>1 DEF WalInv, ProcInv, RdInv
<1>7. hdr[p].init
  BY <1>1 DEF WriterInv, Reading, Writing
<1> HIDE DEF i
<1>8. RdInv(p)'
  <2>1. CASE /\ idx.mark[i] = pick[p][2] /\ idx.a = hdr[p] /\ rlock'[p] = i
             /\ st'[p] = IF st[p] = "MARK" THEN "READER" ELSE "WRITER"
    <3>1. st'[p] \in Holding /\ st'[p] \notin {"MARK", "WRITER_MARK"} /\ i # 0 /\ i # -1
      BY <1>6, <2>1 DEF Holding, Slot
    <3>2. idx.a.init /\ idx.a.txn = com /\ com \in Nat
      BY <1>7, <2>1, FieldTypes DEF WriterInv
    <3>3. SlotView(hdr[p], db, log, base, state)
      BY <2>1, <3>2, CurrentView DEF WalInv, SlotView
    <3>4. hdr[p].mx \in 0..MaxFrame
      BY FieldTypes
    <3> QED BY <1>2, <1>5, <1>6, <2>1, <3>1, <3>2, <3>3, <3>4 DEF RdInv, LogSame
  <2>2. CASE rlock'[p] = rlock[p] /\ st'[p] = IF st[p] = "MARK" THEN "OPEN" ELSE "WRITER_HDR"
    BY <1>5, <2>2 DEF RdInv, Slot
  <2> QED BY <1>3, <2>1, <2>2
<1>9. CkInv(A, p)'
  BY <1>3 DEF CkInv, Copying
<1>10. WrtInv(A, p)'
  <2>1. CASE st[p] = "MARK"
    BY <1>3, <2>1 DEF WrtInv, Writing
  <2>2. CASE st[p] = "WRITER_MARK"
    <3>1. st[p] \in Writing /\ st'[p] \in {"WRITER", "WRITER_HDR"}
          /\ (st'[p] = "WRITER_HDR" => rlock'[p] = -1)
      BY <1>3, <1>5, <2>2 DEF Writing
    <3>2. /\ com < txn /\ (idx.a.salt = txn => idx.a.mx = 0)
          /\ NoCommitOf(log, txn) /\ NoCommitOf(logDisk, txn)
          /\ wrote = {} /\ Begun(p) /\ Untouched(log, txn)
      BY <2>2, <3>1 DEF WalInv, ProcInv, WrtInv
    <3>3. Begun(p)'
      BY <1>2, <2>2, <3>1, <3>2 DEF Begun, LogSame
    <3> QED BY <1>2, <3>1, <3>2, <3>3 DEF WrtInv, LogSame
  <2> QED BY <1>1, <2>1, <2>2
<1>11. ProcInv(A, p)'
  BY <1>8, <1>9, <1>10 DEF ProcInv
<1>12. st[p] # "RESTART" /\ st'[p] \notin {"RESTART", "RESTART_A"}
       /\ (st'[p] \in Writing => st[p] \in Writing)
  BY <1>1, <1>3 DEF Writing
<1>13. st'[p] = "READER" /\ rlock'[p] \in Slot => hdr'[p].mx >= idx.a.mx
  BY <1>2, <1>3, FieldTypes
<1> QED BY <1>2, <1>4, <1>11, <1>12, <1>13, QuietStep

LEMMA SnapPublishB ==
  ASSUME WalTypeInv, WalTypeInv', WriterInv, NEW A \in 0..MaxFrame, WalInv(A), NEW p \in Proc, PublishB(p)
  PROVE  WalInv(A)'
<1>1. /\ st[p] = "COMMIT" /\ idx' = [idx EXCEPT !.b = [hdr[p] EXCEPT !.init = TRUE]]
      /\ Goto(p, "COMMIT_A") /\ UNCHANGED <<disk, hdr, pick, locks, ck, hist>>
  BY DEF PublishB
<1>2. LogSame /\ UNCHANGED <<hdr, xlock, ckpt, ck, pick, rlock>>
  BY <1>1 DEF LogSame, disk, locks, hist
<1>3. HdrSame /\ idx'.pgno = idx.pgno /\ idx'.mark = idx.mark
  BY <1>1 DEF HdrSame, WalTypeInv, IndexT
<1>4. st'[p] = "COMMIT_A" /\ \A q \in Proc : q # p => st'[q] = st[q]
  BY <1>1 DEF WalTypeInv, ProcOK, Goto
<1>5. \A q \in Proc : q # p => OwnSame(q) /\ MarkSame(q)
  BY <1>2, <1>3, <1>4 DEF OwnSame, MarkSame
<1>6. Resetting' <=> Resetting
  BY <1>1, <1>4 DEF Resetting
<1>7. RdInv(p)'
  <2>1. RdInv(p)
    BY DEF WalInv, ProcInv
  <2>2. rlock[p] \in Slot
    BY <1>1 DEF WalInv, ProcInv, WrtInv, Writing
  <2> QED BY <1>1, <1>2, <1>3, <1>4, <1>6, <2>1, <2>2 DEF RdInv, LogSame, HdrSame, Holding, Slot
<1>8. WrtInv(A, p)'
  <2>1. WrtInv(A, p)
    BY DEF WalInv, ProcInv
  <2> QED BY <1>1, <1>2, <1>3, <1>4, <2>1 DEF WrtInv, LogSame, HdrSame, Writing
<1>9. CkInv(A, p)'
  BY <1>4 DEF CkInv, Copying
<1> QED BY <1>1, <1>2, <1>3, <1>4, <1>5, <1>7, <1>8, <1>9, QuietStep DEF ProcInv, Writing

(* The writer is a reader of the last commit again. *)
LEMMA SnapRollback ==
  ASSUME WalTypeInv, WalTypeInv', WriterInv, NEW A \in 0..MaxFrame, WalInv(A), NEW p \in Proc, Rollback(p)
  PROVE  WalInv(A)'
<1>1. /\ st[p] = "WRITER" /\ rlock[p] >= 0 /\ hdr' = [hdr EXCEPT ![p] = idx.a]
      /\ Goto(p, "READER") /\ UNCHANGED <<disk, pick, rlock, ckpt, xlock, ck, hist>>
      /\ \/ idx' = idx
         \/ idx' = [idx EXCEPT !.pgno = [f \in Frame |-> IF f > idx.a.mx THEN 0 ELSE @[f]]]
  BY DEF Rollback
<1>2. LogSame /\ UNCHANGED <<xlock, ckpt, ck, pick, rlock>>
  BY <1>1 DEF LogSame, disk, hist
<1>3. HdrSame /\ idx'.mark = idx.mark
  BY <1>1 DEF HdrSame, WalTypeInv, IndexT
<1>4. /\ st'[p] = "READER" /\ hdr'[p] = idx.a
      /\ \A q \in Proc : q # p => st'[q] = st[q] /\ hdr'[q] = hdr[q]
  BY <1>1 DEF WalTypeInv, ProcOK, Goto
<1>5. \A q \in Proc : q # p => OwnSame(q) /\ MarkSame(q)
  BY <1>2, <1>3, <1>4 DEF OwnSame, MarkSame
<1>6. Resetting' <=> Resetting
  BY <1>1, <1>4 DEF Resetting
<1>7. idx.a.init /\ idx.a.txn = com
  BY <1>1 DEF WriterInv, Writing
<1>8. IdxInv(A)'
  <2>1. IdxInv(A)
    BY DEF WalInv
  <2>2. PgnoOK(idx.pgno, log, idx.a.mx) => PgnoOK(idx'.pgno, log', idx'.a.mx)
    <3>1. CASE idx' = idx
      BY <1>2, <3>1 DEF LogSame
    <3>2. CASE idx' = [idx EXCEPT !.pgno = [f \in Frame |-> IF f > idx.a.mx THEN 0 ELSE @[f]]]
      <4>1. idx'.pgno = [f \in Frame |-> IF f > idx.a.mx THEN 0 ELSE idx.pgno[f]]
        BY <3>2 DEF WalTypeInv, IndexT
      <4>2. \A j \in 1..idx.a.mx : j \in Frame /\ ~(j > idx.a.mx)
        BY InFrame, FieldTypes
      <4> QED BY <1>2, <1>3, <4>1, <4>2 DEF PgnoOK, LogSame, HdrSame
    <3> QED BY <1>1, <3>1, <3>2
  <2>3. HdrFull(A, idx.a, idx.pgno, log, com) => HdrFull(A, idx'.a, idx'.pgno, log', com')
    BY <1>2, <1>3, <2>2 DEF HdrFull, LogSame, HdrSame
  <2> QED BY <1>2, <1>3, <1>6, <2>1, <2>3 DEF IdxInv, LogSame, HdrSame
<1>9. RdInv(p)'
  <2>1. RdInv(p) /\ WrtInv(A, p)
    BY DEF WalInv, ProcInv
  <2>2. idx.a.salt <= txn /\ com \in Nat /\ idx.a.mx \in 0..MaxFrame
    BY <1>7, FieldTypes DEF WalInv, IdxInv
  <2>3. rlock[p] \in -1..(NReader - 1)
    BY DEF WalTypeInv, LockOK
  <2>4. CASE rlock[p] = 0
    <3>1. wrote = {} /\ hdr[p] = idx.a
      BY <1>1, <2>1, <2>4 DEF WrtInv, Writing, Slot, Begun
    <3> QED BY <1>2, <1>3, <1>4, <1>6, <1>7, <2>1, <2>2, <2>4, <3>1
            DEF RdInv, LogSame, HdrSame, Holding, Slot
  <2>5. CASE rlock[p] \in Slot
    <3>1. SlotView(idx.a, db, log, base, state)
      BY <1>7, CurrentView DEF WalInv, SlotView
    <3>2. rlock[p] # 0 /\ rlock[p] # -1
      BY <2>5 DEF Slot
    <3> QED BY <1>2, <1>3, <1>4, <1>7, <2>1, <2>2, <2>5, <3>1, <3>2
            DEF RdInv, LogSame, HdrSame, Holding
  <2> QED BY <1>1, <2>3, <2>4, <2>5 DEF Slot
<1>10. WrtInv(A, p)' /\ CkInv(A, p)'
  BY <1>4 DEF WrtInv, CkInv, Copying, Writing
<1>11. st[p] \in Writing /\ st'[p] \notin Writing /\ hdr'[p].mx >= idx.a.mx
  BY <1>1, <1>4, FieldTypes DEF Writing
<1> QED BY <1>1, <1>2, <1>3, <1>4, <1>5, <1>8, <1>9, <1>10, <1>11, QuietStep DEF ProcInv

LEMMA SnapCheckpoint ==
  ASSUME WalTypeInv, WalTypeInv', WriterInv, NEW A \in 0..MaxFrame, WalInv(A), NEW p \in Proc,
         NEW mode, Checkpoint(p, mode)
  PROVE  WalInv(A)'
<1>1. /\ st[p] = "OPEN" /\ ckpt = Nobody /\ ckpt' = p /\ Goto(p, "CKPT")
      /\ UNCHANGED <<disk, idx, hdr, pick, rlock, xlock, ck, hist>>
  BY DEF Checkpoint
<1>2. LogSame /\ HdrSame /\ idx' = idx /\ UNCHANGED <<hdr, xlock, ck, pick, rlock>>
  BY <1>1 DEF LogSame, HdrSame, disk, hist
<1>3. st'[p] = "CKPT" /\ \A q \in Proc : q # p => st'[q] = st[q]
  BY <1>1 DEF WalTypeInv, ProcOK, Goto
<1>4. \A q \in Proc : q # p => OwnSame(q) /\ MarkSame(q)
  BY <1>2, <1>3 DEF OwnSame, MarkSame
<1>5. hdr'[p].salt <= txn' /\ rlock'[p] = -1
  BY <1>1, <1>2, NoLockHeld DEF WalInv, ProcInv, RdInv, LogSame, Holding
<1>6. ProcInv(A, p)'
  BY <1>1, <1>3, <1>5 DEF ProcInv, WrtInv, RdInv, CkInv, Writing, Slot
<1> QED BY <1>1, <1>2, <1>3, <1>4, <1>6, QuietStep DEF Writing

(* The header of a checkpoint is a commit of the log. *)
LEMMA SnapCkptHdr ==
  ASSUME WalTypeInv, WalTypeInv', WriterInv, NEW A \in 0..MaxFrame, WalInv(A), NEW p \in Proc, CkptHdr(p)
  PROVE  WalInv(A)'
<1>1. /\ st[p] = "CKPT" /\ GoodHdr /\ hdr' = [hdr EXCEPT ![p] = idx.a] /\ Goto(p, "CKPT_HDR")
      /\ UNCHANGED <<disk, idx, pick, locks, ck, hist>>
  BY DEF CkptHdr
<1>2. LogSame /\ HdrSame /\ idx' = idx /\ UNCHANGED <<rlock, xlock, ckpt, ck, pick>>
  BY <1>1 DEF LogSame, HdrSame, disk, locks, hist
<1>3. /\ st'[p] = "CKPT_HDR" /\ hdr'[p] = idx.a
      /\ \A q \in Proc : q # p => st'[q] = st[q] /\ hdr'[q] = hdr[q]
  BY <1>1 DEF WalTypeInv, ProcOK, Goto
<1>4. \A q \in Proc : q # p => OwnSame(q) /\ MarkSame(q)
  BY <1>2, <1>3 DEF OwnSame, MarkSame
<1>5. rlock'[p] = -1 /\ ckpt = p
  BY <1>1, <1>2, NoLockHeld DEF WalInv, Holding, ProcInv, CkInv, Copying
<1>6. idx.a.init /\ idx.a.salt <= txn /\ idx.a.mx \in 0..MaxFrame
      /\ (idx.a.mx > 0 => log.frame[idx.a.mx].commit)
  BY <1>1, FieldTypes DEF WalInv, IdxInv, GoodHdr, HdrFull, CommitFrame
<1>7. Active' /\ idx.a.salt = txn => idx.a.mx = 0
  <2> SUFFICES ASSUME NEW w \in Proc, st'[w] \in Writing, idx.a.salt = txn PROVE idx.a.mx = 0
    BY DEF Active
  <2>1. st[w] \in Writing
    BY <1>3 DEF Writing
  <2> QED BY <2>1 DEF WalInv, ProcInv, WrtInv
<1>8. CkInv(A, p)'
  BY <1>2, <1>3, <1>5, <1>6, <1>7 DEF CkInv, LogSame
<1>9. RdInv(p)' /\ WrtInv(A, p)'
  BY <1>2, <1>3, <1>5, <1>6 DEF RdInv, WrtInv, Writing, Slot, LogSame
<1> QED BY <1>1, <1>2, <1>3, <1>4, <1>8, <1>9, QuietStep DEF ProcInv, Writing

LEMMA SnapCkptLeave ==
  ASSUME WalTypeInv, WalTypeInv', WriterInv, NEW A \in 0..MaxFrame, WalInv(A), NEW p \in Proc,
         CkptBusy(p) \/ CkptDone(p)
  PROVE  WalInv(A)'
<1>1. /\ st[p] \in {"CKPT", "CKPT_DONE"} /\ UNCHANGED <<disk, idx, pick, rlock, xlock, ck, hist>>
      /\ \/ Goto(p, "CKPT_DONE") /\ hdr' = hdr /\ ckpt' = ckpt
         \/ Goto(p, "OPEN") /\ hdr' = [hdr EXCEPT ![p] = NoHdr] /\ ckpt' = Nobody
  BY DEF CkptBusy, CkptDone, locks
<1>2. LogSame /\ HdrSame /\ idx' = idx /\ UNCHANGED <<xlock, ck, pick, rlock>>
  BY <1>1 DEF LogSame, HdrSame, disk, hist
<1>3. /\ \/ st'[p] = "CKPT_DONE" /\ hdr'[p] = hdr[p] /\ ckpt' = ckpt
         \/ st'[p] = "OPEN" /\ hdr'[p] = NoHdr
      /\ \A q \in Proc : q # p => st'[q] = st[q] /\ hdr'[q] = hdr[q]
  BY <1>1 DEF WalTypeInv, ProcOK, Goto
<1>4. \A q \in Proc : q # p => OwnSame(q) /\ MarkSame(q)
  BY <1>2, <1>3 DEF OwnSame, MarkSame
<1>5. hdr[p].salt <= txn /\ rlock'[p] = -1 /\ ckpt = p /\ txn' = txn /\ txn \in Nat
  BY <1>1, <1>2, NoLockHeld, FieldTypes DEF WalInv, ProcInv, RdInv, CkInv, LogSame, Holding, Copying
<1>6. hdr'[p].salt <= txn'
  BY <1>3, <1>5 DEF NoHdr
<1>7. ProcInv(A, p)'
  <2>1. CASE st'[p] = "CKPT_DONE" /\ ckpt' = ckpt
    BY <1>5, <1>6, <2>1 DEF ProcInv, WrtInv, RdInv, CkInv, Writing, Slot
  <2>2. CASE st'[p] = "OPEN"
    BY <1>5, <1>6, <2>2, IdleProc
  <2> QED BY <1>3, <2>1, <2>2
<1>8. st[p] # "RESTART" /\ st'[p] \notin {"RESTART", "RESTART_A", "READER"} /\ st'[p] \notin Writing
  BY <1>1, <1>3 DEF Writing
<1> QED BY <1>2, <1>4, <1>5, <1>7, <1>8, QuietStep

(* The frames of the iterator: the last one of every page up to the header. *)
LEMMA TodoInit ==
  ASSUME WalTypeInv, NEW A \in 0..MaxFrame, LogInv(A), NEW g, NEW m \in Frame, PgnoOK(g, log, m),
         Valid(log, m)
  PROVE  /\ TodoOK(log, m, {FindFrame(g, pg, m) : pg \in Page} \ {0})
         /\ TodoLast(log, m, {FindFrame(g, pg, m) : pg \in Page} \ {0})
<1>a. \A k \in 1..m : k \in Frame /\ k <= m /\ k \in Nat /\ Links(log)[k][1] = g[k] /\ m \in Nat
  <2>1. m \in 0..MaxFrame
    BY DEF Frame
  <2> QED BY <2>1, LinksAt, InFrame DEF PgnoOK
<1>b. ASSUME NEW pg \in Page, FindFrame(g, pg, m) # 0
      PROVE  FindFrame(g, pg, m) <= m /\ LastIn(Links(log), FindFrame(g, pg, m), m)
  <2> DEFINE x == FindFrame(g, pg, m)
  <2>1. /\ x \in Frame /\ x <= m /\ g[x] = pg
        /\ \A k \in Frame : k <= m /\ g[k] = pg => k <= x
    BY <1>b, FindFrameIn
  <2> HIDE DEF x
  <2>2. x \in 1..m /\ \A k \in (x + 1)..m : k \in 1..m /\ ~(k <= x)
    BY <2>1 DEF Frame
  <2>3. LastIn(Links(log), x, m)
    BY <1>a, <2>1, <2>2 DEF LastIn
  <2> QED BY <2>1, <2>3 DEF x
<1>c. TodoLast(log, m, {FindFrame(g, pg, m) : pg \in Page} \ {0})
  BY <1>b DEF TodoLast
<1> SUFFICES ASSUME NEW f \in Frame, f <= m, LastIn(Links(log), f, m)
             PROVE  f \in {FindFrame(g, pg, m) : pg \in Page} \ {0}
  BY <1>c DEF TodoOK
<1> DEFINE pg == log.frame[f].pg
           x  == FindFrame(g, pg, m)
<1>1. f \in 1..m /\ f # 0 /\ f \in Nat /\ m \in Nat
  BY DEF Frame
<1>2. log.frame[f].salt # 0
  BY <1>1, ValidPart
<1>3. pg \in Page
  BY <1>2 DEF LogInv, LogCore, FramesOK, FrameOK
<1>4. g[f] = pg
  BY <1>1 DEF PgnoOK
<1>5. /\ x \in 0..MaxFrame /\ f <= x
      /\ x # 0 => x \in Frame /\ x <= m /\ g[x] = pg
  BY <1>4, FindFrameIn
<1> HIDE DEF x
<1>6. CASE x = f
  BY <1>1, <1>3, <1>6 DEF x
<1>7. CASE x # f
  <2>1. x \in (f + 1)..m /\ x \in 1..m /\ x \in Frame /\ g[x] = pg
    BY <1>1, <1>5, <1>7
  <2>2. log.frame[x].pg = pg
    BY <2>1 DEF PgnoOK
  <2>3. Links(log)[x][1] = Links(log)[f][1]
    BY <2>1, <2>2, LinksAt
  <2> QED BY <2>1, <2>3 DEF LastIn
<1> QED BY <1>6, <1>7

LEMMA SnapCkptStart ==
  ASSUME WalTypeInv, WalTypeInv', WriterInv, NEW A \in 0..MaxFrame, WalInv(A), NEW p \in Proc,
         CkptStart(p), ~overrun'
  PROVE  WalInv(A)'
<1> DEFINE m == hdr[p].mx
           T == {FindFrame(idx.pgno, pg, m) : pg \in Page} \ {0}
<1>1. /\ st[p] = "CKPT_HDR" /\ UNCHANGED <<disk, idx, hdr, pick, locks, txn, wrote, com, state, base>>
      /\ \/ Goto(p, "CKPT_DONE") /\ ck' = ck
         \/ /\ idx.nBackfill < m /\ ck' = [safe |-> m, i |-> 1, from |-> 0, todo |-> T]
            /\ overrun' = (overrun \/ idx.a.salt # hdr[p].salt)
            /\ Goto(p, "CKPT_MARKS")
  <2>1. m \in 0..MaxFrame /\ idx.nBackfill \in 0..MaxFrame
    BY FieldTypes
  <2> QED BY <2>1 DEF CkptStart
<1>2. LogSame /\ HdrSame /\ idx' = idx /\ UNCHANGED <<hdr, xlock, pick, rlock, ckpt>>
  BY <1>1 DEF LogSame, HdrSame, disk, locks
<1>3. /\ \/ st'[p] = "CKPT_DONE" /\ ck' = ck
         \/ /\ idx.nBackfill < m /\ ck' = [safe |-> m, i |-> 1, from |-> 0, todo |-> T]
            /\ idx.a.salt = hdr[p].salt
            /\ st'[p] = "CKPT_MARKS"
      /\ \A q \in Proc : q # p => st'[q] = st[q]
  BY <1>1 DEF WalTypeInv, ProcOK, Goto
<1>4. \A q \in Proc : q # p => OwnSame(q) /\ MarkSame(q)
  BY <1>2, <1>3 DEF OwnSame, MarkSame
<1>5. hdr'[p].salt <= txn' /\ rlock'[p] = -1 /\ ckpt = p
  BY <1>1, <1>2, NoLockHeld DEF WalInv, ProcInv, RdInv, CkInv, LogSame, Holding, Copying
<1>6. RdInv(p)' /\ WrtInv(A, p)'
  BY <1>3, <1>5 DEF RdInv, WrtInv, Writing, Slot
<1>7. CkInv(A, p)'
  <2>1. CASE st'[p] = "CKPT_DONE"
    BY <1>2, <1>5, <2>1 DEF CkInv
  <2>2. CASE /\ idx.nBackfill < m /\ ck' = [safe |-> m, i |-> 1, from |-> 0, todo |-> T]
             /\ idx.a.salt = hdr[p].salt /\ st'[p] = "CKPT_MARKS"
    <3>1. m \in 0..MaxFrame /\ idx.nBackfill \in 0..MaxFrame /\ idx.a.mx \in 0..MaxFrame
      BY FieldTypes
    <3>2. 0 < m /\ m \in Frame
      BY <2>2, <3>1 DEF Frame
    <3>3. idx.a.init /\ m <= idx.a.mx /\ log.frame[m].commit
      BY <1>1, <2>2, <3>2 DEF WalInv, ProcInv, CkInv
    <3>4. ~Restarting
      <4> SUFFICES ASSUME NEW w \in Proc, st[w] \in {"RESTART_A", "RESTART"} PROVE FALSE
        BY DEF Restarting
      <4>1. RestartOK(w)
        BY DEF WalInv, ProcInv, WrtInv, Writing
      <4>2. idx.nBackfill = idx.a.mx \/ idx.a.mx = 0
        BY <4>1 DEF RestartOK
      <4> QED BY <2>2, <3>1, <3>2, <3>3, <4>2
    <3>5. ~Restarting'
      BY <1>3, <3>4 DEF Restarting
    <3>6. ck'.safe = m /\ ck'.i = 1 /\ ck'.todo = T
      BY <2>2
    <3>7. ReadersSafe(ck.i, ck.safe)'
      BY <3>6 DEF ReadersSafe, Slot
    <3>9. Valid(log, m) /\ PgnoOK(idx.pgno, log, m)
      <4>1. idx.a.mx > 0
        BY <3>1, <3>2, <3>3
      <4>2. Valid(log, idx.a.mx) /\ PgnoOK(idx.pgno, log, idx.a.mx)
        BY <3>3, <4>1 DEF WalInv, IdxInv, HdrFull, CommitFrame
      <4>3. \A j \in 1..m : j \in 1..idx.a.mx
        BY <3>1, <3>3
      <4>4. Valid(log, m)
        BY <3>1, <3>3, <4>2, ValidPrefix
      <4> QED BY <4>2, <4>3, <4>4 DEF PgnoOK
    <3>10. TodoOK(log, m, T) /\ TodoLast(log, m, T)
      BY <3>2, <3>9, TodoInit DEF WalInv
    <3>11. 1 <= NReader /\ m <= m
      BY <3>1, WalAssumption
    <3> HIDE DEF T
    <3> QED BY <1>2, <1>5, <2>2, <3>2, <3>3, <3>5, <3>6, <3>7, <3>10, <3>11
            DEF CkInv, LogSame
  <2> QED BY <1>3, <2>1, <2>2
<1>8. st[p] # "RESTART" /\ st'[p] \notin {"RESTART", "RESTART_A", "READER"} /\ st'[p] \notin Writing
  BY <1>1, <1>3 DEF Writing
<1> QED BY <1>2, <1>4, <1>5, <1>6, <1>7, <1>8, QuietStep DEF ProcInv

(* A reader that was passed over has a mark, and so a header, beyond what is  *)
(* safe; one that holds its mark's lock brings what is safe down to it.       *)
LEMMA SnapCkptMark ==
  ASSUME WalTypeInv, WalTypeInv', WriterInv, NEW A \in 0..MaxFrame, WalInv(A), NEW p \in Proc, CkptMark(p)
  PROVE  WalInv(A)'
<1> DEFINE i == ck.i
           y == idx.mark[i]
<1>1. /\ st[p] = "CKPT_MARKS" /\ i \in Slot /\ UNCHANGED <<disk, st, hdr, pick, locks, hist>>
      /\ \/ ck.safe <= y /\ ck' = [ck EXCEPT !.i = i + 1] /\ idx' = idx
         \/ /\ FreeX(i) /\ ck' = [ck EXCEPT !.i = i + 1]
            /\ \E x : idx' = [idx EXCEPT !.mark[i] = x]
         \/ ~(ck.safe <= y) /\ ck' = [ck EXCEPT !.safe = y, !.i = i + 1] /\ idx' = idx
  BY DEF CkptMark
<1>2. LogSame /\ UNCHANGED <<hdr, xlock, pick, rlock, ckpt, st>>
  BY <1>1 DEF LogSame, disk, locks, hist
<1>3. HdrSame /\ idx'.pgno = idx.pgno
  BY <1>1 DEF WalTypeInv, IndexT, HdrSame
<1>4. \A q \in Proc : OwnSame(q)
  BY <1>2 DEF OwnSame
<1>5. \A q \in Proc : MarkSame(q)
  <2>1. FreeX(i) => \A q \in Proc : rlock[q] # i
    BY DEF FreeX, Shared
  <2> HIDE DEF i
  <2> QED BY <1>1, <2>1 DEF WalTypeInv, IndexT, MarkSame
<1>6. rlock[p] = -1 /\ ckpt = p /\ RdInv(p) /\ WrtInv(A, p) /\ CkInv(A, p)
  BY <1>1, NoLockHeld DEF WalInv, ProcInv, CkInv, Holding, Copying
<1>7. Resetting' <=> Resetting
  BY <1>2 DEF Resetting
<1>8. RdInv(p)' /\ WrtInv(A, p)'
  <2>1. RdInv(p)'
    BY <1>2, <1>3, <1>4, <1>5, <1>6, <1>7, RdKeep
  <2>2. WrtInv(A, p)'
    BY <1>1, <1>2 DEF WrtInv, Writing
  <2> QED BY <2>1, <2>2
<1>9. CkInv(A, p)'
  <2>1. ck \in CkptT /\ ck' \in CkptT
    BY DEF WalTypeInv, ProcOK
  <2>2. /\ ck'.todo = ck.todo /\ ck'.i = i + 1
        /\ ck'.safe = ck.safe \/ (ck'.safe = y /\ ~(ck.safe <= y))
    BY <1>1, <2>1 DEF CkptT
  <2>3. ck.safe \in 0..MaxFrame /\ ck'.safe \in 0..MaxFrame /\ y \in 0..NotUsed /\ i \in Nat
    BY <1>1, <2>1 DEF CkptT, WalTypeInv, IndexT, Slot
  <2>4. ck'.safe <= ck.safe /\ NotUsed \in Nat
    BY <2>2, <2>3, WalAssumption DEF NotUsed
  <2>5. /\ idx.a.init /\ 0 < hdr[p].mx /\ hdr[p].mx <= idx.a.mx /\ log.frame[hdr[p].mx].commit
        /\ idx.nBackfill < hdr[p].mx /\ ck.safe <= hdr[p].mx
        /\ ~Restarting /\ ReadersSafe(ck.i, ck.safe)
        /\ TodoLast(log, hdr[p].mx, ck.todo)
        /\ TodoOK(log, hdr[p].mx, ck.todo)
    BY <1>1, <1>6 DEF CkInv
  <2>6. ck'.safe <= hdr[p].mx
    BY <2>3, <2>4, <2>5, FieldTypes
  <2>7. ck'.i <= NReader
    BY <1>1, <2>2, WalAssumption DEF Slot
  <2>8. ReadersSafe(ck.i, ck.safe)'
    <3> SUFFICES ASSUME NEW r \in Proc, rlock[r] \in Slot, rlock[r] < ck'.i, st[r] = "READER"
                 PROVE  ck'.safe <= hdr[r].mx
      BY <1>2 DEF ReadersSafe
    <3>1. hdr[r].mx \in 0..MaxFrame /\ rlock[r] \in Nat
      BY FieldTypes DEF Slot
    <3>2. CASE rlock[r] < i
      <4>1. ck.safe <= hdr[r].mx
        BY <2>5, <3>2 DEF ReadersSafe
      <4> QED BY <2>3, <2>4, <3>1, <4>1
    <3>3. CASE rlock[r] = i
      <4>1. y <= hdr[r].mx
        BY <3>3 DEF WalInv, ProcInv, RdInv
      <4>2. ~FreeX(i)
        BY <3>3 DEF FreeX, Shared
      <4>3. ck'.safe <= y
        <5>1. CASE ck.safe <= y /\ ck' = [ck EXCEPT !.i = i + 1]
          BY <2>1, <5>1 DEF CkptT
        <5>2. CASE ck' = [ck EXCEPT !.safe = y, !.i = i + 1]
          BY <2>1, <2>3, <2>4, <5>2 DEF CkptT
        <5> QED BY <1>1, <4>2, <5>1, <5>2
      <4> QED BY <2>3, <2>4, <3>1, <4>1, <4>3
    <3> QED BY <2>2, <2>3, <3>1, <3>2, <3>3
  <2>9. ~Restarting'
    BY <1>2, <2>5 DEF Restarting
  <2> QED BY <1>1, <1>2, <1>3, <1>6, <2>2, <2>5, <2>6, <2>7, <2>8, <2>9 DEF CkInv, LogSame, HdrSame
<1>10. st'[p] = "CKPT_MARKS" /\ st[p] = "CKPT_MARKS"
  BY <1>1
<1> QED BY <1>2, <1>3, <1>4, <1>5, <1>6, <1>8, <1>9, <1>10, QuietStep DEF ProcInv, Writing

LEMMA SnapCrash ==
  ASSUME WalTypeInv, WalTypeInv', WriterInv, NEW A \in 0..MaxFrame, WalInv(A), NEW p \in Proc,
         Crash(p), ~overrun'
  PROVE  WalInv(A)'
<1>1. /\ Goto(p, "DEAD") /\ hdr' = [hdr EXCEPT ![p] = NoHdr] /\ pick' = [pick EXCEPT ![p] = <<0, 0>>]
      /\ rlock' = [rlock EXCEPT ![p] = -1] /\ st[p] # "RESTART"
      /\ xlock' = [i \in DOMAIN xlock |-> IF xlock[i] = p THEN Nobody ELSE xlock[i]]
      /\ ckpt = p \/ (ckpt' = ckpt /\ ck' = ck)
      /\ UNCHANGED <<disk, idx, txn, wrote, com, state, base>>
  BY DEF Crash
<1>2. LogSame /\ HdrSame /\ idx' = idx
  BY <1>1 DEF LogSame, HdrSame, disk
<1>3. /\ st'[p] = "DEAD" /\ hdr'[p] = NoHdr /\ rlock'[p] = -1
      /\ \A q \in Proc : q # p => OwnSame(q)
  BY <1>1 DEF WalTypeInv, ProcOK, LockOK, Goto, OwnSame
<1>4. \A q \in Proc : MarkSame(q)
  BY <1>2 DEF MarkSame
<1>5. \A i \in 0..(NReader - 1) : xlock[i] \in {p, Nobody} \/ xlock'[i] = xlock[i]
  BY <1>1 DEF WalTypeInv, LockOK
<1>6. hdr'[p].salt <= txn'
  BY <1>2, <1>3, FieldTypes DEF NoHdr, LogSame
<1>7. ProcInv(A, p)'
  BY <1>3, <1>6, IdleProc
<1> QED BY <1>1, <1>2, <1>3, <1>4, <1>5, <1>7, QuietStep DEF Writing

(* An index that was emptied says nothing, and nobody relies on it. *)
LEMMA SnapIdle ==
  ASSUME NEW A, LogInv(A)', ~idx'.a.init,
         \A q \in Proc : st'[q] \in {"OPEN", "DEAD", "HDR"} /\ rlock'[q] = -1 /\ hdr'[q].salt <= txn'
  PROVE  WalInv(A)'
<1>1. \A q \in Proc : ProcInv(A, q)'
  BY IdleProc
<1> QED BY <1>1 DEF WalInv, IdxInv

LEMMA SnapOpen ==
  ASSUME WalTypeInv, WalTypeInv', WriterInv, NEW A \in 0..MaxFrame, WalInv(A), NEW p \in Proc, Open(p)
  PROVE  WalInv(A)'
<1>1. /\ st[p] = "DEAD" /\ Goto(p, "OPEN")
      /\ idx' = IF \A q \in Proc : st[q] = "DEAD" THEN NoIdx ELSE idx
      /\ UNCHANGED <<disk, hdr, pick, locks, ck, hist>>
  BY DEF Open
<1>2. LogSame /\ UNCHANGED <<hdr, xlock, pick, rlock, ckpt, ck>>
  BY <1>1 DEF LogSame, disk, locks, hist
<1>3. st'[p] = "OPEN" /\ \A q \in Proc : q # p => st'[q] = st[q]
  BY <1>1 DEF WalTypeInv, ProcOK, Goto
<1>4. \A q \in Proc : hdr'[q].salt <= txn' /\ (st[q] = "DEAD" => rlock'[q] = -1)
  BY <1>2, NoLockHeld DEF WalInv, ProcInv, RdInv, Holding, LogSame
<1>5. CASE \A q \in Proc : st[q] = "DEAD"
  <2>1. ~idx'.a.init
    BY <1>1, <1>5 DEF NoIdx, NoHdr
  <2>2. LogInv(A)'
    BY <1>2, LogKeep DEF WalInv
  <2>3. \A q \in Proc : st'[q] \in {"OPEN", "DEAD", "HDR"} /\ rlock'[q] = -1
    BY <1>3, <1>4, <1>5
  <2> QED BY <1>4, <2>1, <2>2, <2>3, SnapIdle
<1>6. CASE idx' = idx
  <2>1. \A q \in Proc : q # p => OwnSame(q) /\ MarkSame(q)
    BY <1>2, <1>3, <1>6 DEF OwnSame, MarkSame
  <2>2. ProcInv(A, p)'
    BY <1>1, <1>3, <1>4, IdleProc
  <2>3. HdrSame
    BY <1>6 DEF HdrSame
  <2> QED BY <1>1, <1>2, <1>3, <1>6, <2>1, <2>2, <2>3, QuietStep DEF Writing
<1> QED BY <1>1, <1>5, <1>6

-------------------------------------------------------------------------------
(* Recovery: the index is rebuilt from the log, with no reader and no writer. *)

LEMMA CommitsZero ==
  ASSUME NEW l, NEW s, NEW k, NEW j, NEW b, NEW S, CommitsOK(l, s, 0, k, b, S)
  PROVE  CommitsOK(l, s, 0, j, b, S)
<1>1. \A fr : Extends(fr, 0, k)
  BY DEF Extends
<1> QED BY <1>1 DEF CommitsOK

LEMMA NoCopied == ASSUME NEW d, NEW l, NEW m PROVE Copied(d, l, 0, 0, m)
  BY DEF Copied, Frame

LEMMA SnapRecover ==
  ASSUME WalTypeInv, WalTypeInv', WriterInv, NEW A \in 0..MaxFrame, WalInv(A), NEW p \in Proc, Recover(p)
  PROVE  WalInv(A)' /\ com' >= com
<1> DEFINE L == LastCommit(log)
           h == [mx |-> L, change |-> 0, salt |-> log.salt, sum |-> [i \in 1..L |-> Link(log.frame[i])],
                 txn |-> RecoveredTxn(log), init |-> TRUE]
<1>1. /\ st[p] \in {"OPEN", "CKPT"} /\ wlock = Nobody /\ ckpt \in {Nobody, p}
      /\ \A i \in 0..(NReader - 1) : FreeX(i)
      /\ idx'.a = h /\ idx'.nBackfill = 0
      /\ idx'.pgno = [f \in Frame |-> IF Valid(log, f) THEN log.frame[f].pg ELSE 0]
      /\ com' = RecoveredTxn(log)
      /\ UNCHANGED <<disk, st, hdr, pick, locks, ck, txn, wrote, state, base, overrun>>
  BY DEF Recover
<1>2. UNCHANGED <<db, dbLoss, log, logDisk, st, hdr, pick, rlock, ckpt, ck, txn, state, base>>
  BY <1>1 DEF disk, locks
<1>3. L \in 0..MaxFrame /\ (L # 0 => CommitFrame(log, L))
      /\ \A f \in Frame : CommitFrame(log, f) => f <= L /\ L # 0
  BY LastCommitFrame
<1>4. RecoveredTxn(log) = Found(log, base)
  BY DEF RecoveredTxn, Found
<1>5. idx'.a.mx = L /\ idx'.a.salt = log.salt /\ idx'.a.init
      /\ idx'.a.sum = [i \in 1..L |-> Link(log.frame[i])]
  BY <1>1
<1> HIDE DEF L, h
<1>6. LogCore(A, db, dbLoss, log, logDisk, txn, base, state) /\ ComOK(log, logDisk, com, base, txn)
  BY DEF WalInv, LogInv
<1>7. txn \in Nat /\ base \in Nat /\ base <= txn /\ com \in Nat
  <2>1. txn \in Nat /\ base \in Nat /\ com \in Nat /\ base <= com /\ com <= txn
    BY <1>6, FieldTypes DEF ComOK
  <2> QED BY <2>1
<1>8. /\ com' >= base /\ com' <= txn
      /\ Shows(state[com'], state[base], Links(log), L)
      /\ \A pg \in Page : Unseen(Links(log), pg, L) =>
              dbLoss[pg] = {state[base][pg]} /\ db[pg] = state[base][pg]
  <2> DEFINE F == Found(log, base)
  <2>1. /\ F >= base /\ F <= txn
        /\ Shows(state[F], state[base], Links(log), LastCommit(log))
        /\ \A pg \in Page : Unseen(Links(log), pg, LastCommit(log)) =>
              dbLoss[pg] = {state[base][pg]} /\ db[pg] = state[base][pg]
    BY ONLY A \in 0..MaxFrame, <1>6, <1>7, CoreRecovers
  <2>2. com' = F
    BY <1>1, <1>4
  <2> HIDE DEF F
  <2> QED BY <2>1, <2>2 DEF L
<1>9. com' >= com
  BY <1>1, <1>4, <1>6, <1>7, FoundIsLast DEF ComOK
<1>10. L = 0 => com' = base
  BY <1>1, <1>4 DEF Found, L
<1>11. L # 0 => com' = log.frame[L].v
  BY <1>1, <1>4 DEF Found, L
<1>12. log = NoLog => L = 0
  BY <1>3, ValidHasLog DEF CommitFrame
<1>13. LogInv(A)'
  <2>1. com' = base \/ ComIn(log, com')
    BY <1>3, <1>10, <1>11 DEF ComIn, CommitFrame
  <2>2. com' \in Nat
    BY FieldTypes DEF WalTypeInv, HistOK
  <2>3. base <= com'
    BY <1>7, <1>8, <2>2
  <2>4. ComOK(log, logDisk, com', base, txn)
    BY <1>6, <1>8, <1>10, <1>12, <2>1, <2>3 DEF ComOK
  <2> QED BY <1>2, <1>6, <2>4 DEF LogInv
<1>14. log # NoLog => A <= L
  BY <1>6, LastAfterAnchor DEF L
<1>15. HdrFull(A, idx'.a, idx'.pgno, log, com')
  <2> SUFFICES ASSUME L > 0
               PROVE  /\ log.salt = idx'.a.salt /\ A <= L /\ CommitFrame(log, L)
                      /\ log.frame[L].v = com' /\ idx'.a.sum = log.frame[L].sum
                      /\ PgnoOK(idx'.pgno, log, L)
    BY <1>5 DEF HdrFull
  <2>1. CommitFrame(log, L) /\ L \in Frame /\ Valid(log, L) /\ L \in 1..L /\ L # 0
    BY <1>3 DEF CommitFrame, Frame
  <2>2. idx'.a.sum = log.frame[L].sum
    BY <1>5, <2>1 DEF Valid
  <2>3. ASSUME NEW j \in 1..L PROVE idx'.pgno[j] = log.frame[j].pg
    <3>1. j \in Frame /\ j \in Int /\ j <= L /\ L \in Int
      BY <1>3, InFrame
    <3>2. Valid(log, j)
      BY <2>1, <3>1, ValidPrefix
    <3> QED BY <1>1, <3>1, <3>2
  <2>4. A <= L
    BY <1>12, <1>14, <2>1
  <2> QED BY <1>5, <1>11, <2>1, <2>2, <2>3, <2>4 DEF PgnoOK
<1>16. L = 0 => \A pg \in Page : Unseen(Links(log), pg, L)
  BY DEF Unseen
<1>17. HdrEmpty(idx'.a, dbLoss, log, com', base, state)
  <2> SUFFICES ASSUME L = 0
               PROVE  /\ base = com' /\ AtBase(dbLoss, state[base])
                      /\ CommitsOK(log, log.salt, 0, log, base, state)
    BY <1>5 DEF HdrEmpty
  <2>1. AtBase(dbLoss, state[base])
    BY <1>8, <1>16 DEF AtBase
  <2>2. CASE log = NoLog
    <3>1. log.salt = 0
      BY <2>2 DEF NoLog
    <3>2. CommitsOK(log, log.salt, 0, log, base, state)
      BY <3>1 DEF CommitsOK
    <3> QED BY <1>10, <2>1, <3>2
  <2>3. CASE log # NoLog
    <3>1. A = 0 /\ log.salt = logDisk.salt
      BY <1>6, <1>14, <2>3 DEF LogCore, SaltsOK
    <3>2. CommitsOK(log, log.salt, 0, logDisk, base, state)
      BY <1>6, <3>1 DEF LogCore
    <3>3. CommitsOK(log, log.salt, 0, log, base, state)
      BY <3>2, CommitsZero
    <3> QED BY <1>10, <2>1, <3>3
  <2> QED BY <2>2, <2>3
<1>18. BackOK(0, L, db, dbLoss, log)
  <2>1. 0 <= L
    BY <1>3
  <2>2. 0 = L => \A pg \in Page : dbLoss[pg] = {db[pg]}
    BY <1>8, <1>16
  <2> QED BY <2>1, <2>2, NoCopied DEF BackOK
<1>19. IdxInv(A)'
  <2>1. log.salt <= txn
    BY <1>6 DEF LogCore, FramesOK
  <2> QED BY <1>1, <1>2, <1>5, <1>15, <1>17, <1>18, <2>1 DEF IdxInv
<1>20. ASSUME NEW q \in Proc PROVE ProcInv(A, q)'
  <2>1. rlock[q] = -1
    <3>1. rlock[q] \in -1..(NReader - 1) /\ NReader \in Nat
      BY WalAssumption DEF WalTypeInv, LockOK
    <3>2. rlock[q] \notin 0..(NReader - 1)
      BY <1>1 DEF FreeX, Shared
    <3> QED BY <3>1, <3>2
  <2>2. st[q] \notin Writing
    BY <1>1, WalAssumption DEF WriterInv
  <2>3. WrtInv(A, q) /\ RdInv(q) /\ CkInv(A, q)
    BY DEF WalInv, ProcInv
  <2>4. WrtInv(A, q)'
    BY <1>2, <2>2 DEF WrtInv
  <2>5. RdInv(q)'
    BY <1>2, <2>1, <2>3 DEF RdInv, Slot
  <2>6. CkInv(A, q)'
    <3>1. st[q] \in Copying => q = p
      BY <1>1, <2>3, WalAssumption DEF CkInv
    <3>2. st[q] \notin {"CKPT_HDR", "CKPT_MARKS", "BACKFILL"}
      BY <1>1, <3>1 DEF Copying
    <3> QED BY <1>2, <2>3, <3>2 DEF CkInv
  <2> QED BY <2>4, <2>5, <2>6 DEF ProcInv
<1> QED BY <1>9, <1>13, <1>19, <1>20 DEF WalInv

-------------------------------------------------------------------------------
(* A writer begins. *)

LEMMA FramesMono ==
  ASSUME NEW l \in LogT, NEW t \in Nat, NEW u \in Nat, t <= u, FramesOK(l, t) PROVE FramesOK(l, u)
<1>1. l.salt \in 0..MaxTxn /\ \A i \in Frame : l.frame[i].v \in 0..MaxTxn /\ l.frame[i].salt \in 0..MaxTxn
  BY DEF LogT, FrameT
<1>2. l.salt \in Int /\ \A i \in Frame : l.frame[i].v \in Int /\ l.frame[i].salt \in Int
  BY <1>1
<1>3. l.salt <= u /\ \A i \in Frame : l.frame[i].v <= u /\ l.frame[i].salt <= u
  <2>1. l.salt <= t /\ \A i \in Frame : l.frame[i].v <= t /\ l.frame[i].salt <= t
    BY DEF FramesOK, FrameOK
  <2> QED BY <1>2, <2>1
<1> QED BY <1>3 DEF FramesOK, FrameOK

(* Everything in the log is older than the next transaction. *)
LEMMA FramesOlder ==
  ASSUME NEW l \in LogT, NEW t \in Nat, FramesOK(l, t)
  PROVE  Untouched(l, t + 1) /\ NoCommitOf(l, t + 1)
<1>1. \A i \in Frame : /\ l.frame[i].v \in Int /\ l.frame[i].salt \in Int /\ l.frame[i].sum \in Seq(LinkT)
                       /\ l.frame[i].v <= t /\ l.frame[i].salt <= t
  BY DEF LogT, FrameT, FramesOK, FrameOK
<1>2. \A i \in Frame : l.frame[i].v < t + 1 /\ l.frame[i].salt < t + 1
  BY <1>1
<1>3. ASSUME NEW i \in Frame, l.frame[i].salt # 0, NEW j \in 1..i
      PROVE  l.frame[i].sum[j][2] < t + 1
  <2>1. Len(l.frame[i].sum) = i /\ l.frame[i].sum[j][2] <= l.frame[i].v
    BY <1>3 DEF FramesOK, FrameOK
  <2>2. l.frame[i].sum[j] \in LinkT
    BY <1>1, <2>1
  <2>3. l.frame[i].sum[j][2] \in 0..MaxTxn
    BY <2>2 DEF LinkT
  <2>4. l.frame[i].sum[j][2] \in Int /\ l.frame[i].v \in Int /\ l.frame[i].v <= t
    BY <1>1, <2>3
  <2> QED BY <2>1, <2>4
<1> QED BY <1>2, <1>3 DEF Untouched, Older, NoCommitOf

LEMMA SnapBeginWrite ==
  ASSUME WalTypeInv, WalTypeInv', WriterInv, NEW A \in 0..MaxFrame, WalInv(A), NEW p \in Proc, BeginWrite(p)
  PROVE  WalInv(A)'
<1>1. /\ st[p] = "READER" /\ wlock = Nobody /\ hdr[p] = idx.a /\ Goto(p, "WRITER")
      /\ txn' = txn + 1 /\ wrote' = {}
      /\ UNCHANGED <<db, dbLoss, log, logDisk, idx, hdr, pick, rlock, ckpt, xlock, ck, com, state, base>>
  BY DEF BeginWrite, disk
<1>2. st'[p] = "WRITER" /\ \A q \in Proc : q # p => st'[q] = st[q]
  BY <1>1 DEF WalTypeInv, ProcOK, Goto
<1>3. \A q \in Proc : st[q] \notin Writing
  BY <1>1, WalAssumption DEF WriterInv
<1>4. txn \in Nat /\ com \in Nat /\ txn + 1 \in Nat /\ txn <= txn + 1 /\ log \in LogT /\ logDisk \in LogT
  BY FieldTypes
<1>5. LogCore(A, db, dbLoss, log, logDisk, txn, base, state) /\ ComOK(log, logDisk, com, base, txn)
  BY DEF WalInv, LogInv
<1>6. FramesOK(log, txn) /\ FramesOK(logDisk, txn) /\ com <= txn
  BY <1>5 DEF LogCore, ComOK
<1>7. FramesOK(log, txn + 1) /\ FramesOK(logDisk, txn + 1) /\ com < txn + 1 /\ com <= txn + 1
  BY <1>4, <1>6, FramesMono
<1>8. LogInv(A)'
  BY <1>1, <1>5, <1>7 DEF LogInv, LogCore, ComOK
<1>9. ~Resetting /\ ~Resetting' /\ ~Restarting'
  BY <1>2, <1>3 DEF Resetting, Restarting, Writing
<1>10. idx.a.init /\ idx.a.salt \in Nat /\ idx.a.salt <= txn
  <2>1. idx.a.init
    BY <1>1 DEF WriterInv, Reading
  <2>2. idx.a.salt \in Nat
    BY <1>1, FieldTypes
  <2> QED BY <2>1, <2>2 DEF WalInv, IdxInv
<1>11. idx.a.salt <= txn + 1 /\ idx.a.salt # txn + 1
  BY <1>4, <1>10
<1>12. IdxInv(A)'
  BY <1>1, <1>9, <1>11 DEF WalInv, IdxInv
<1>13. \A q \in Proc : hdr[q].salt <= txn + 1 /\ hdr[q].salt # txn + 1
  <2>1. \A q \in Proc : hdr[q].salt <= txn /\ hdr[q].salt \in Nat
    BY FieldTypes DEF WalInv, ProcInv, RdInv
  <2> QED BY <1>4, <2>1
<1>14. ASSUME NEW q \in Proc, q # p PROVE ProcInv(A, q)'
  <2>1. WrtInv(A, q)'
    BY <1>2, <1>3, <1>14 DEF WrtInv
  <2>2. RdInv(q)'
    <3>1. RdInv(q)
      BY DEF WalInv, ProcInv
    <3> QED BY <1>1, <1>2, <1>9, <1>13, <1>14, <3>1 DEF RdInv
  <2>3. CkInv(A, q)'
    <3>1. CkInv(A, q)
      BY DEF WalInv, ProcInv
    <3>2. ReadersSafe(ck.i, ck.safe) => ReadersSafe(ck.i, ck.safe)'
      BY <1>1, <1>2 DEF ReadersSafe
    <3> QED BY <1>1, <1>2, <1>9, <1>13, <1>14, <3>1, <3>2 DEF CkInv
  <2> QED BY <2>1, <2>2, <2>3 DEF ProcInv
<1>15. ProcInv(A, p)'
  <2>1. CkInv(A, p)'
    BY <1>2 DEF CkInv, Copying
  <2>2. RdInv(p)'
    <3>1. RdInv(p)
      BY DEF WalInv, ProcInv
    <3> QED BY <1>1, <1>2, <1>9, <1>13, <3>1 DEF RdInv, Holding
  <2>3. Untouched(log, txn') /\ NoCommitOf(log, txn') /\ NoCommitOf(logDisk, txn')
    BY <1>1, <1>4, <1>6, FramesOlder
  <2>4. Begun(p)'
    BY <1>1, <1>2 DEF Begun
  <2>5. WrtInv(A, p)'
    BY <1>1, <1>2, <1>7, <1>11, <2>3, <2>4 DEF WrtInv
  <2> QED BY <2>1, <2>2, <2>5 DEF ProcInv
<1> QED BY <1>8, <1>12, <1>14, <1>15 DEF WalInv

-------------------------------------------------------------------------------
(* The log starts from another transaction: the last commit c, which all of   *)
(* the first A frames lead to.                                                *)

LEMMA RebaseCommits ==
  ASSUME NEW A \in Frame, NEW d, NEW dl, NEW l, NEW k \in LogT, NEW t, NEW b \in Nat, NEW S,
         LogCore(A, d, dl, l, k, t, b, S), NEW x \in LogT, FramesOK(x, t),
         CommitsOK(x, k.salt, A, k, b, S)
  PROVE  CommitsOK(x, k.salt, A, k, k.frame[A].v, S)
<1> DEFINE c == k.frame[A].v
<1>1. A \in Nat /\ A > 0 /\ A \in 1..A /\ A \in 0..MaxFrame /\ A >= A
  BY DEF Frame
<1>2. CommitFrame(k, A)
  BY <1>1 DEF LogCore, AnchorOK
<1>3. Valid(k, A) /\ k.frame[A].salt = k.salt /\ k.frame[A].commit
      /\ \A j \in 1..A : k.frame[A].sum[j] = Link(k.frame[j])
  BY <1>1, <1>2, ValidPart DEF CommitFrame
<1>4. Extends(k.frame[A], A, k) /\ k.salt # 0
  BY <1>1, <1>3, ValidHasLog DEF Extends
<1>5. Shows(S[c], S[b], k.frame[A].sum, A)
  BY <1>1, <1>3, <1>4 DEF LogCore, CommitsOK, CommitOK
<1> SUFFICES ASSUME NEW i \in Frame, x.frame[i].salt = k.salt, i >= A, Extends(x.frame[i], A, k)
             PROVE  CommitOK(x.frame[i], i, c, S)
  BY DEF CommitsOK
<1> DEFINE fr == x.frame[i]
<1>6. CommitOK(fr, i, b, S)
  BY <1>4 DEF CommitsOK
<1>7. \A j \in 1..A : j \in 1..i /\ fr.sum[j] = Link(k.frame[j])
  BY DEF Extends, Frame
<1>8. fr.v >= c
  <2>1. fr.sum[A][2] <= fr.v
    BY <1>1, <1>4, <1>7 DEF FramesOK, FrameOK
  <2>2. fr.sum[A][2] = c
    BY <1>1, <1>7, LinkParts
  <2>3. c \in 0..MaxTxn /\ fr.v \in 0..MaxTxn
    BY DEF LogT, FrameT
  <2> QED BY <2>1, <2>2, <2>3
<1>9. ASSUME NEW pg \in Page, Unseen(fr.sum, pg, i) PROVE S[c][pg] = S[b][pg]
  <2>1. Unseen(k.frame[A].sum, pg, A)
    BY <1>3, <1>7, <1>9 DEF Unseen
  <2> QED BY <1>5, <2>1 DEF Shows
<1>10. fr.commit => Shows(S[fr.v], S[c], fr.sum, i)
  <2> HIDE DEF c, fr
  <2> QED BY <1>6, <1>9, ShowsBase DEF CommitOK
<1> QED BY <1>8, <1>10 DEF CommitOK

LEMMA Rebase ==
  ASSUME NEW A \in Frame, NEW d, NEW dl, NEW l \in LogT, NEW k \in LogT, NEW t, NEW b \in Nat, NEW S,
         LogCore(A, d, dl, l, k, t, b, S), NEW e, NEW el, AtBase(el, S[k.frame[A].v]),
         \A pg \in Page : e[pg] \in el[pg]
  PROVE  LogCore(A, e, el, l, k, t, k.frame[A].v, S)
<1>1. FramesOK(l, t) /\ FramesOK(k, t)
      /\ CommitsOK(l, k.salt, A, k, b, S) /\ CommitsOK(k, k.salt, A, k, b, S)
  BY DEF LogCore
<1>2. CommitsOK(l, k.salt, A, k, k.frame[A].v, S) /\ CommitsOK(k, k.salt, A, k, k.frame[A].v, S)
  BY <1>1, RebaseCommits
<1>3. LossOK(A, e, el, k, S[k.frame[A].v])
  BY DEF LossOK, AtBase
<1> QED BY <1>1, <1>2, <1>3 DEF LogCore

(* The header is set back when all of the log is in the database. *)
LEMMA SnapRestartLog ==
  ASSUME WalTypeInv, WalTypeInv', WriterInv, NEW A \in 0..MaxFrame, WalInv(A), NEW p \in Proc, RestartLog(p)
  PROVE  WalInv(A)'
<1> DEFINE h == [hdr[p] EXCEPT !.mx = 0, !.salt = txn]
<1>1. /\ st[p] = "WRITER" /\ rlock[p] = 0
      /\ UNCHANGED <<db, dbLoss, log, logDisk, pick, wlock, ckpt, ck, txn, wrote, com, state>>
      /\ \/ /\ idx.nBackfill > 0 /\ \A i \in Slot : FreeX(i)
            /\ hdr' = [hdr EXCEPT ![p] = h] /\ idx' = [idx EXCEPT !.b = h]
            /\ xlock' = [i \in DOMAIN xlock |-> IF i \in Slot THEN p ELSE xlock[i]]
            /\ base' = h.txn /\ Goto(p, "RESTART_A") /\ rlock' = rlock
         \/ /\ rlock' = [rlock EXCEPT ![p] = -1] /\ Goto(p, "WRITER_HDR")
            /\ UNCHANGED <<idx, hdr, xlock, base>>
  BY DEF RestartLog, disk
<1>2. st[p] \in Writing /\ WrtInv(A, p) /\ RdInv(p) /\ CkInv(A, p)
  BY <1>1 DEF Writing, WalInv, ProcInv
<1>3. 0 \notin Slot /\ -1 \notin Slot
  BY DEF Slot
<1>4. wrote = {}
  BY <1>1, <1>2, <1>3 DEF WrtInv
<1>5. /\ com < txn /\ (idx.a.salt = txn => idx.a.mx = 0)
      /\ NoCommitOf(log, txn) /\ NoCommitOf(logDisk, txn)
      /\ hdr[p] = idx.a /\ Untouched(log, txn)
  BY <1>1, <1>2, <1>4 DEF WrtInv, Begun
<1>6. \A q \in Proc : q # p => st[q] \notin Writing
  BY <1>2, OneWriter
<1>7. ~Resetting
  BY <1>1, <1>6 DEF Resetting, Writing
<1>8. idx.a.init /\ idx.a.txn = com /\ hdr[p].txn = com
  BY <1>2, <1>5 DEF WriterInv
<1>9. CASE /\ rlock' = [rlock EXCEPT ![p] = -1] /\ Goto(p, "WRITER_HDR")
           /\ UNCHANGED <<idx, hdr, xlock, base>>
  <2>1. LogSame /\ HdrSame /\ idx' = idx /\ UNCHANGED <<hdr, xlock, ckpt, ck>>
    BY <1>1, <1>9 DEF LogSame, HdrSame
  <2>2. /\ st'[p] = "WRITER_HDR" /\ rlock'[p] = -1
        /\ \A q \in Proc : q # p => st'[q] = st[q] /\ rlock'[q] = rlock[q]
    BY <1>9 DEF WalTypeInv, ProcOK, LockOK, Goto
  <2>3. \A q \in Proc : q # p => OwnSame(q) /\ MarkSame(q)
    BY <1>1, <2>1, <2>2 DEF OwnSame, MarkSame
  <2>4. WrtInv(A, p)'
    BY <1>4, <1>5, <2>1, <2>2 DEF WrtInv, Begun, LogSame
  <2>5. RdInv(p)'
    BY <1>2, <1>3, <2>1, <2>2 DEF RdInv, LogSame
  <2>6. CkInv(A, p)'
    BY <2>2 DEF CkInv, Copying
  <2> QED BY <1>1, <1>2, <2>1, <2>2, <2>3, <2>4, <2>5, <2>6, QuietStep DEF ProcInv
<1>10. CASE /\ idx.nBackfill > 0 /\ \A i \in Slot : FreeX(i)
            /\ hdr' = [hdr EXCEPT ![p] = h] /\ idx' = [idx EXCEPT !.b = h]
            /\ xlock' = [i \in DOMAIN xlock |-> IF i \in Slot THEN p ELSE xlock[i]]
            /\ base' = h.txn /\ Goto(p, "RESTART_A") /\ rlock' = rlock
  <2>1. idx.nBackfill = idx.a.mx
    BY <1>1, <1>2, <1>5, <1>7 DEF RdInv
  <2>2. idx.nBackfill \in 0..MaxFrame /\ idx.a.mx > 0 /\ idx.a.mx \in Frame
    BY <1>10, <2>1, FieldTypes DEF Frame
  <2>3. /\ A = idx.a.mx /\ CommitFrame(log, A) /\ log.frame[A].v = com /\ A \in Frame
    <3>1. idx.nBackfill <= A /\ A <= idx.a.mx /\ CommitFrame(log, idx.a.mx)
          /\ log.frame[idx.a.mx].v = com
      BY <1>8, <2>2 DEF WalInv, IdxInv, HdrFull
    <3>2. A = idx.a.mx
      BY <2>1, <2>2, <3>1
    <3> QED BY <2>2, <3>1, <3>2
  <2>4. db = state[com] /\ AtBase(dbLoss, state[com])
    BY <1>7, <1>8, <2>1, AllBackfilled DEF WalInv
  <2>5. LogCore(A, db, dbLoss, log, logDisk, txn, base, state) /\ ComOK(log, logDisk, com, base, txn)
    BY DEF WalInv, LogInv
  <2>6. logDisk.frame[A].v = com /\ log # NoLog
    <3>1. Same(log, logDisk, A) /\ log # NoLog /\ A \in 1..A
      BY <2>3, <2>5, ValidHasLog DEF LogCore, AnchorOK, CommitFrame, Frame
    <3> QED BY <2>3, <3>1 DEF Same
  <2>7. base' = com /\ hdr'[p] = [idx.a EXCEPT !.mx = 0, !.salt = txn]
        /\ hdr'[p].salt = txn /\ hdr'[p].txn = com
    <3>1. idx.a \in HeaderT /\ hdr \in [Proc -> HeaderT]
      BY FieldTypes DEF WalTypeInv, ProcOK
    <3>2. hdr'[p] = h /\ h = [idx.a EXCEPT !.mx = 0, !.salt = txn]
      BY <1>5, <1>10, <3>1
    <3>3. h.txn = com /\ h.salt = txn
      BY <1>8, <3>1, <3>2 DEF HeaderT
    <3> QED BY <1>10, <3>2, <3>3
  <2>8. LogInv(A)'
    <3>1. \A pg \in Page : db[pg] \in dbLoss[pg]
      BY <2>5 DEF LogCore, LossOK
    <3>2. LogCore(A, db, dbLoss, log, logDisk, txn, logDisk.frame[A].v, state)
      <4>1. log \in LogT /\ logDisk \in LogT /\ base \in Nat
        BY FieldTypes
      <4> QED BY <2>3, <2>4, <2>5, <2>6, <3>1, <4>1, Rebase
    <3>3. ComOK(log, logDisk, com, com, txn)
      BY <2>5, FieldTypes DEF ComOK
    <3> QED BY <1>1, <2>6, <2>7, <3>2, <3>3 DEF LogInv
  <2>9. idx'.a = idx.a /\ idx'.pgno = idx.pgno /\ idx'.nBackfill = idx.nBackfill /\ idx'.mark = idx.mark
    BY <1>10 DEF WalTypeInv, IndexT
  <2>10. /\ st'[p] = "RESTART_A" /\ \A q \in Proc : q # p => st'[q] = st[q] /\ hdr'[q] = hdr[q]
    BY <1>10 DEF WalTypeInv, ProcOK, Goto
  <2>11. ~Resetting'
    BY <1>6, <2>10 DEF Resetting, Writing
  <2>12. IdxInv(A)'
    <3>1. IdxInv(A)
      BY DEF WalInv
    <3>2. HdrEmpty(idx.a, dbLoss, log, com, base', state)
      BY <2>2 DEF HdrEmpty
    <3> QED BY <1>1, <1>7, <2>9, <2>11, <3>1, <3>2 DEF IdxInv
  <2>13. \A q \in Proc : rlock[q] \notin Slot
    BY <1>10 DEF FreeX, Shared
  <2>14. ASSUME NEW q \in Proc, q # p PROVE ProcInv(A, q)'
    <3>1. RdInv(q) /\ CkInv(A, q) /\ st'[q] = st[q] /\ hdr'[q] = hdr[q] /\ rlock'[q] = rlock[q]
      BY <1>10, <2>10, <2>14 DEF WalInv, ProcInv
    <3>2. WrtInv(A, q)'
      BY <1>6, <2>10, <2>14 DEF WrtInv
    <3>3. RdInv(q)'
      BY <1>1, <1>7, <2>9, <2>11, <2>13, <3>1 DEF RdInv
    <3>4. st[q] \notin {"CKPT_MARKS", "BACKFILL"}
      <4> SUFFICES ASSUME st[q] \in {"CKPT_MARKS", "BACKFILL"} PROVE FALSE
        OBVIOUS
      <4>1. idx.nBackfill < hdr[q].mx /\ hdr[q].mx <= idx.a.mx
        BY <3>1 DEF CkInv
      <4> QED BY <2>1, <4>1, FieldTypes
    <3>5. Active' => Active
      BY <1>2 DEF Active
    <3>6. CkInv(A, q)'
      BY <1>1, <2>9, <3>1, <3>4, <3>5 DEF CkInv
    <3> QED BY <3>2, <3>3, <3>6 DEF ProcInv
  <2>15. ProcInv(A, p)'
    <3>1. RestartOK(p)'
      <4>1. \A i \in Slot : xlock'[i] = p
        <5>1. Slot \subseteq DOMAIN xlock
          BY WalAssumption DEF WalTypeInv, LockOK, Slot
        <5> QED BY <1>10, <5>1
      <4>2. AtBase(dbLoss, state[com])' /\ rlock'[p] = 0
        BY <1>1, <1>10, <2>4
      <4> QED BY <1>1, <2>1, <2>4, <2>7, <2>9, <2>10, <4>1, <4>2 DEF RestartOK
    <3>2. Begun(p)'
      BY <1>1, <2>7, <2>9, <2>10 DEF Begun
    <3>3. WrtInv(A, p)'
      BY <1>1, <1>4, <1>5, <2>9, <2>10, <3>1, <3>2 DEF WrtInv
    <3>4. RdInv(p)'
      <4>1. txn <= txn /\ com <= com
        BY FieldTypes
      <4> QED BY <1>1, <1>3, <1>8, <1>10, <2>1, <2>4, <2>7, <2>9, <2>10, <4>1 DEF RdInv, Holding
    <3>5. CkInv(A, p)'
      BY <2>10 DEF CkInv, Copying
    <3> QED BY <3>3, <3>4, <3>5 DEF ProcInv
  <2> QED BY <2>8, <2>12, <2>14, <2>15 DEF WalInv
<1> QED BY <1>1, <1>9, <1>10

(* While a writer starts the log over it keeps everybody off the marks. *)
LEMMA NoSlotHeld ==
  ASSUME WalTypeInv, NEW p \in Proc, \A i \in Slot : xlock[i] = p
  PROVE  \A q \in Proc : rlock[q] \notin Slot
<1> SUFFICES ASSUME NEW q \in Proc, rlock[q] \in Slot PROVE FALSE
  OBVIOUS
<1>1. rlock[q] # -1 /\ xlock[rlock[q]] = p
  BY DEF Slot
<1>2. xlock[rlock[q]] = Nobody
  BY <1>1 DEF WalTypeInv, LockOK
<1> QED BY <1>1, <1>2, WalAssumption

LEMMA SnapRestartHdr ==
  ASSUME WalTypeInv, WalTypeInv', WriterInv, NEW A \in 0..MaxFrame, WalInv(A), NEW p \in Proc, RestartHdr(p)
  PROVE  WalInv(A)'
<1>1. /\ st[p] = "RESTART_A" /\ idx' = [idx EXCEPT !.a = hdr[p]] /\ Goto(p, "RESTART")
      /\ UNCHANGED <<disk, hdr, pick, locks, ck, hist>>
  BY DEF RestartHdr
<1>2. LogSame /\ UNCHANGED <<hdr, pick, rlock, xlock, ckpt, ck>>
  BY <1>1 DEF LogSame, disk, locks, hist
<1>3. idx'.a = hdr[p] /\ idx'.pgno = idx.pgno /\ idx'.nBackfill = idx.nBackfill /\ idx'.mark = idx.mark
  BY <1>1 DEF WalTypeInv, IndexT
<1>4. st'[p] = "RESTART" /\ \A q \in Proc : q # p => st'[q] = st[q]
  BY <1>1 DEF WalTypeInv, ProcOK, Goto
<1>5. st[p] \in Writing /\ WrtInv(A, p) /\ RdInv(p) /\ IdxInv(A)
  BY <1>1 DEF Writing, WalInv, ProcInv
<1>6. wrote = {} /\ RestartOK(p)
  BY <1>1, <1>5 DEF WrtInv
<1>7. /\ com < txn /\ NoCommitOf(log, txn) /\ NoCommitOf(logDisk, txn)
      /\ hdr[p] = [idx.a EXCEPT !.mx = 0, !.salt = txn] /\ Untouched(log, txn)
  BY <1>1, <1>5, <1>6 DEF WrtInv, Begun
<1>8. hdr[p].mx = 0 /\ hdr[p].salt = txn /\ hdr[p].init
  <2>1. idx.a \in HeaderT /\ hdr[p].init
    BY <1>5, FieldTypes DEF WriterInv
  <2> QED BY <1>7, <2>1 DEF HeaderT
<1>9. rlock[p] = 0 /\ (\A i \in Slot : xlock[i] = p) /\ base = com /\ AtBase(dbLoss, state[base])
  BY <1>6 DEF RestartOK
<1>10. \A q \in Proc : rlock[q] \notin Slot
  BY <1>9, NoSlotHeld
<1>11. \A q \in Proc : q # p => st[q] \notin Writing
  BY <1>5, OneWriter
<1>12. Resetting' /\ Restarting /\ Active
  BY <1>1, <1>4, <1>5 DEF Resetting, Restarting, Active
<1>13. LogInv(A)'
  BY <1>2, LogKeep DEF WalInv
<1>14. IdxInv(A)'
  <2>1. HdrFull(A, hdr[p], idx.pgno, log, com)
    BY <1>8 DEF HdrFull
  <2>2. CommitsOK(log, txn, 0, log, base, state)
    <3>1. \A i \in Frame : log.frame[i].salt # txn
      <4>1. \A i \in Frame : log.frame[i].salt < txn /\ log.frame[i].salt \in 0..MaxTxn
        BY <1>7, FieldTypes DEF Untouched, LogT, FrameT
      <4> QED BY <4>1, FieldTypes
    <3> QED BY <3>1 DEF CommitsOK
  <2>3. HdrEmpty(hdr[p], dbLoss, log, com, base, state)
    BY <1>8, <1>9, <2>2 DEF HdrEmpty
  <2>4. idx.nBackfill <= A
    <3>1. idx.a.init
      BY <1>5 DEF WriterInv
    <3> QED BY <1>5, <3>1 DEF IdxInv
  <2>5. txn <= txn
    BY FieldTypes
  <2> QED BY <1>2, <1>3, <1>8, <1>12, <2>1, <2>3, <2>4, <2>5 DEF IdxInv, LogSame
<1>15. ASSUME NEW q \in Proc, q # p PROVE ProcInv(A, q)'
  <2>1. RdInv(q) /\ CkInv(A, q) /\ st'[q] = st[q]
    BY <1>4, <1>15 DEF WalInv, ProcInv
  <2>2. WrtInv(A, q)'
    BY <1>11, <1>15, <2>1 DEF WrtInv
  <2>3. RdInv(q)'
    BY <1>2, <1>3, <1>8, <1>10, <1>12, <2>1 DEF RdInv, LogSame
  <2>4. CkInv(A, q)'
    <3>1. st[q] \notin {"CKPT_MARKS", "BACKFILL"}
      BY <1>12, <2>1 DEF CkInv
    <3>2. st[q] = "CKPT_HDR" /\ hdr[q].salt = txn => hdr[q].mx = 0
      BY <1>12, <2>1 DEF CkInv
    <3>3. hdr[q].mx = 0 => hdr[q].mx <= 0 /\ ~(hdr[q].mx > 0)
      OBVIOUS
    <3> QED BY <1>2, <1>3, <1>8, <2>1, <3>1, <3>2, <3>3 DEF CkInv, LogSame
  <2> QED BY <2>2, <2>3, <2>4 DEF ProcInv
<1>16. ProcInv(A, p)'
  <2>1. RestartOK(p)'
    BY <1>2, <1>3, <1>4, <1>8, <1>9 DEF RestartOK, LogSame
  <2>2. Begun(p)'
    BY <1>2, <1>3, <1>4 DEF Begun
  <2>3. WrtInv(A, p)'
    BY <1>2, <1>3, <1>4, <1>6, <1>7, <1>8, <2>1, <2>2 DEF WrtInv, LogSame
  <2>4. RdInv(p)'
    BY <1>2, <1>3, <1>4, <1>5, <1>8, <1>10, <1>12 DEF RdInv, LogSame, Holding
  <2>5. CkInv(A, p)'
    BY <1>4 DEF CkInv, Copying
  <2> QED BY <2>3, <2>4, <2>5 DEF ProcInv
<1> QED BY <1>13, <1>14, <1>15, <1>16 DEF WalInv

LEMMA SnapRestartReset ==
  ASSUME WalTypeInv, WalTypeInv', WriterInv, NEW A \in 0..MaxFrame, WalInv(A), NEW p \in Proc, RestartReset(p)
  PROVE  WalInv(A)'
<1>1. /\ st[p] = "RESTART" /\ Goto(p, "WRITER_HDR") /\ rlock' = [rlock EXCEPT ![p] = -1]
      /\ idx' = [idx EXCEPT !.nBackfill = 0, !.mark = [i \in Slot |-> IF i = 1 THEN 0 ELSE NotUsed]]
      /\ xlock' = [i \in DOMAIN xlock |-> IF i \in Slot THEN Nobody ELSE xlock[i]]
      /\ UNCHANGED <<disk, hdr, pick, wlock, ckpt, ck, hist>>
  BY DEF RestartReset
<1>2. LogSame /\ UNCHANGED <<hdr, pick, ckpt, ck>>
  BY <1>1 DEF LogSame, disk, hist
<1>3. idx'.a = idx.a /\ idx'.pgno = idx.pgno /\ idx'.nBackfill = 0
  BY <1>1 DEF WalTypeInv, IndexT
<1>4. /\ st'[p] = "WRITER_HDR" /\ rlock'[p] = -1
      /\ \A q \in Proc : q # p => st'[q] = st[q] /\ rlock'[q] = rlock[q]
  BY <1>1 DEF WalTypeInv, ProcOK, LockOK, Goto
<1>5. st[p] \in Writing /\ WrtInv(A, p) /\ RdInv(p) /\ IdxInv(A)
  BY <1>1 DEF Writing, WalInv, ProcInv
<1>6. wrote = {} /\ RestartOK(p)
  BY <1>1, <1>5 DEF WrtInv
<1>7. /\ com < txn /\ NoCommitOf(log, txn) /\ NoCommitOf(logDisk, txn)
      /\ (idx.a.salt = txn => idx.a.mx = 0)
      /\ hdr[p] = idx.a /\ Untouched(log, txn)
  BY <1>1, <1>5, <1>6 DEF WrtInv, Begun
<1>8. (\A i \in Slot : xlock[i] = p) /\ base = com /\ AtBase(dbLoss, state[base]) /\ idx.a.mx = 0
  BY <1>1, <1>6 DEF RestartOK
<1>9. \A q \in Proc : rlock'[q] \notin Slot
  <2>1. \A q \in Proc : rlock[q] \notin Slot
    BY <1>8, NoSlotHeld
  <2>2. -1 \notin Slot
    BY DEF Slot
  <2> QED BY <1>4, <2>1, <2>2
<1>10. \A q \in Proc : q # p => st[q] \notin Writing
  BY <1>5, OneWriter
<1>11. ~Resetting' /\ Restarting /\ Active
  <2>1. ~Resetting'
    BY <1>4, <1>10 DEF Resetting, Writing
  <2> QED BY <1>1, <1>5, <2>1 DEF Restarting, Active
<1>12. LogInv(A)'
  BY <1>2, LogKeep DEF WalInv
<1>13. IdxInv(A)'
  <2>1. BackOK(0, 0, db, dbLoss, log)
    <3>1. \A pg \in Page : db[pg] \in dbLoss[pg]
      BY DEF WalInv, LogInv, LogCore, LossOK
    <3>2. \A pg \in Page : dbLoss[pg] = {db[pg]}
      BY <1>8, <3>1 DEF AtBase
    <3> QED BY <3>2, NoCopied DEF BackOK
  <2>2. 0 <= A
    OBVIOUS
  <2> QED BY <1>2, <1>3, <1>5, <1>8, <2>1, <2>2 DEF IdxInv, LogSame
<1>14. ASSUME NEW q \in Proc, q # p PROVE ProcInv(A, q)'
  <2>1. RdInv(q) /\ CkInv(A, q) /\ st'[q] = st[q] /\ rlock'[q] = rlock[q]
    BY <1>4, <1>14 DEF WalInv, ProcInv
  <2>2. WrtInv(A, q)'
    BY <1>10, <1>14, <2>1 DEF WrtInv
  <2>3. RdInv(q)'
    BY <1>2, <1>3, <1>8, <1>9, <2>1 DEF RdInv, LogSame
  <2>4. CkInv(A, q)'
    <3>1. st[q] \notin {"CKPT_MARKS", "BACKFILL"}
      BY <1>11, <2>1 DEF CkInv
    <3> QED BY <1>2, <1>3, <1>11, <2>1, <3>1 DEF CkInv, LogSame
  <2> QED BY <2>2, <2>3, <2>4 DEF ProcInv
<1>15. ProcInv(A, p)'
  <2>1. Begun(p)'
    BY <1>2, <1>3, <1>4, <1>7 DEF Begun
  <2>2. WrtInv(A, p)'
    BY <1>2, <1>3, <1>4, <1>6, <1>7, <2>1 DEF WrtInv, LogSame
  <2>3. RdInv(p)'
    BY <1>2, <1>4, <1>5, <1>9 DEF RdInv, LogSame
  <2>4. CkInv(A, p)'
    BY <1>4 DEF CkInv, Copying
  <2> QED BY <2>2, <2>3, <2>4 DEF ProcInv
<1> QED BY <1>12, <1>13, <1>14, <1>15 DEF WalInv

-------------------------------------------------------------------------------
(* The commit: the writer's header becomes the last one. *)

LEMMA CopiedFurther ==
  ASSUME NEW d, NEW l, NEW n, NEW o \in Nat, NEW m \in Nat, o <= m, Copied(d, l, 0, n, o)
  PROVE  Copied(d, l, 0, n, m)
<1>1. \A s, f : f \in Frame /\ LastIn(s, f, m) => LastIn(s, f, o)
  <2>1. \A f \in Frame : \A k \in (f + 1)..o : k \in (f + 1)..m
    BY DEF Frame
  <2> QED BY <2>1 DEF LastIn
<1> QED BY <1>1 DEF Copied

LEMMA SnapPublishA ==
  ASSUME WalTypeInv, WalTypeInv', WriterInv, NEW A \in 0..MaxFrame, WalInv(A), NEW p \in Proc, PublishA(p)
  PROVE  WalInv(A)' /\ com' >= com
<1> DEFINE m == hdr[p].mx
           o == idx.a.mx
<1>1. /\ st[p] = "COMMIT_A" /\ idx' = [idx EXCEPT !.a = hdr[p]] /\ com' = txn /\ Goto(p, "READER")
      /\ UNCHANGED <<disk, hdr, pick, rlock, ckpt, xlock, ck, txn, wrote, state, base, overrun>>
  BY DEF PublishA
<1>2. UNCHANGED <<db, dbLoss, log, logDisk, hdr, pick, rlock, ckpt, xlock, ck, txn, state, base>>
  BY <1>1 DEF disk
<1>3. idx'.a = hdr[p] /\ idx'.pgno = idx.pgno /\ idx'.nBackfill = idx.nBackfill /\ idx'.mark = idx.mark
  BY <1>1 DEF WalTypeInv, IndexT
<1>4. st'[p] = "READER" /\ \A q \in Proc : q # p => st'[q] = st[q]
  BY <1>1 DEF WalTypeInv, ProcOK, Goto
<1>5. st[p] \in Writing /\ WrtInv(A, p) /\ RdInv(p) /\ IdxInv(A) /\ LogInv(A)
  BY <1>1 DEF Writing, WalInv, ProcInv
<1>6. /\ com < txn /\ rlock[p] \in Slot /\ hdr[p].salt \in {idx.a.salt, txn} /\ log.frame[m].commit
      /\ Added(A, hdr[p], o, idx.pgno, log, txn, wrote, com, base, state)
  BY <1>1, <1>5 DEF WrtInv
<1>7. /\ m > o /\ A <= o /\ log.salt = hdr[p].salt /\ Valid(log, m) /\ hdr[p].sum = log.frame[m].sum
      /\ log.frame[m].v = txn /\ PgnoOK(idx.pgno, log, m)
  BY <1>6 DEF Added
<1>8. m \in 0..MaxFrame /\ o \in 0..MaxFrame /\ txn \in Nat /\ com \in Nat /\ base \in Nat
      /\ MaxFrame \in Nat
  BY FieldTypes, WalAssumption
<1>9. m \in Frame /\ m > 0 /\ A <= m /\ m <= m
  BY <1>7, <1>8 DEF Frame
<1>10. CommitFrame(log, m)
  BY <1>6, <1>7, <1>9 DEF CommitFrame
<1>11. hdr[p].init /\ idx.a.init /\ hdr[p].txn = txn
  BY <1>1, <1>5 DEF WriterInv
<1>12. \A q \in Proc : q # p => st[q] \notin Writing
  BY <1>5, OneWriter
<1>13. ~Resetting /\ ~Resetting' /\ ~Restarting' /\ ~Active' /\ Active
  <2>1. \A q \in Proc : st'[q] \notin Writing
    BY <1>4, <1>12 DEF Writing
  <2>2. ~Active' /\ Active
    BY <1>5, <2>1 DEF Active
  <2>3. ~Resetting' /\ ~Restarting'
    BY <2>1 DEF Resetting, Restarting, Writing
  <2>4. ~Resetting
    BY <1>1, <1>12 DEF Resetting, Writing
  <2> QED BY <2>2, <2>3, <2>4
<1>14. LogInv(A)'
  <2>1. ComOK(log, logDisk, com, base, txn) /\ log # NoLog
    BY <1>5, <1>9, <1>10, ValidHasLog DEF LogInv, CommitFrame
  <2>2. ComIn(log, txn)
    BY <1>7, <1>9, <1>10 DEF ComIn
  <2>3. ComOK(log, logDisk, txn, base, txn)
    BY <1>6, <1>8, <2>1, <2>2 DEF ComOK
  <2> QED BY <1>1, <1>2, <1>5, <2>3 DEF LogInv
<1>15. IdxInv(A)'
  <2>1. HdrFull(A, hdr[p], idx.pgno, log, txn)
    BY <1>7, <1>9, <1>10 DEF HdrFull
  <2>2. HdrEmpty(hdr[p], dbLoss, log, txn, base, state)
    BY <1>9 DEF HdrEmpty
  <2>3. BackOK(idx.nBackfill, o, db, dbLoss, log) /\ idx.nBackfill <= A
    BY <1>5, <1>11, <1>13 DEF IdxInv
  <2>4. BackOK(idx.nBackfill, m, db, dbLoss, log)
    <3>1. idx.nBackfill \in 0..MaxFrame /\ idx.nBackfill <= o /\ Copied(db, log, 0, idx.nBackfill, o)
      BY <2>3, FieldTypes DEF BackOK
    <3>2. idx.nBackfill <= m /\ idx.nBackfill # m /\ o \in Nat /\ m \in Nat /\ o <= m
      BY <1>7, <1>8, <3>1
    <3>3. Copied(db, log, 0, idx.nBackfill, m)
      BY <3>1, <3>2, CopiedFurther
    <3> QED BY <3>2, <3>3 DEF BackOK
  <2>5. hdr[p].salt <= txn
    BY <1>5 DEF RdInv
  <2> QED BY <1>1, <1>2, <1>3, <2>1, <2>2, <2>3, <2>4, <2>5 DEF IdxInv
<1>16. ASSUME NEW q \in Proc, q # p PROVE ProcInv(A, q)'
  <2>1. RdInv(q) /\ CkInv(A, q) /\ st'[q] = st[q] /\ hdr'[q] = hdr[q] /\ rlock'[q] = rlock[q]
    BY <1>2, <1>4, <1>16 DEF WalInv, ProcInv
  <2>2. WrtInv(A, q)'
    BY <1>12, <1>16, <2>1 DEF WrtInv
  <2>3. hdr[q].mx \in 0..MaxFrame /\ hdr[q].txn \in 0..MaxTxn
    BY FieldTypes
  <2>4. RdInv(q)'
    <3>1. rlock[q] \in Slot => idx.mark[rlock[q]] <= hdr[q].mx /\ idx.mark[rlock[q]] <= m
      <4>1. rlock[q] \in Slot => idx.mark[rlock[q]] \in 0..NotUsed /\ NotUsed \in Nat
        BY WalAssumption DEF WalTypeInv, IndexT, NotUsed
      <4> QED BY <1>7, <1>8, <2>1, <4>1 DEF RdInv
    <3>2. hdr[q].txn <= com => hdr[q].txn <= txn /\ hdr[q] # hdr[p]
      BY <1>6, <1>8, <1>11, <2>3
    <3>3. hdr[q].mx <= o => hdr[q].mx <= m
      BY <1>7, <1>8, <2>3
    <3> QED BY <1>1, <1>2, <1>3, <1>11, <2>1, <3>1, <3>2, <3>3 DEF RdInv
  <2>5. CkInv(A, q)'
    <3>1. hdr[q].mx <= o => hdr[q].mx <= m
      BY <1>7, <1>8, <2>3
    <3>2. st[q] = "CKPT_HDR" /\ hdr[q].salt = hdr[p].salt =>
            hdr[q].mx <= m /\ (hdr[q].mx > 0 => log.frame[hdr[q].mx].commit)
      <4>1. CASE hdr[p].salt = idx.a.salt
        BY <2>1, <3>1, <4>1 DEF CkInv
      <4>2. CASE hdr[p].salt = txn
        <5>1. st[q] = "CKPT_HDR" /\ hdr[q].salt = txn => hdr[q].mx = 0
          BY <1>13, <2>1 DEF CkInv
        <5>2. 0 <= m /\ ~(0 > 0)
          BY <1>8
        <5> QED BY <4>2, <5>1, <5>2
      <4> QED BY <1>6, <4>1, <4>2
    <3>3. ASSUME st[q] \in {"CKPT_MARKS", "BACKFILL"} PROVE ReadersSafe(ck.i, ck.safe)'
      <4>1. ck.safe <= hdr[q].mx /\ hdr[q].mx <= o /\ ReadersSafe(ck.i, ck.safe)
        BY <2>1, <3>3 DEF CkInv
      <4>2. ck.safe \in 0..MaxFrame
        BY DEF WalTypeInv, ProcOK, CkptT
      <4>3. ck.safe <= m
        BY <1>7, <1>8, <2>3, <4>1, <4>2
      <4> QED BY <1>2, <1>4, <4>1, <4>3 DEF ReadersSafe
    <3> QED BY <1>2, <1>3, <1>11, <1>13, <2>1, <3>1, <3>2, <3>3 DEF CkInv
  <2> QED BY <2>2, <2>4, <2>5 DEF ProcInv
<1>17. ProcInv(A, p)'
  <2>1. WrtInv(A, p)' /\ CkInv(A, p)'
    BY <1>4 DEF WrtInv, CkInv, Writing, Copying
  <2>2. SlotView(hdr[p], db, log, base, state)
    <3>1. /\ Shows(state[log.frame[m].v], state[base], Links(log), m)
          /\ \A pg \in Page : Unseen(Links(log), pg, m) => db[pg] = state[base][pg]
      BY <1>5, <1>9, <1>10, CoreCommit DEF LogInv
    <3> QED BY <1>7, <1>11, <3>1 DEF SlotView
  <2>3. idx.mark[rlock[p]] <= m /\ hdr[p].salt <= txn /\ txn <= txn
    BY <1>5, <1>6, <1>8 DEF RdInv
  <2>4. rlock[p] # -1 /\ rlock[p] # 0
    BY <1>6 DEF Slot
  <2>5. RdInv(p)'
    BY <1>1, <1>2, <1>3, <1>4, <1>9, <1>11, <2>2, <2>3, <2>4 DEF RdInv, Holding
  <2> QED BY <2>1, <2>5 DEF ProcInv
<1>18. com' >= com
  BY <1>1, <1>6, <1>8
<1> QED BY <1>14, <1>15, <1>16, <1>17, <1>18 DEF WalInv

-------------------------------------------------------------------------------
(* The checkpoint copies.  Once the log is synced the checkpoint's own header *)
(* is what a loss of power cannot go behind.                                  *)

LEMMA Advance ==
  ASSUME NEW A \in 0..MaxFrame, NEW d, NEW dl, NEW l, NEW k, NEW t, NEW b, NEW S,
         LogCore(A, d, dl, l, k, t, b, S), NEW B \in Frame, CommitFrame(l, B), A <= B
  PROVE  LogCore(B, d, dl, l, l, t, b, S)
<1>1. l # NoLog /\ l.salt = k.salt /\ Same(l, k, A)
  BY CoreCommit
<1>2. FramesOK(l, t) /\ SaltsOK(l, k) /\ CommitsOK(l, k.salt, A, k, b, S) /\ LossOK(A, d, dl, k, S[b])
  BY DEF LogCore
<1>3. SaltsOK(l, l) /\ Same(l, l, B) /\ AnchorOK(B, l, l)
  BY <1>2 DEF SaltsOK, Same, AnchorOK
<1>4. \A j \in 1..A : j \in 1..B
  BY DEF Frame
<1>5. \A fr : Extends(fr, B, l) => Extends(fr, A, k)
  BY <1>1, <1>4 DEF Extends, Same
<1>6. \A i \in Frame : i >= B => i >= A
  BY DEF Frame
<1>7. CommitsOK(l, l.salt, B, l, b, S)
  BY <1>1, <1>2, <1>5, <1>6 DEF CommitsOK
<1>8. LossOK(B, d, dl, l, S[b])
  <2>1. \A pg \in Page : Unseen(Links(l), pg, B) => Unseen(Links(k), pg, A)
    BY <1>1, UnseenAnchor DEF Frame
  <2> QED BY <1>2, <2>1 DEF LossOK
<1> QED BY <1>1, <1>2, <1>3, <1>7, <1>8 DEF LogCore

(* What a checkpoint past its first look at nBackfill knows of its frames. *)
LEMMA CkptFrames ==
  ASSUME WalTypeInv, NEW A \in 0..MaxFrame, WalInv(A), NEW p \in Proc,
         st[p] \in {"CKPT_MARKS", "BACKFILL"}
  PROVE  /\ hdr[p].mx \in Frame /\ hdr[p].mx <= idx.a.mx /\ idx.a.init /\ idx.a.mx \in Frame
         /\ A <= idx.a.mx /\ CommitFrame(log, idx.a.mx) /\ CommitFrame(log, hdr[p].mx)
         /\ PgnoOK(idx.pgno, log, idx.a.mx) /\ idx.nBackfill < hdr[p].mx
         /\ ck.safe <= hdr[p].mx /\ ck.safe \in 0..MaxFrame /\ idx.nBackfill \in 0..MaxFrame
         /\ ~Restarting /\ ~Resetting /\ ckpt = p /\ rlock[p] = -1 /\ log # NoLog
         /\ \A q \in Proc : q # p => st[q] \notin Copying
<1>1. /\ idx.a.init /\ 0 < hdr[p].mx /\ hdr[p].mx <= idx.a.mx /\ log.frame[hdr[p].mx].commit
      /\ idx.nBackfill < hdr[p].mx /\ ck.safe <= hdr[p].mx /\ ~Restarting /\ ckpt = p
  BY DEF WalInv, ProcInv, CkInv, Copying
<1>2. hdr[p].mx \in 0..MaxFrame /\ idx.a.mx \in 0..MaxFrame /\ ck.safe \in 0..MaxFrame
      /\ idx.nBackfill \in 0..MaxFrame /\ MaxFrame \in Nat
  BY FieldTypes, WalAssumption DEF WalTypeInv, ProcOK, CkptT
<1>3. hdr[p].mx \in Frame /\ idx.a.mx > 0 /\ idx.a.mx \in Frame
  BY <1>1, <1>2 DEF Frame
<1>4. A <= idx.a.mx /\ CommitFrame(log, idx.a.mx) /\ PgnoOK(idx.pgno, log, idx.a.mx)
  BY <1>1, <1>3 DEF WalInv, IdxInv, HdrFull
<1>5. Valid(log, hdr[p].mx) /\ log # NoLog
  BY <1>1, <1>2, <1>3, <1>4, ValidPrefix, ValidHasLog DEF CommitFrame
<1>6. rlock[p] = -1
  BY NoLockHeld DEF WalInv, Holding
<1>7. ~Resetting
  BY <1>1 DEF Resetting, Restarting
<1>8. \A q \in Proc : q # p => st[q] \notin Copying
  BY <1>1 DEF WalInv, ProcInv, CkInv
<1> QED BY <1>1, <1>2, <1>3, <1>4, <1>5, <1>6, <1>7, <1>8 DEF CommitFrame

LEMMA SnapCkptLock0 ==
  ASSUME WalTypeInv, WalTypeInv', WriterInv, NEW A \in 0..MaxFrame, WalInv(A), NEW p \in Proc, CkptLock0(p)
  PROVE  \E B \in 0..MaxFrame : WalInv(B)'
<1>1. /\ st[p] = "CKPT_MARKS" /\ ck.i = NReader
      /\ UNCHANGED <<db, dbLoss, log, idx, hdr, pick, rlock, wlock, ckpt, hist>>
      /\ \/ /\ FreeX(0) /\ xlock' = [xlock EXCEPT ![0] = p] /\ logDisk' = log
            /\ ck' = [ck EXCEPT !.from = idx.nBackfill] /\ Goto(p, "BACKFILL")
         \/ Goto(p, "CKPT_DONE") /\ ck' = CkptOver /\ UNCHANGED <<xlock, logDisk>>
  BY DEF CkptLock0
<1>2. UNCHANGED <<txn, wrote, com, state, base>>
  BY <1>1 DEF hist
<1>3. /\ hdr[p].mx \in Frame /\ hdr[p].mx <= idx.a.mx /\ idx.a.init /\ idx.a.mx \in Frame
      /\ A <= idx.a.mx /\ CommitFrame(log, hdr[p].mx)
      /\ ~Restarting /\ ~Resetting /\ ckpt = p /\ rlock[p] = -1 /\ log # NoLog
      /\ \A q \in Proc : q # p => st[q] \notin Copying
  BY <1>1, CkptFrames
<1>4. RdInv(p) /\ CkInv(A, p)
  BY DEF WalInv, ProcInv
<1>5. CASE Goto(p, "CKPT_DONE") /\ ck' = CkptOver /\ UNCHANGED <<xlock, logDisk>>
  <2>1. LogSame /\ HdrSame
    BY <1>1, <1>2, <1>5 DEF LogSame, HdrSame
  <2>2. st'[p] = "CKPT_DONE" /\ \A q \in Proc : q # p => st'[q] = st[q]
    BY <1>5 DEF WalTypeInv, ProcOK, Goto
  <2>3. \A q \in Proc : q # p => OwnSame(q) /\ MarkSame(q)
    BY <1>1, <2>2 DEF OwnSame, MarkSame
  <2>4. ProcInv(A, p)'
    <3>1. hdr'[p].salt <= txn'
      BY <1>1, <1>2, <1>4 DEF RdInv
    <3> QED BY <1>1, <1>3, <2>2, <3>1 DEF ProcInv, WrtInv, RdInv, CkInv, Writing, Slot
  <2>5. WalInv(A)'
    BY <1>1, <1>3, <1>5, <2>1, <2>2, <2>3, <2>4, QuietStep DEF Writing
  <2> QED BY <2>5
<1>6. CASE /\ FreeX(0) /\ xlock' = [xlock EXCEPT ![0] = p] /\ logDisk' = log
           /\ ck' = [ck EXCEPT !.from = idx.nBackfill] /\ Goto(p, "BACKFILL")
  <2>1. st'[p] = "BACKFILL" /\ \A q \in Proc : q # p => st'[q] = st[q]
    BY <1>6 DEF WalTypeInv, ProcOK, Goto
  <2>2. /\ ck'.safe = ck.safe /\ ck'.i = ck.i /\ ck'.todo = ck.todo /\ ck'.from = idx.nBackfill
    BY <1>6 DEF WalTypeInv, ProcOK, CkptT
  <2>3. xlock'[0] = p /\ \A i \in Slot : xlock'[i] = xlock[i]
    BY <1>6, WalAssumption DEF WalTypeInv, LockOK, Slot
  <2>4. LogCore(A, db, dbLoss, log, logDisk, txn, base, state) /\ ComOK(log, logDisk, com, base, txn)
        /\ IdxInv(A)
    BY DEF WalInv, LogInv
  <2>5. \E B \in Frame : A <= B /\ hdr[p].mx <= B /\ B <= idx.a.mx /\ CommitFrame(log, B)
    <3>1. hdr[p].mx \in Nat /\ hdr[p].mx > 0
      BY <1>3 DEF Frame
    <3>2. CASE A <= hdr[p].mx
      BY <1>3, <3>1, <3>2
    <3>3. CASE ~(A <= hdr[p].mx)
      <4>1. A > 0 /\ A \in Nat /\ hdr[p].mx <= A /\ A <= A
        BY <3>1, <3>3
      <4>2. CommitFrame(logDisk, A) /\ Same(logDisk, log, A) /\ logDisk.salt = log.salt /\ A \in Frame
        BY <1>3, <2>4, <4>1, SameSym DEF LogCore, AnchorOK, SaltsOK, CommitFrame
      <4>3. CommitFrame(log, A)
        BY <4>2, CommitFrameSame
      <4> QED BY <1>3, <4>1, <4>2, <4>3
    <3> QED BY <3>2, <3>3
  <2>6. PICK B \in Frame : A <= B /\ hdr[p].mx <= B /\ B <= idx.a.mx /\ CommitFrame(log, B)
    BY <2>5
  <2>7. LogInv(B)'
    <3>1. LogCore(B, db, dbLoss, log, log, txn, base, state)
      BY <2>4, <2>6, Advance
    <3>2. SyncOK(log, log)
      BY DEF SyncOK, Same
    <3>3. ComOK(log, log, com, base, txn)
      BY <2>4, <3>2 DEF ComOK
    <3> QED BY <1>1, <1>2, <1>6, <3>1, <3>3 DEF LogInv
  <2>8. (Resetting' <=> Resetting) /\ ~Restarting'
    BY <1>1, <1>3, <2>1 DEF Resetting, Restarting
  <2>9. IdxInv(B)'
    <3>1. HdrFull(A, idx.a, idx.pgno, log, com) => HdrFull(B, idx.a, idx.pgno, log, com)
      BY <2>6 DEF HdrFull
    <3>2. idx.nBackfill <= A => idx.nBackfill <= B
      BY <2>6, FieldTypes DEF Frame
    <3> QED BY <1>1, <1>2, <2>4, <2>8, <3>1, <3>2 DEF IdxInv
  <2>10. ASSUME NEW q \in Proc, q # p PROVE ProcInv(B, q)'
    <3>1. WrtInv(A, q) /\ RdInv(q) /\ st'[q] = st[q]
      BY <2>1, <2>10 DEF WalInv, ProcInv
    <3>2. WrtInv(B, q)'
      <4>1. st[q] \notin {"RESTART_A", "RESTART"}
        BY <1>3 DEF Restarting
      <4>2. Begun(q) => Begun(q)'
        BY <1>1, <1>2, <3>1 DEF Begun
      <4>3. Added(A, hdr[q], idx.a.mx, idx.pgno, log, txn, wrote, com, base, state) =>
            Added(B, hdr[q], idx.a.mx, idx.pgno, log, txn, wrote, com, base, state)
        BY <2>6 DEF Added
      <4> QED BY <1>1, <1>2, <1>6, <3>1, <4>1, <4>2, <4>3 DEF WrtInv
    <3>3. RdInv(q)'
      BY <1>1, <1>2, <2>8, <3>1 DEF RdInv
    <3>4. CkInv(B, q)'
      BY <1>3, <2>10, <3>1 DEF CkInv, Copying
    <3> QED BY <3>2, <3>3, <3>4 DEF ProcInv
  <2>11. ProcInv(B, p)'
    <3>1. WrtInv(B, p)'
      BY <2>1 DEF WrtInv, Writing
    <3>2. RdInv(p)'
      BY <1>1, <1>2, <1>3, <1>4, <2>1 DEF RdInv, Slot
    <3>3. /\ 0 < hdr[p].mx /\ log.frame[hdr[p].mx].commit
          /\ idx.nBackfill < hdr[p].mx /\ ck.safe <= hdr[p].mx
          /\ ReadersSafe(ck.i, ck.safe) /\ ck.i <= NReader
          /\ TodoLast(log, hdr[p].mx, ck.todo) /\ TodoOK(log, hdr[p].mx, ck.todo)
      BY <1>1, <1>4 DEF CkInv
    <3>4. ReadersSafe(ck.i, ck.safe)'
      BY <1>1, <2>1, <2>2, <3>3 DEF ReadersSafe
    <3>5. DoneOK(db, log, hdr[p].mx, idx.nBackfill, ck.safe, ck.todo)
      <4>1. \A f \in Frame : f <= ck.safe => f <= hdr[p].mx
        <5>1. ck.safe \in 0..MaxFrame
          BY <1>1, CkptFrames
        <5> QED BY <1>3, <3>3, <5>1 DEF Frame
      <4> QED BY <3>3, <4>1 DEF DoneOK, TodoOK
    <3>6. CkInv(B, p)'
      BY <1>1, <1>3, <2>1, <2>2, <2>3, <2>6, <2>8, <3>3, <3>4, <3>5 DEF CkInv
    <3> QED BY <3>1, <3>2, <3>6 DEF ProcInv
  <2>12. WalInv(B)' /\ B \in 0..MaxFrame
    BY <2>7, <2>9, <2>10, <2>11 DEF WalInv, Frame
  <2> QED BY <2>12
<1> QED BY <1>1, <1>5, <1>6

(* One frame is copied: the last of its page in the checkpoint's log.  Every  *)
(* reader of the log finds the page there, nobody reads the database alone.   *)
LEMMA OneLast ==
  ASSUME NEW l, NEW m \in 0..MaxFrame, NEW f \in Frame, NEW g \in Frame, f <= m, g <= m,
         LastIn(Links(l), f, m), LastIn(Links(l), g, m), l.frame[f].pg = l.frame[g].pg
  PROVE  f = g
<1>1. Links(l)[f][1] = Links(l)[g][1]
  BY LinksAt
<1>2. CASE f < g
  <2>1. g \in (f + 1)..m
    BY <1>2 DEF Frame
  <2> QED BY <1>1, <2>1 DEF LastIn
<1>3. CASE g < f
  <2>1. f \in (g + 1)..m
    BY <1>3 DEF Frame
  <2> QED BY <1>1, <2>1 DEF LastIn
<1> QED BY <1>2, <1>3 DEF Frame

LEMMA LastEarlier ==
  ASSUME NEW s, NEW f \in Frame, NEW o \in 0..MaxFrame, NEW m \in 0..MaxFrame, o <= m, LastIn(s, f, m)
  PROVE  LastIn(s, f, o)
<1>1. \A k \in (f + 1)..o : k \in (f + 1)..m
  BY DEF Frame
<1> QED BY <1>1 DEF LastIn

LEMMA NoBaseReader ==
  ASSUME WalTypeInv, NEW p \in Proc, xlock[0] = p PROVE \A q \in Proc : rlock[q] # 0
<1> SUFFICES ASSUME NEW q \in Proc, rlock[q] = 0 PROVE FALSE
  OBVIOUS
<1>1. rlock[q] # -1
  OBVIOUS
<1>2. xlock[rlock[q]] = Nobody
  BY <1>1 DEF WalTypeInv, LockOK
<1> QED BY <1>2, WalAssumption

LEMMA SnapBackfill ==
  ASSUME WalTypeInv, WalTypeInv', WriterInv, NEW A \in 0..MaxFrame, WalInv(A), NEW p \in Proc,
         NEW f \in Frame, Backfill(p, f)
  PROVE  WalInv(A)'
<1> DEFINE pg == idx.pgno[f]
           m  == hdr[p].mx
           v  == log.frame[f].v
<1>1. /\ st[p] = "BACKFILL" /\ f \in ck.todo /\ ck' = [ck EXCEPT !.todo = @ \ {f}]
      /\ UNCHANGED <<log, logDisk, idx, st, hdr, pick, locks, hist>>
      /\ \/ /\ f > ck.from /\ f <= ck.safe
            /\ db' = [db EXCEPT ![pg] = v] /\ dbLoss' = [dbLoss EXCEPT ![pg] = @ \cup {v}]
         \/ ~(f > ck.from /\ f <= ck.safe /\ pg # 0) /\ UNCHANGED <<db, dbLoss>>
  BY DEF Backfill
<1>2. UNCHANGED <<log, logDisk, idx, st, hdr, pick, rlock, wlock, xlock, ckpt, txn, wrote, com, state, base>>
  BY <1>1 DEF locks, hist
<1>3. /\ m \in Frame /\ m <= idx.a.mx /\ idx.a.init /\ idx.a.mx \in Frame
      /\ A <= idx.a.mx /\ CommitFrame(log, idx.a.mx) /\ CommitFrame(log, m)
      /\ PgnoOK(idx.pgno, log, idx.a.mx) /\ idx.nBackfill < m
      /\ ck.safe <= m /\ ck.safe \in 0..MaxFrame /\ idx.nBackfill \in 0..MaxFrame
      /\ ~Restarting /\ ~Resetting /\ ckpt = p /\ rlock[p] = -1 /\ log # NoLog
      /\ \A q \in Proc : q # p => st[q] \notin Copying
  BY <1>1, CkptFrames
<1>4. RdInv(p) /\ CkInv(A, p) /\ LogInv(A) /\ IdxInv(A)
  BY DEF WalInv, ProcInv
<1>5. /\ ReadersSafe(ck.i, ck.safe) /\ TodoLast(log, m, ck.todo)
      /\ ck.i = NReader /\ xlock[0] = p /\ m <= A /\ ck.from = idx.nBackfill
      /\ DoneOK(db, log, m, ck.from, ck.safe, ck.todo)
  BY <1>1, <1>4 DEF CkInv
<1>6. /\ m \in 0..MaxFrame /\ m \in Nat /\ m > 0 /\ idx.a.mx \in 0..MaxFrame /\ idx.a.mx > 0
      /\ f \in Nat /\ MaxFrame \in Nat
  BY <1>3, WalAssumption DEF Frame
<1>7. f <= m /\ LastIn(Links(log), f, m) /\ f <= idx.a.mx /\ f <= A
  <2>1. f <= m /\ LastIn(Links(log), f, m)
    BY <1>1, <1>5 DEF TodoLast
  <2> QED BY <1>3, <1>5, <1>6, <2>1
<1>8. log.frame[f].pg = pg /\ pg \in Page /\ pg # 0
  <2>1. f \in 1..idx.a.mx
    BY <1>6, <1>7 DEF Frame
  <2>2. log.frame[f].pg = pg
    BY <1>3, <2>1 DEF PgnoOK
  <2>3. log.salt # 0 /\ log.frame[f].salt = log.salt
    BY <1>3, <2>1, ValidPart DEF CommitFrame
  <2>4. log.frame[f].pg \in Page
    BY <1>4, <2>3 DEF LogInv, LogCore, FramesOK, FrameOK
  <2> QED BY <2>2, <2>4, WalAssumption
<1>9. Links(log)[f][1] = pg
  BY <1>8, LinksAt
<1>10. ck'.safe = ck.safe /\ ck'.i = ck.i /\ ck'.from = ck.from /\ ck'.todo = ck.todo \ {f}
  BY <1>1 DEF WalTypeInv, ProcOK, CkptT
<1>11. \A q \in Proc : rlock[q] # 0
  BY <1>5, NoBaseReader
<1>12. /\ \A x \in Page : x # pg => db'[x] = db[x] /\ dbLoss'[x] = dbLoss[x]
       /\ \/ db'[pg] = v /\ v \in dbLoss'[pg] /\ f > ck.from /\ f <= ck.safe
          \/ ~(f > ck.from /\ f <= ck.safe) /\ UNCHANGED <<db, dbLoss>>
  BY <1>1, <1>8 DEF WalTypeInv, DiskOK
<1> HIDE DEF pg, m, v
<1>13. Same(log, logDisk, A) /\ LossOK(A, db, dbLoss, logDisk, state[base])
  <2>1. A > 0
    BY <1>6, <1>7 DEF Frame
  <2> QED BY <1>3, <1>4, <2>1 DEF LogInv, LogCore, AnchorOK
<1>14. LogInv(A)'
  <2>1. ~Unseen(Links(logDisk), pg, A)
    <3>1. f \in 1..A
      BY <1>6, <1>7 DEF Frame
    <3>2. Links(logDisk)[f][1] = pg
      BY <1>8, <1>13, <3>1, LinksAt DEF Same
    <3> QED BY <3>1, <3>2 DEF Unseen
  <2>2. LossOK(A, db', dbLoss', logDisk, state[base])
    BY <1>12, <1>13, <2>1 DEF LossOK
  <2>3. LogCore(A, db', dbLoss', log, logDisk, txn, base, state)
    BY <1>3, <1>4, <2>2 DEF LogInv, LogCore
  <2> QED BY <1>2, <1>4, <2>3 DEF LogInv
<1>15. Resetting' <=> Resetting
  BY <1>2 DEF Resetting
<1>16. IdxInv(A)'
  <2>1. BackOK(idx.nBackfill, idx.a.mx, db, dbLoss, log)
    BY <1>3, <1>4 DEF IdxInv
  <2>2. idx.nBackfill # idx.a.mx
    BY <1>3, <1>6
  <2>3. Copied(db', log, 0, idx.nBackfill, idx.a.mx)
    <3> SUFFICES ASSUME NEW g \in Frame, 0 < g, g <= idx.nBackfill, LastIn(Links(log), g, idx.a.mx)
                 PROVE  db'[log.frame[g].pg] = log.frame[g].v
      BY DEF Copied
    <3>1. db[log.frame[g].pg] = log.frame[g].v
      BY <2>1 DEF BackOK, Copied
    <3>2. CASE UNCHANGED <<db, dbLoss>>
      BY <3>1, <3>2
    <3>3. CASE f > ck.from
      <4>1. f \in (g + 1)..idx.a.mx
        BY <1>3, <1>5, <1>6, <1>7, <3>3 DEF Frame
      <4>2. log.frame[g].pg # pg
        BY <1>9, <4>1, LinksAt DEF LastIn
      <4>3. log.frame[g].pg \in Page
        <5>1. g \in 1..idx.a.mx
          BY <1>3, <1>6 DEF Frame
        <5>2. log.salt # 0 /\ log.frame[g].salt = log.salt
          BY <1>3, <5>1, ValidPart DEF CommitFrame
        <5> QED BY <1>4, <5>2 DEF LogInv, LogCore, FramesOK, FrameOK
      <4> QED BY <1>12, <3>1, <4>2, <4>3
    <3> QED BY <1>12, <3>2, <3>3
  <2>4. BackOK(idx.nBackfill, idx.a.mx, db', dbLoss', log)
    BY <2>1, <2>2, <2>3 DEF BackOK
  <2>5. HdrEmpty(idx.a, dbLoss', log, com, base, state)
    BY <1>6 DEF HdrEmpty
  <2> QED BY <1>2, <1>4, <2>4, <2>5 DEF IdxInv
<1>17. ASSUME NEW q \in Proc PROVE WrtInv(A, q)' /\ RdInv(q)'
  <2>1. WrtInv(A, q) /\ RdInv(q)
    BY DEF WalInv, ProcInv
  <2>2. st[q] \notin {"RESTART_A", "RESTART"}
    BY <1>3 DEF Restarting
  <2>3. Begun(q) => Begun(q)'
    BY <1>2 DEF Begun
  <2>4. WrtInv(A, q)'
    BY <1>2, <2>1, <2>2, <2>3 DEF WrtInv
  <2>5. ASSUME rlock[q] \in Slot, st[q] = "READER", SlotView(hdr[q], db, log, base, state)
        PROVE  SlotView(hdr[q], db', log, base, state)
    <3>1. CASE UNCHANGED <<db, dbLoss>>
      BY <2>5, <3>1
    <3>2. CASE f <= ck.safe
      <4>1. ck.safe <= hdr[q].mx /\ hdr[q].mx \in 0..MaxFrame
        BY <1>5, <2>5, FieldTypes, WalAssumption DEF ReadersSafe, Slot
      <4>2. f \in 1..hdr[q].mx
        BY <1>3, <1>6, <3>2, <4>1 DEF Frame
      <4>3. ~Unseen(Links(log), pg, hdr[q].mx)
        BY <1>9, <4>2 DEF Unseen
      <4> QED BY <1>12, <2>5, <4>3 DEF SlotView
    <3> QED BY <1>12, <3>1, <3>2
  <2>6. RdInv(q)'
    BY <1>2, <1>11, <1>15, <2>1, <2>5 DEF RdInv
  <2> QED BY <2>4, <2>6
<1>18. CkInv(A, p)'
  <2>1. TodoLast(log, m, ck.todo \ {f})
    BY <1>5 DEF TodoLast
  <2>2. DoneOK(db', log, m, ck.from, ck.safe, ck.todo \ {f})
    <3> SUFFICES ASSUME NEW g \in Frame, ck.from < g, g <= ck.safe, LastIn(Links(log), g, m),
                        g \notin ck.todo \/ g = f
                 PROVE  db'[log.frame[g].pg] = log.frame[g].v
      BY DEF DoneOK
    <3>1. CASE g = f
      <4>1. f > ck.from
        BY <1>3, <1>5, <1>6, <3>1
      <4> QED BY <1>8, <1>12, <3>1, <4>1 DEF v
    <3>2. CASE g \notin ck.todo
      <4>1. db[log.frame[g].pg] = log.frame[g].v
        BY <1>5, <3>2 DEF DoneOK
      <4>2. g <= m /\ g \in 1..m
        BY <1>3, <1>6 DEF Frame
      <4>3. log.frame[g].pg # pg
        BY <1>1, <1>6, <1>7, <1>8, <3>2, <4>2, OneLast
      <4>4. log.frame[g].pg \in Page
        <5>1. log.salt # 0 /\ log.frame[g].salt = log.salt
          BY <1>3, <4>2, ValidPart DEF CommitFrame
        <5> QED BY <1>4, <5>1 DEF LogInv, LogCore, FramesOK, FrameOK
      <4> QED BY <1>12, <4>1, <4>3, <4>4
    <3> QED BY <3>1, <3>2
  <2>3. ReadersSafe(ck.i, ck.safe)' /\ ~Restarting'
    BY <1>2, <1>3, <1>5, <1>10 DEF ReadersSafe, Restarting
  <2>4. st'[p] = "BACKFILL"
    BY <1>1, <1>2
  <2>5. log.frame[m].commit
    BY <1>3 DEF CommitFrame
  <2>6. NReader <= NReader
    BY WalAssumption
  <2> QED BY <1>2, <1>3, <1>5, <1>6, <1>10, <2>1, <2>2, <2>3, <2>4, <2>5, <2>6 DEF CkInv, m
<1>19. \A q \in Proc : q # p => CkInv(A, q)'
  BY <1>2, <1>3 DEF CkInv, Copying
<1> QED BY <1>14, <1>16, <1>17, <1>18, <1>19 DEF WalInv, ProcInv

(* nBackfill: all up to what was safe is in the database now. *)
LEMMA SnapCkptEnd ==
  ASSUME WalTypeInv, WalTypeInv', WriterInv, NEW A \in 0..MaxFrame, WalInv(A), NEW p \in Proc, CkptEnd(p)
  PROVE  WalInv(A)'
<1> DEFINE m == hdr[p].mx
<1>1. /\ st[p] = "BACKFILL" /\ ck.todo = {} /\ idx' = [idx EXCEPT !.nBackfill = ck.safe]
      /\ dbLoss' = (IF ck.safe = idx.a.mx THEN [x \in Page |-> {db[x]}] ELSE dbLoss)
      /\ xlock' = [xlock EXCEPT ![0] = Nobody] /\ Goto(p, "CKPT_DONE")
      /\ UNCHANGED <<db, log, logDisk, hdr, pick, rlock, wlock, ckpt, hist>>
  BY DEF CkptEnd
<1>2. UNCHANGED <<db, log, logDisk, hdr, pick, rlock, wlock, ckpt, txn, wrote, com, state, base>>
  BY <1>1 DEF hist
<1>3. /\ m \in Frame /\ m <= idx.a.mx /\ idx.a.init /\ idx.a.mx \in Frame
      /\ A <= idx.a.mx /\ idx.nBackfill < m
      /\ ck.safe <= m /\ ck.safe \in 0..MaxFrame /\ idx.nBackfill \in 0..MaxFrame
      /\ ~Restarting /\ ~Resetting /\ ckpt = p /\ rlock[p] = -1 /\ log # NoLog
      /\ \A q \in Proc : q # p => st[q] \notin Copying
  BY <1>1, CkptFrames
<1>4. RdInv(p) /\ CkInv(A, p) /\ LogInv(A) /\ IdxInv(A)
  BY DEF WalInv, ProcInv
<1>5. xlock[0] = p /\ m <= A /\ ck.from = idx.nBackfill
      /\ DoneOK(db, log, m, ck.from, ck.safe, ck.todo)
  BY <1>1, <1>4 DEF CkInv
<1>6. m \in 0..MaxFrame /\ m \in Nat /\ idx.a.mx \in 0..MaxFrame /\ idx.a.mx > 0 /\ MaxFrame \in Nat
  BY <1>3, WalAssumption DEF Frame
<1>7. idx'.a = idx.a /\ idx'.pgno = idx.pgno /\ idx'.nBackfill = ck.safe /\ idx'.mark = idx.mark
  BY <1>1 DEF WalTypeInv, IndexT
<1>8. st'[p] = "CKPT_DONE" /\ \A q \in Proc : q # p => st'[q] = st[q]
  BY <1>1 DEF WalTypeInv, ProcOK, Goto
<1>9. \A q \in Proc : rlock[q] # 0
  BY <1>5, NoBaseReader
<1>10. (Resetting' <=> Resetting) /\ ~Resetting
  BY <1>1, <1>3, <1>8 DEF Resetting
<1>11. LogInv(A)'
  <2>1. LossOK(A, db, dbLoss, logDisk, state[base])
    BY <1>4 DEF LogInv, LogCore
  <2>2. LossOK(A, db, dbLoss', logDisk, state[base])
    BY <1>1, <2>1 DEF LossOK
  <2>3. LogCore(A, db, dbLoss', log, logDisk, txn, base, state)
    BY <1>3, <1>4, <2>2 DEF LogInv, LogCore
  <2> QED BY <1>2, <1>4, <2>3 DEF LogInv
<1> HIDE DEF m
<1>12. IdxInv(A)'
  <2>1. BackOK(idx.nBackfill, idx.a.mx, db, dbLoss, log)
    BY <1>3, <1>4 DEF IdxInv
  <2>2. Copied(db, log, 0, ck.safe, idx.a.mx)
    <3> SUFFICES ASSUME NEW f \in Frame, 0 < f, f <= ck.safe, LastIn(Links(log), f, idx.a.mx)
                 PROVE  db[log.frame[f].pg] = log.frame[f].v
      BY DEF Copied
    <3>1. CASE f <= idx.nBackfill
      BY <2>1, <3>1 DEF BackOK, Copied
    <3>2. CASE ck.from < f
      <4>1. LastIn(Links(log), f, m)
        BY <1>3, <1>6, LastEarlier
      <4> QED BY <1>1, <1>5, <3>2, <4>1 DEF DoneOK
    <3> QED BY <1>3, <1>5, <3>1, <3>2 DEF Frame
  <2>3. ck.safe <= idx.a.mx /\ ck.safe <= A
    BY <1>3, <1>5, <1>6
  <2>4. ck.safe = idx.a.mx => \A x \in Page : dbLoss'[x] = {db[x]}
    BY <1>1
  <2>5. BackOK(ck.safe, idx.a.mx, db, dbLoss', log)
    BY <2>2, <2>3, <2>4 DEF BackOK
  <2>6. HdrEmpty(idx.a, dbLoss', log, com, base, state)
    BY <1>6 DEF HdrEmpty
  <2> QED BY <1>2, <1>4, <1>7, <2>3, <2>5, <2>6 DEF IdxInv
<1>13. ASSUME NEW q \in Proc, q # p PROVE ProcInv(A, q)'
  <2>1. WrtInv(A, q) /\ RdInv(q) /\ st'[q] = st[q]
    BY <1>8, <1>13 DEF WalInv, ProcInv
  <2>2. st[q] \notin {"RESTART_A", "RESTART"}
    BY <1>3 DEF Restarting
  <2>3. Begun(q) => Begun(q)'
    BY <1>2, <1>7, <2>1 DEF Begun
  <2>4. WrtInv(A, q)'
    BY <1>2, <1>7, <2>1, <2>2, <2>3 DEF WrtInv
  <2>5. RdInv(q)'
    BY <1>2, <1>7, <1>9, <2>1 DEF RdInv
  <2>6. CkInv(A, q)'
    BY <1>3, <1>13, <2>1 DEF CkInv, Copying
  <2> QED BY <2>4, <2>5, <2>6 DEF ProcInv
<1>14. ProcInv(A, p)'
  <2>1. hdr'[p].salt <= txn'
    BY <1>2, <1>4 DEF RdInv
  <2> QED BY <1>2, <1>3, <1>8, <2>1 DEF ProcInv, WrtInv, RdInv, CkInv, Writing, Slot
<1> QED BY <1>11, <1>12, <1>13, <1>14 DEF WalInv

-------------------------------------------------------------------------------
(* The last connection closes, and the loss of power. *)

LEMMA NoLogParts ==
  /\ NoLog.salt = 0 /\ \A f \in Frame : NoLog.frame[f] = NoFrame
  /\ NoFrame.salt = 0 /\ NoFrame.v = 0 /\ ~NoFrame.commit
  BY DEF NoLog, NoFrame

LEMMA NoLogFrames == ASSUME NEW t \in Nat PROVE FramesOK(NoLog, t)
  BY NoLogParts DEF FramesOK, FrameOK

LEMMA NoLogCommits == ASSUME NEW s, NEW A, NEW k, NEW b, NEW S PROVE CommitsOK(NoLog, s, A, k, b, S)
  BY NoLogParts DEF CommitsOK

LEMMA NoLogSync == ASSUME NEW k PROVE SyncOK(NoLog, k)
  BY ValidHasLog DEF SyncOK, CommitFrame

(* The log may be deleted when the database is what it starts from. *)
LEMMA DropLog ==
  ASSUME NEW A, NEW d, NEW dl, NEW l, NEW k, NEW t \in Nat, NEW b, NEW S,
         LogCore(A, d, dl, l, k, t, b, S), AtBase(dl, S[b])
  PROVE  LogCore(A, d, dl, NoLog, k, t, b, S)
<1>1. SaltsOK(NoLog, k) /\ AnchorOK(A, NoLog, k)
  BY DEF LogCore, SaltsOK, AnchorOK
<1> QED BY <1>1, NoLogFrames, NoLogCommits DEF LogCore

LEMMA SnapClose ==
  ASSUME WalTypeInv, WalTypeInv', WriterInv, NEW A \in 0..MaxFrame, WalInv(A), NEW p \in Proc, Close(p)
  PROVE  \E B \in 0..MaxFrame : WalInv(B)'
<1> DEFINE m == idx.a.mx
<1>1. /\ st[p] = "OPEN" /\ (\A q \in Proc \ {p} : st[q] = "DEAD") /\ GoodHdr
      /\ db' = Backfilled(db, log, idx.pgno, idx.nBackfill, m)
      /\ IF idx.nBackfill < m
         THEN dbLoss' = [pg \in Page |-> {db'[pg]}] /\ logDisk' = log
         ELSE UNCHANGED <<dbLoss, logDisk>>
      /\ log' = NoLog /\ idx' = NoIdx /\ base' = com /\ Goto(p, "DEAD")
      /\ UNCHANGED <<hdr, pick, locks, ck, txn, wrote, com, state, overrun>>
  BY DEF Close
<1>2. UNCHANGED <<hdr, rlock, txn, com, state>>
  BY <1>1 DEF locks
<1>3. \A q \in Proc : st[q] \in {"OPEN", "DEAD"} /\ st'[q] = "DEAD"
  BY <1>1 DEF WalTypeInv, ProcOK, Goto
<1>4. \A q \in Proc : rlock'[q] = -1 /\ hdr'[q].salt <= txn'
  BY <1>2, <1>3, NoLockHeld DEF WalInv, ProcInv, RdInv, Holding
<1>5. ~idx'.a.init
  BY <1>1 DEF NoIdx, NoHdr
<1>6. idx.a.init /\ ~Resetting
  BY <1>1, <1>3 DEF GoodHdr, Resetting
<1>7. LogCore(A, db, dbLoss, log, logDisk, txn, base, state) /\ ComOK(log, logDisk, com, base, txn)
      /\ IdxInv(A) /\ LogInv(A)
  BY DEF WalInv, LogInv
<1>8. /\ HdrFull(A, idx.a, idx.pgno, log, com) /\ HdrEmpty(idx.a, dbLoss, log, com, base, state)
      /\ idx.nBackfill <= A /\ BackOK(idx.nBackfill, m, db, dbLoss, log)
  BY <1>6, <1>7 DEF IdxInv
<1>9. /\ m \in 0..MaxFrame /\ idx.nBackfill \in 0..MaxFrame /\ log \in LogT /\ logDisk \in LogT
      /\ base \in Nat /\ com \in Nat /\ txn \in Nat /\ state[com] \in [Page -> 0..MaxTxn]
      /\ idx.nBackfill <= m /\ Copied(db, log, 0, idx.nBackfill, m)
  BY <1>8, FieldTypes DEF BackOK
<1>10. db' = state[com]
  <2>1. /\ Shows(state[com], state[base], Links(log), m) /\ PgnoOK(idx.pgno, log, m)
        /\ \A pg \in Page : Unseen(Links(log), pg, m) => db[pg] = state[base][pg]
    BY <1>6, <1>7, CurrentView
  <2> QED BY <1>1, <1>9, <2>1, BackfilledIs
<1> HIDE DEF m
<1>11. \E B \in 0..MaxFrame : LogCore(B, db', dbLoss', NoLog, logDisk', txn, com, state)
  <2>1. CASE idx.nBackfill < m
    <3>1. dbLoss' = [pg \in Page |-> {db'[pg]}] /\ logDisk' = log
      BY <1>1, <2>1
    <3>2. m > 0 /\ m \in Frame /\ A <= m /\ CommitFrame(log, m) /\ log.frame[m].v = com
      <4>1. m > 0 /\ m \in Frame
        BY <1>9, <2>1 DEF Frame
      <4> QED BY <1>8, <4>1 DEF HdrFull, m
    <3>3. LogCore(m, db, dbLoss, log, log, txn, base, state)
      BY <1>7, <3>2, Advance
    <3>4. AtBase(dbLoss', state[com]) /\ \A pg \in Page : db'[pg] \in dbLoss'[pg]
      BY <1>10, <3>1 DEF AtBase
    <3>5. LogCore(m, db', dbLoss', log, log, txn, log.frame[m].v, state)
      BY <1>9, <3>2, <3>3, <3>4, Rebase
    <3>6. LogCore(m, db', dbLoss', NoLog, log, txn, com, state)
      BY <1>9, <3>2, <3>4, <3>5, DropLog
    <3> QED BY <1>9, <3>1, <3>6
  <2>2. CASE ~(idx.nBackfill < m)
    <3>1. dbLoss' = dbLoss /\ logDisk' = logDisk /\ idx.nBackfill = m
      BY <1>1, <1>9, <2>2
    <3>2. db = state[com] /\ AtBase(dbLoss, state[com]) /\ \A pg \in Page : db[pg] \in dbLoss[pg]
      BY <1>6, <1>7, <3>1, AllBackfilled DEF m, LogCore, LossOK
    <3>3. LogCore(A, db, dbLoss, log, logDisk, txn, com, state)
      <4>1. CASE m = 0
        BY <1>7, <1>8, <4>1 DEF HdrEmpty, m
      <4>2. CASE m > 0
        <5>1. A <= m /\ CommitFrame(log, m) /\ log.frame[m].v = com
          BY <1>8, <4>2 DEF HdrFull, m
        <5>2. A = m /\ A \in Frame /\ A \in 1..A /\ A > 0
          BY <1>8, <1>9, <3>1, <4>2, <5>1 DEF Frame
        <5>3. log # NoLog /\ Same(log, logDisk, A)
          BY <1>7, <5>1, <5>2, ValidHasLog DEF CommitFrame, LogCore, AnchorOK
        <5>4. logDisk.frame[A].v = com
          BY <5>1, <5>2, <5>3 DEF Same
        <5> QED BY <1>7, <1>9, <3>2, <5>2, <5>4, Rebase
      <4> QED BY <1>9, <4>1, <4>2
    <3>4. LogCore(A, db, dbLoss, NoLog, logDisk, txn, com, state)
      BY <1>9, <3>2, <3>3, DropLog
    <3> QED BY <1>10, <3>1, <3>2, <3>4
  <2> QED BY <2>1, <2>2
<1>12. PICK B \in 0..MaxFrame : LogCore(B, db', dbLoss', NoLog, logDisk', txn, com, state)
  BY <1>11
<1>13. LogInv(B)'
  <2>1. ComOK(NoLog, logDisk', com, com, txn)
    BY <1>7, <1>9, NoLogSync DEF ComOK
  <2> QED BY <1>1, <1>2, <1>12, <2>1 DEF LogInv
<1>14. WalInv(B)'
  BY <1>3, <1>4, <1>5, <1>13, SnapIdle
<1> QED BY <1>14

(* Any mixture of the log and what was synced of it, over any of what may be  *)
(* left of the database.                                                      *)
Mixed(n, l, k) ==
  /\ n.salt = k.salt /\ (l = NoLog => n = k)
  /\ \A f \in Frame : n.frame[f] = l.frame[f] \/ n.frame[f] = k.frame[f]

LEMMA CoreMix ==
  ASSUME NEW A \in 0..MaxFrame, NEW d, NEW dl, NEW l, NEW k, NEW t, NEW b, NEW S,
         LogCore(A, d, dl, l, k, t, b, S), NEW n, Mixed(n, l, k), k.salt # 0,
         NEW e, NEW el, \A pg \in Page : e[pg] \in dl[pg] /\ el[pg] = {e[pg]}
  PROVE  LogCore(A, e, el, n, n, t, b, S)
<1>1. FramesOK(l, t) /\ FramesOK(k, t) /\ AnchorOK(A, l, k) /\ LossOK(A, d, dl, k, S[b])
      /\ CommitsOK(l, k.salt, A, k, b, S) /\ CommitsOK(k, k.salt, A, k, b, S)
  BY DEF LogCore
<1>2. n.salt = k.salt /\ n # NoLog /\ \A f \in Frame : n.frame[f] = l.frame[f] \/ n.frame[f] = k.frame[f]
  BY NoLogParts DEF Mixed
<1>3. FramesOK(n, t)
  BY <1>1, <1>2 DEF FramesOK
<1>4. SaltsOK(n, n)
  BY <1>2 DEF SaltsOK
<1>5. Same(k, n, A)
  <2>1. CASE l = NoLog
    BY <2>1 DEF Mixed, Same
  <2>2. CASE l # NoLog /\ A > 0
    <3>1. Same(l, k, A)
      BY <1>1, <2>2 DEF AnchorOK
    <3>2. \A j \in 1..A : j \in Frame
      BY InFrame
    <3> QED BY <1>2, <3>1, <3>2 DEF Same
  <2>3. CASE A = 0
    BY <2>3 DEF Same
  <2> QED BY <2>1, <2>2, <2>3
<1>6. AnchorOK(A, n, n)
  <2>1. A > 0 => CommitFrame(n, A)
    <3> SUFFICES ASSUME A > 0 PROVE CommitFrame(n, A)
      OBVIOUS
    <3>1. CommitFrame(k, A) /\ A \in Frame
      BY <1>1 DEF AnchorOK, CommitFrame
    <3> QED BY <1>2, <1>5, <3>1, CommitFrameSame
  <2> QED BY <2>1 DEF AnchorOK, Same
<1>7. \A fr : Extends(fr, A, n) => Extends(fr, A, k)
  BY <1>5 DEF Extends, Same
<1>8. CommitsOK(n, n.salt, A, n, b, S)
  BY <1>1, <1>2, <1>7 DEF CommitsOK
<1>9. LossOK(A, e, el, n, S[b])
  <2>1. \A pg \in Page : Unseen(Links(n), pg, A) => Unseen(Links(k), pg, A)
    BY <1>5, SameSym, UnseenAnchor
  <2> QED BY <1>1, <2>1 DEF LossOK
<1> QED BY <1>2, <1>3, <1>4, <1>6, <1>8, <1>9 DEF LogCore

LEMMA EmptyCore ==
  ASSUME NEW d, NEW dl, NEW t \in Nat, NEW b, NEW S, AtBase(dl, S[b]), \A pg \in Page : d[pg] \in dl[pg]
  PROVE  LogCore(0, d, dl, NoLog, NoLog, t, b, S)
<1>1. SaltsOK(NoLog, NoLog) /\ AnchorOK(0, NoLog, NoLog)
  BY DEF SaltsOK, AnchorOK
<1>2. LossOK(0, d, dl, NoLog, S[b])
  BY DEF LossOK, AtBase
<1> QED BY <1>1, <1>2, NoLogFrames, NoLogCommits DEF LogCore

LEMMA FoundWhere ==
  ASSUME NEW l, NEW b PROVE Found(l, b) = b \/ ComIn(l, Found(l, b))
<1>1. LastCommit(l) # 0 => CommitFrame(l, LastCommit(l)) /\ LastCommit(l) \in Frame
  BY LastCommitFrame DEF CommitFrame
<1> QED BY <1>1 DEF Found, ComIn

LEMMA FoundNone == ASSUME NEW b PROVE Found(NoLog, b) = b
<1>1. LastCommit(NoLog) # 0 => CommitFrame(NoLog, LastCommit(NoLog)) /\ LastCommit(NoLog) \in Frame
  BY LastCommitFrame DEF CommitFrame
<1>2. LastCommit(NoLog) = 0
  BY <1>1, ValidHasLog DEF CommitFrame
<1> QED BY <1>2 DEF Found

(* The log that is found after a loss of power. *)
LEMMA LostLog ==
  ASSUME WalTypeInv, NEW A \in 0..MaxFrame, WalInv(A), PowerLoss
  PROVE  Mixed(log', log, logDisk) \/ (log = NoLog /\ log' = NoLog)
<1>1. SaltsOK(log, logDisk)
  BY DEF WalInv, LogInv, LogCore
<1>2. CASE log = NoLog
  <2>1. log' \in {NoLog, logDisk}
    BY <1>2 DEF PowerLoss
  <2> QED BY <1>2, <2>1 DEF Mixed
<1>3. CASE log # NoLog
  <2>1. PICK lost \in SUBSET {f \in Frame : log.frame[f] # logDisk.frame[f]},
             sa \in {log.salt, logDisk.salt} :
             log' = [salt |-> sa, frame |-> [f \in Frame |-> IF f \in lost THEN logDisk.frame[f]
                                                                         ELSE log.frame[f]]]
    BY <1>3 DEF PowerLoss
  <2>2. sa = logDisk.salt
    BY <1>1, <1>3 DEF SaltsOK
  <2> QED BY <1>3, <2>1, <2>2 DEF Mixed
<1> QED BY <1>2, <1>3

LEMMA SnapPowerLoss ==
  ASSUME WalTypeInv, WalTypeInv', NEW A \in 0..MaxFrame, WalInv(A), PowerLoss
  PROVE  (\E B \in 0..MaxFrame : WalInv(B)') /\ (FullSync => com' >= com)
<1>1. /\ logDisk' = log' /\ dbLoss' = [pg \in Page |-> {db'[pg]}] /\ com' = RecoveredTxn(log')
      /\ \A pg \in Page : db'[pg] \in dbLoss[pg]
      /\ idx' = NoIdx /\ st' = [p \in Proc |-> "DEAD"] /\ hdr' = [p \in Proc |-> NoHdr]
      /\ rlock' = [p \in Proc |-> -1] /\ UNCHANGED <<txn, wrote, state, base, overrun>>
  BY DEF PowerLoss
<1>2. com' = Found(log', base)
  BY <1>1 DEF RecoveredTxn, Found
<1>3. \A pg \in Page : db'[pg] \in dbLoss[pg] /\ dbLoss'[pg] = {db'[pg]}
  BY <1>1
<1>4. LogCore(A, db, dbLoss, log, logDisk, txn, base, state) /\ ComOK(log, logDisk, com, base, txn)
  BY DEF WalInv, LogInv
<1>5. txn \in Nat /\ com \in Nat /\ base \in Nat /\ 0 \in 0..MaxFrame
  BY FieldTypes, WalAssumption
<1>6. base <= com /\ com <= txn /\ SyncOK(log, logDisk) /\ (com = base \/ ComIn(log, com))
      /\ (log = NoLog => com = base) /\ base <= txn
  BY <1>4, <1>5 DEF ComOK
<1>7. \E B \in 0..MaxFrame : LogCore(B, db', dbLoss', log', log', txn, base, state)
  <2>1. CASE log = NoLog /\ log' = NoLog
    <3>1. AtBase(dbLoss, state[base])
      BY <1>4, <2>1 DEF LogCore
    <3>2. AtBase(dbLoss', state[base])
      BY <1>3, <3>1 DEF AtBase
    <3>3. LogCore(0, db', dbLoss', NoLog, NoLog, txn, base, state)
      BY <1>3, <1>5, <3>2, EmptyCore
    <3> QED BY <1>5, <2>1, <3>3
  <2>2. CASE Mixed(log', log, logDisk) /\ logDisk.salt # 0
    BY <1>3, <1>4, <2>2, CoreMix
  <2>3. CASE Mixed(log', log, logDisk) /\ logDisk.salt = 0
    <3>1. log = NoLog /\ log' = NoLog
      BY <1>4, <2>3 DEF LogCore, SaltsOK, Mixed
    <3> QED BY <2>1, <3>1
  <2> QED BY <2>1, <2>2, <2>3, LostLog
<1>8. PICK B \in 0..MaxFrame : LogCore(B, db', dbLoss', log', log', txn, base, state)
  BY <1>7
<1>9. LogInv(B)'
  <2>1. Found(log', base) >= base /\ Found(log', base) <= txn
    BY <1>5, <1>6, <1>8, CoreRecovers
  <2>2. SyncOK(log', log')
    BY DEF SyncOK, Same
  <2>3. log' = NoLog => Found(log', base) = base
    BY FoundNone
  <2>4. Found(log', base) = base \/ ComIn(log', Found(log', base))
    BY FoundWhere
  <2>5. com' \in Nat
    <3>1. com' \in 0..MaxTxn /\ MaxTxn \in Nat
      BY WalAssumption DEF WalTypeInv, HistOK
    <3> QED BY <3>1
  <2>6. ComOK(log', log', com', base, txn)
    BY <1>2, <1>5, <2>1, <2>2, <2>3, <2>4, <2>5 DEF ComOK
  <2> QED BY <1>1, <1>8, <2>6 DEF LogInv
<1>10. WalInv(B)'
  <2>1. ~idx'.a.init
    BY <1>1 DEF NoIdx, NoHdr
  <2>2. \A q \in Proc : st'[q] \in {"OPEN", "DEAD", "HDR"} /\ rlock'[q] = -1 /\ hdr'[q].salt <= txn'
    BY <1>1, <1>5 DEF NoHdr
  <2> QED BY <1>9, <2>1, <2>2, SnapIdle
<1>11. ASSUME FullSync PROVE com' >= com
  <2>1. com = base \/ ComIn(log', com)
    <3> SUFFICES ASSUME ComIn(log, com), log # NoLog PROVE ComIn(log', com)
      BY <1>6
    <3>1. PICK f \in Frame : CommitFrame(log, f) /\ log.frame[f].v = com
      BY DEF ComIn
    <3>2. Same(log, logDisk, f)
      BY <1>6, <1>11, <3>1 DEF SyncOK
    <3>3. Mixed(log', log, logDisk) /\ log.salt = logDisk.salt
      BY <1>4, LostLog DEF LogCore, SaltsOK
    <3>4. f \in 1..f /\ \A j \in 1..f : j \in Frame
      <4>1. f \in 0..MaxFrame /\ f \in 1..f
        BY DEF Frame
      <4> QED BY <4>1, InFrame
    <3>5. Same(log, log', f) /\ log'.salt = log.salt
      BY <3>2, <3>3, <3>4 DEF Same, Mixed
    <3>6. CommitFrame(log', f) /\ log'.frame[f].v = com
      BY <3>1, <3>4, <3>5, CommitFrameSame DEF Same
    <3> QED BY <3>6 DEF ComIn
  <2>2. Found(log', base) >= com
    BY <1>5, <1>6, <1>8, <2>1, FoundIsLast
  <2> QED BY <1>2, <2>2
<1> QED BY <1>10, <1>11

-------------------------------------------------------------------------------
(* A frame is written.  What the writer adds to: the frames up to its header, *)
(* which show the last commit with the pages it has written; the frames after *)
(* it, if there are any, are of earlier transactions.                         *)

Before(h) == IF h.mx = 0 THEN << >> ELSE h.sum

WriterAt(A, p) ==
  /\ hdr[p].mx >= idx.a.mx
  /\ hdr[p].mx > 0 => /\ A <= idx.a.mx /\ log.salt = hdr[p].salt /\ Valid(log, hdr[p].mx)
                      /\ hdr[p].sum = log.frame[hdr[p].mx].sum /\ PgnoOK(idx.pgno, log, hdr[p].mx)
  /\ hdr[p].mx = 0 => hdr[p] = idx.a /\ Untouched(log, txn)
  /\ Older(log, hdr[p].mx, txn)
  /\ Shows(After(state, com, txn, wrote), state[base], Before(hdr[p]), hdr[p].mx)
  /\ hdr[p].salt \in {idx.a.salt, txn}

LEMMA WriterBase ==
  ASSUME WalTypeInv, WriterInv, NEW A \in 0..MaxFrame, WalInv(A), NEW p \in Proc, st[p] = "WRITER"
  PROVE  WriterAt(A, p)
<1> DEFINE h == hdr[p]
           o == idx.a.mx
<1>1. st[p] \in Writing /\ WrtInv(A, p) /\ LogInv(A) /\ IdxInv(A)
  BY DEF Writing, WalInv, ProcInv
<1>2. idx.a.init
  BY <1>1 DEF WriterInv
<1>3. h.mx \in 0..MaxFrame /\ o \in 0..MaxFrame /\ MaxFrame \in Nat
  BY FieldTypes, WalAssumption
<1>4. CASE wrote = {}
  <2>1. h = idx.a /\ Untouched(log, txn)
    BY <1>1, <1>4 DEF WrtInv, Begun
  <2>2. HdrFull(A, idx.a, idx.pgno, log, com)
    BY <1>1, <1>2 DEF IdxInv
  <2>3. Older(log, o, txn)
    <3>1. \A i \in Frame : i > 0
      BY DEF Frame
    <3> QED BY <2>1, <3>1 DEF Untouched, Older
  <2>4. \A q \in Page : After(state, com, txn, wrote)[q] = state[com][q]
    BY <1>4 DEF After
  <2>5. Shows(state[com], state[base], Before(h), o)
    <3>1. Shows(state[com], state[base], Links(log), o)
      BY <1>1, <1>2, CurrentView
    <3>2. CASE o = 0
      BY <2>1, <3>1, <3>2, ShowsNone
    <3>3. CASE o > 0
      <4>1. o \in Frame /\ Valid(log, o) /\ h.sum = log.frame[o].sum
        BY <1>3, <2>1, <2>2, <3>3 DEF HdrFull, CommitFrame
      <4>2. Shows(state[com], state[base], log.frame[o].sum, o)
        BY <3>1, <4>1, ShowsLinks
      <4> QED BY <2>1, <3>3, <4>1, <4>2 DEF Before
    <3> QED BY <1>3, <3>2, <3>3
  <2>6. Shows(After(state, com, txn, wrote), state[base], Before(h), o)
    BY <2>4, <2>5 DEF Shows
  <2> QED BY <1>3, <2>1, <2>2, <2>3, <2>6 DEF WriterAt, HdrFull, CommitFrame
<1>5. CASE wrote # {}
  <2>1. h.salt \in {idx.a.salt, txn} /\ Added(A, h, o, idx.pgno, log, txn, wrote, com, base, state)
    BY <1>1, <1>5 DEF WrtInv
  <2>2. h.mx > 0 /\ h.mx >= o
    BY <1>3, <2>1 DEF Added
  <2>3. Before(h) = h.sum
    BY <1>3, <2>2 DEF Before
  <2> QED BY <2>1, <2>2, <2>3 DEF WriterAt, Added
<1> QED BY <1>4, <1>5

(* The new frame and its checksum. *)
NewFrame(fr, f, pg, t, commit, s) ==
  /\ fr.pg = pg /\ fr.v = t /\ fr.commit = commit /\ fr.salt # 0 /\ fr.salt <= t
  /\ fr.sum \in Seq(LinkT) /\ Len(fr.sum) = f /\ fr.sum[f] = <<pg, t, commit>>
  /\ \A j \in 1..(f - 1) : fr.sum[j] = s[j]

Put(m, l, f, fr) == m.frame[f] = fr /\ \A i \in Frame : i # f => m.frame[i] = l.frame[i]

LEMMA AppendIs ==
  ASSUME NEW T, NEW s \in Seq(T), NEW n \in Nat, Len(s) = n, NEW e \in T
  PROVE  /\ Append(s, e) \in Seq(T) /\ Len(Append(s, e)) = n + 1 /\ Append(s, e)[n + 1] = e
         /\ \A j \in 1..n : Append(s, e)[j] = s[j]
  OBVIOUS

LEMMA NewFrameIs ==
  ASSUME WalTypeInv, WriterInv, NEW A \in 0..MaxFrame, WalInv(A), NEW p \in Proc, NEW pg \in Page,
         NEW commit \in BOOLEAN, NEW fresh \in BOOLEAN, WriteFrame(p, pg, commit, fresh)
  PROVE  /\ NewFrame(FrameOf(p, pg, commit, fresh), hdr[p].mx + 1, pg, txn, commit, Before(hdr[p]))
         /\ FrameOf(p, pg, commit, fresh).salt \in {hdr[p].salt, txn}
         /\ hdr[p].mx > 0 => FrameOf(p, pg, commit, fresh).salt = hdr[p].salt
<1> DEFINE fr == FrameOf(p, pg, commit, fresh)
           n  == hdr[p].mx
<1>1. st[p] = "WRITER" /\ fresh \in (IF n > 0 THEN {FALSE} ELSE {hdr[p].salt = 0, TRUE})
  BY DEF WriteFrame
<1>2. WriterAt(A, p) /\ WrtInv(A, p) /\ RdInv(p) /\ LogInv(A)
  BY <1>1, WriterBase DEF WalInv, ProcInv
<1>3. n \in 0..MaxFrame /\ hdr[p].salt \in Nat /\ txn \in Nat /\ com \in Nat /\ hdr[p] \in HeaderT
  BY FieldTypes
<1>4. n \in Nat /\ com < txn /\ hdr[p].salt <= txn
  BY <1>1, <1>2, <1>3 DEF WrtInv, RdInv, Writing
<1>5. fr.pg = pg /\ fr.v = txn /\ fr.commit = commit
      /\ fr.salt = (IF fresh THEN txn ELSE hdr[p].salt)
      /\ fr.sum = Append(Before(hdr[p]), <<pg, txn, commit>>)
  BY DEF FrameOf, Before
<1>6. n > 0 => log.salt = hdr[p].salt /\ Valid(log, n) /\ hdr[p].sum = log.frame[n].sum
  BY <1>2 DEF WriterAt
<1>7. n > 0 => n \in Frame /\ log.salt # 0 /\ log.frame[n].salt # 0
  <2>1. n > 0 => n \in Frame /\ n \in 1..n
    BY <1>3, WalAssumption DEF Frame
  <2> QED BY <1>6, <2>1, ValidPart
<1>8. Len(Before(hdr[p])) = n /\ Before(hdr[p]) \in Seq(LinkT)
  <2>1. CASE n = 0
    BY <2>1 DEF Before
  <2>2. CASE n > 0
    <3>1. Len(log.frame[n].sum) = n
      BY <1>2, <1>7, <2>2 DEF LogInv, LogCore, FramesOK, FrameOK
    <3>2. hdr[p].sum \in Seq(LinkT)
      BY <1>3 DEF HeaderT
    <3> QED BY <1>6, <2>2, <3>1, <3>2 DEF Before
  <2> QED BY <1>3, <2>1, <2>2
<1>9. <<pg, txn, commit>> \in LinkT
  BY DEF LinkT, PageNo, WalTypeInv, HistOK
<1>10. fr.salt # 0 /\ fr.salt <= txn /\ fr.salt \in {hdr[p].salt, txn}
       /\ (n > 0 => fr.salt = hdr[p].salt)
  <2>1. CASE n > 0
    BY <1>1, <1>3, <1>4, <1>5, <1>6, <1>7, <2>1
  <2>2. CASE n = 0
    <3>1. fresh \/ hdr[p].salt # 0
      <4> SUFFICES ASSUME hdr[p].salt = 0 PROVE fresh
        OBVIOUS
      <4>1. (hdr[p].salt = 0) = TRUE
        OBVIOUS
      <4>2. (n > 0) = FALSE
        BY <2>2
      <4> QED BY ONLY <1>1, <4>1, <4>2, Zenon
    <3> QED BY <1>3, <1>4, <1>5, <2>2, <3>1
  <2> QED BY <1>3, <2>1, <2>2
<1> HIDE DEF fr
<1>11. fr.sum \in Seq(LinkT) /\ Len(fr.sum) = n + 1 /\ fr.sum[n + 1] = <<pg, txn, commit>>
       /\ \A j \in 1..n : fr.sum[j] = Before(hdr[p])[j]
  <2> HIDE DEF n
  <2> QED BY ONLY <1>4, <1>5, <1>8, <1>9, AppendIs
<1>12. (n + 1) - 1 = n
  BY <1>3
<1>13. NewFrame(fr, n + 1, pg, txn, commit, Before(hdr[p]))
  BY <1>5, <1>10, <1>11, <1>12 DEF NewFrame
<1> QED BY <1>10, <1>13 DEF fr

(* The frame the writer appends to frame n of the log l. *)
Appends(m, l, n, fr, pg, t, commit, s) ==
  /\ n \in 0..MaxFrame /\ n + 1 \in Frame /\ pg \in Page /\ commit \in BOOLEAN
  /\ NewFrame(fr, n + 1, pg, t, commit, s) /\ Put(m, l, n + 1, fr) /\ m.salt = fr.salt
  /\ n > 0 => l.salt = fr.salt /\ Valid(l, n) /\ s = l.frame[n].sum

LEMMA AppendValid ==
  ASSUME NEW m, NEW l, NEW n, NEW fr, NEW pg, NEW t, NEW commit, NEW s,
         Appends(m, l, n, fr, pg, t, commit, s)
  PROVE  /\ Same(l, m, n) /\ Valid(m, n + 1) /\ m.salt # 0 /\ m # NoLog
         /\ m.frame[n + 1] = fr /\ Link(fr) = <<pg, t, commit>>
<1>1. n \in Nat /\ n \in 0..MaxFrame /\ n + 1 \in Frame /\ n + 1 \in Nat
  BY DEF Appends, Frame
<1>2. m.frame[n + 1] = fr /\ (\A i \in Frame : i # n + 1 => m.frame[i] = l.frame[i]) /\ m.salt = fr.salt
  BY DEF Appends, Put
<1>3. /\ fr.pg = pg /\ fr.v = t /\ fr.commit = commit /\ fr.salt # 0
      /\ fr.sum \in Seq(LinkT) /\ Len(fr.sum) = n + 1 /\ fr.sum[n + 1] = <<pg, t, commit>>
      /\ \A j \in 1..n : fr.sum[j] = s[j]
  BY <1>1 DEF Appends, NewFrame
<1>4. Link(fr) = <<pg, t, commit>>
  BY <1>3 DEF Link
<1>5. \A j \in 1..n : j \in Frame /\ j # n + 1 /\ j \in 1..(n + 1)
  BY <1>1, InFrame
<1>6. \A j \in 1..n : m.frame[j] = l.frame[j]
  BY <1>2, <1>5
<1>7. Same(l, m, n)
  BY <1>6 DEF Same
<1>8. \A j \in 1..(n + 1) : fr.sum[j] = Link(m.frame[j])
  <2> SUFFICES ASSUME NEW j \in 1..(n + 1) PROVE fr.sum[j] = Link(m.frame[j])
    OBVIOUS
  <2>1. CASE j = n + 1
    BY <1>2, <1>3, <1>4, <2>1
  <2>2. CASE j \in 1..n
    <3>1. n > 0 /\ n \in 1..n
      BY <1>1, <2>2
    <3>2. Valid(l, n) /\ s = l.frame[n].sum
      BY <3>1 DEF Appends
    <3>3. l.frame[n].sum[j] = Link(l.frame[j])
      BY <2>2, <3>1, <3>2, ValidPart
    <3> QED BY <1>3, <1>6, <2>2, <3>2, <3>3
  <2> QED BY <1>1, <2>1, <2>2
<1>9. Valid(m, n + 1)
  <2> SUFFICES ASSUME NEW i \in 1..(n + 1)
               PROVE  m.salt # 0 /\ m.frame[i].salt = m.salt /\ m.frame[i].sum = [j \in 1..i |-> Link(m.frame[j])]
    BY DEF Valid
  <2>1. CASE i = n + 1
    <3>1. fr.sum = [j \in 1..(n + 1) |-> fr.sum[j]]
      BY <1>3
    <3>2. fr.sum = [j \in 1..(n + 1) |-> Link(m.frame[j])]
      BY <1>8, <3>1
    <3> QED BY <1>2, <1>3, <2>1, <3>2
  <2>2. CASE i \in 1..n
    <3>1. n > 0
      BY <1>1, <2>2
    <3>2. Valid(l, n) /\ l.salt = m.salt
      BY <1>2, <3>1 DEF Appends
    <3>3. Valid(m, n)
      BY <1>1, <1>7, <3>2, ValidSame
    <3> QED BY <2>2, <3>3 DEF Valid
  <2> QED BY <1>1, <2>1, <2>2
<1>10. m # NoLog /\ m.salt # 0
  BY <1>2, <1>3, NoLogParts
<1> QED BY <1>2, <1>4, <1>7, <1>9, <1>10

LEMMA AppendFrames ==
  ASSUME NEW m, NEW l \in LogT, NEW n, NEW fr, NEW pg, NEW t \in Nat, NEW commit, NEW s,
         Appends(m, l, n, fr, pg, t, commit, s), FramesOK(l, t)
  PROVE  FramesOK(m, t) /\ FrameOK(fr, n + 1, t)
<1>1. n \in Nat /\ n \in 0..MaxFrame /\ n + 1 \in Frame
  BY DEF Appends, Frame
<1>2. m.frame[n + 1] = fr /\ (\A i \in Frame : i # n + 1 => m.frame[i] = l.frame[i]) /\ m.salt = fr.salt
  BY DEF Appends, Put
<1>3. /\ fr.pg = pg /\ fr.v = t /\ fr.salt <= t /\ Len(fr.sum) = n + 1 /\ pg \in Page
      /\ fr.sum[n + 1] = <<pg, t, commit>> /\ \A j \in 1..n : fr.sum[j] = s[j]
  BY <1>1 DEF Appends, NewFrame
<1>4. Link(fr) = <<pg, t, commit>>
  BY AppendValid
<1>5. \A j \in 1..(n + 1) : fr.sum[j][2] <= t
  <2> SUFFICES ASSUME NEW j \in 1..(n + 1) PROVE fr.sum[j][2] <= t
    OBVIOUS
  <2>1. CASE j = n + 1
    BY <1>3, <2>1
  <2>2. CASE j \in 1..n
    <3>1. n > 0 /\ n \in Frame /\ n \in 1..n
      BY <1>1, <2>2 DEF Frame
    <3>2. s = l.frame[n].sum /\ Valid(l, n)
      BY <3>1 DEF Appends
    <3>3. l.frame[n].salt # 0
      BY <3>1, <3>2, ValidPart
    <3>4. s[j][2] <= l.frame[n].v /\ l.frame[n].v <= t /\ Len(s) = n
      BY <2>2, <3>1, <3>2, <3>3 DEF FramesOK, FrameOK
    <3>5. l.frame[n].v \in 0..MaxTxn /\ s \in Seq(LinkT)
      BY <3>1, <3>2 DEF LogT, FrameT
    <3>6. s[j] \in LinkT
      BY <2>2, <3>4, <3>5
    <3>7. s[j][2] \in 0..MaxTxn /\ MaxTxn \in Nat
      BY <3>6, WalAssumption DEF LinkT
    <3> QED BY <1>3, <2>2, <3>4, <3>5, <3>7
  <2> QED BY <1>1, <2>1, <2>2
<1>6. FrameOK(fr, n + 1, t)
  BY <1>3, <1>4, <1>5 DEF FrameOK
<1>7. m.salt <= t
  BY <1>2, <1>3
<1> QED BY <1>1, <1>2, <1>6, <1>7 DEF FramesOK

LEMMA AppendShows ==
  ASSUME NEW m, NEW l, NEW n, NEW fr, NEW pg, NEW t, NEW commit, NEW s,
         Appends(m, l, n, fr, pg, t, commit, s), NEW P, NEW B, Shows(P, B, s, n),
         NEW R, R[pg] = t, \A q \in Page : q # pg => R[q] = P[q]
  PROVE  Shows(R, B, fr.sum, n + 1)
<1>1. n \in Nat /\ pg \in Page /\ fr.sum[n + 1] = <<pg, t, commit>> /\ \A j \in 1..n : fr.sum[j] = s[j]
  BY DEF Appends, NewFrame
<1>2. fr.sum[n + 1][1] = pg /\ fr.sum[n + 1][2] = t
  BY <1>1
<1> QED BY <1>1, <1>2, ShowsAppend

LEMMA AppendOlder ==
  ASSUME NEW m, NEW l, NEW n, NEW fr, NEW pg, NEW t, NEW commit, NEW s,
         Appends(m, l, n, fr, pg, t, commit, s), NEW u, Older(l, n, u)
  PROVE  Older(m, n + 1, u)
<1>1. n \in Nat /\ \A i \in Frame : i > n + 1 => i > n /\ i # n + 1
  BY DEF Appends, Frame
<1>2. \A i \in Frame : i > n + 1 => m.frame[i] = l.frame[i] /\ i > n
  BY <1>1 DEF Appends, Put
<1> QED BY <1>2 DEF Older

(* No valid frame follows it: what is there was written before. *)
LEMMA AppendEnds ==
  ASSUME NEW m, NEW l, NEW n, NEW fr, NEW pg, NEW t \in Nat, NEW commit, NEW s,
         Appends(m, l, n, fr, pg, t, commit, s), Older(l, n, t), NEW i \in Frame, Valid(m, i)
  PROVE  i <= n + 1
<1> SUFFICES ASSUME i > n + 1 PROVE FALSE
  BY DEF Appends, Frame
<1>1. n \in Nat /\ n + 1 \in 1..i /\ i \in 1..i /\ i > n /\ i # n + 1
  BY DEF Appends, Frame
<1>2. m.frame[i] = l.frame[i]
  BY <1>1 DEF Appends, Put
<1>3. m.frame[i].salt # 0 /\ m.frame[i].sum[n + 1] = Link(m.frame[n + 1])
  BY <1>1, ValidPart
<1>4. Link(m.frame[n + 1]) = <<pg, t, commit>>
  BY AppendValid
<1>5. l.frame[i].sum[n + 1][2] = t
  BY <1>2, <1>3, <1>4
<1>6. l.frame[i].sum[n + 1][2] < t
  BY <1>1, <1>2, <1>3 DEF Older
<1> QED BY <1>5, <1>6

(* What the step does, and what it leaves. *)
Wrote(p, pg, commit, fr) ==
  /\ Appends(log', log, hdr[p].mx, fr, pg, txn, commit, Before(hdr[p]))
  /\ fr.salt \in {hdr[p].salt, txn}
  /\ \/ logDisk' = log'
     \/ /\ ~(commit /\ FullSync)
        /\ \/ hdr[p].mx = 0 /\ logDisk'.salt = fr.salt /\ logDisk'.frame = log.frame
           \/ hdr[p].mx > 0 /\ logDisk' = logDisk
  /\ idx'.a = idx.a /\ idx'.nBackfill = idx.nBackfill /\ idx'.mark = idx.mark
  /\ idx'.pgno[hdr[p].mx + 1] = pg /\ \A i \in 1..hdr[p].mx : idx'.pgno[i] = idx.pgno[i]
  /\ hdr'[p].mx = hdr[p].mx + 1 /\ hdr'[p].salt = fr.salt /\ hdr'[p].sum = fr.sum
  /\ wrote' = wrote \cup {pg} /\ state'[txn] = After(state, com, txn, wrote')
  /\ \A v \in 0..MaxTxn : v # txn => state'[v] = state[v]
  /\ st'[p] = (IF commit THEN "COMMIT" ELSE "WRITER")
  /\ \A q \in Proc : q # p => st'[q] = st[q] /\ hdr'[q] = hdr[q]
  /\ UNCHANGED <<db, dbLoss, pick, rlock, ckpt, xlock, ck, txn, com, base>>

LEMMA FrameStep ==
  ASSUME WalTypeInv, WalTypeInv', WriterInv, NEW A \in 0..MaxFrame, WalInv(A), NEW p \in Proc,
         NEW pg \in Page, NEW commit \in BOOLEAN, NEW fresh \in BOOLEAN, WriteFrame(p, pg, commit, fresh)
  PROVE  Wrote(p, pg, commit, FrameOf(p, pg, commit, fresh))
<1> DEFINE fr == FrameOf(p, pg, commit, fresh)
           n  == hdr[p].mx
           f  == n + 1
<1>1. /\ st[p] = "WRITER" /\ n < MaxFrame
      /\ log' = [salt |-> IF f = 1 THEN fr.salt ELSE log.salt, frame |-> [log.frame EXCEPT ![f] = fr]]
      /\ logDisk' = LogSynced(p, fr)
      /\ idx' = [idx EXCEPT !.pgno = [i \in Frame |->
                   IF i = f THEN pg
                   ELSE IF i > f /\ (f = 1 \/ @[f] # 0) THEN 0 ELSE @[i]]]
      /\ wrote' = wrote \cup {pg}
      /\ state' = [state EXCEPT ![txn] = [q \in Page |-> IF q \in wrote' THEN txn
                                                        ELSE state[hdr[p].txn][q]]]
      /\ Goto(p, IF commit THEN "COMMIT" ELSE "WRITER")
      /\ UNCHANGED <<db, dbLoss, pick, locks, ck, txn, com, base, overrun>>
  BY DEF WriteFrame
<1>2. /\ f \in Frame /\ (\A q \in Proc : q # p => hdr'[q] = hdr[q])
      /\ hdr'[p].mx = f /\ hdr'[p].salt = fr.salt /\ hdr'[p].sum = fr.sum
  BY WriteFrameHdr
<1>3. /\ NewFrame(fr, f, pg, txn, commit, Before(hdr[p])) /\ fr.salt \in {hdr[p].salt, txn}
      /\ n > 0 => fr.salt = hdr[p].salt
  BY NewFrameIs
<1>4. WriterAt(A, p)
  BY <1>1, WriterBase
<1>5. n \in 0..MaxFrame /\ n \in Nat /\ log \in LogT /\ (n > 0 <=> f # 1) /\ (n = 0 <=> f = 1)
  <2>1. n \in 0..MaxFrame /\ log \in LogT
    BY FieldTypes
  <2> HIDE DEF n
  <2> QED BY ONLY <2>1 DEF f
<1> HIDE DEF fr, f, n
<1>6. n > 0 => log.salt = fr.salt /\ Valid(log, n) /\ Before(hdr[p]) = log.frame[n].sum
  <2>1. n > 0 => n # 0
    BY <1>5
  <2> QED BY <1>3, <1>4, <2>1 DEF WriterAt, Before, n
<1>7. Appends(log', log, n, fr, pg, txn, commit, Before(hdr[p]))
  <2>1. log'.salt = fr.salt
    BY <1>1, <1>5, <1>6
  <2>2. Put(log', log, f, fr)
    <3>1. log.frame \in [Frame -> FrameT]
      BY <1>5 DEF LogT
    <3> QED BY <1>1, <1>2, <3>1 DEF Put
  <2>3. f = n + 1
    BY DEF f
  <2> QED BY <1>2, <1>3, <1>5, <1>6, <2>1, <2>2, <2>3 DEF Appends
<1>8. \/ logDisk' = log'
      \/ /\ ~(commit /\ FullSync)
         /\ \/ n = 0 /\ logDisk'.salt = fr.salt /\ logDisk'.frame = log.frame
            \/ n > 0 /\ logDisk' = logDisk
  <2>1. CASE commit /\ FullSync
    <3>1. fr.commit
      BY <1>3, <2>1 DEF NewFrame
    <3> QED BY <1>1, <2>1, <3>1 DEF LogSynced
  <2>2. CASE ~(commit /\ FullSync)
    <3>1. ~(fr.commit /\ FullSync)
      BY <1>3, <2>2 DEF NewFrame
    <3>2. logDisk' = IF n = 0 THEN [log EXCEPT !.salt = fr.salt] ELSE logDisk
      BY <1>1, <3>1 DEF LogSynced, n
    <3>3. n > 0 \/ n = 0
      BY <1>5
    <3> QED BY <1>5, <2>2, <3>2, <3>3 DEF LogT
  <2> QED BY <2>1, <2>2
<1>9. /\ idx'.a = idx.a /\ idx'.nBackfill = idx.nBackfill /\ idx'.mark = idx.mark
      /\ idx'.pgno[f] = pg /\ \A i \in 1..n : idx'.pgno[i] = idx.pgno[i]
  <2>1. \A i \in 1..n : i \in Frame /\ i # f /\ ~(i > f)
    BY <1>5, InFrame DEF f
  <2>2. idx'.pgno = [i \in Frame |->
                   IF i = f THEN pg
                   ELSE IF i > f /\ (f = 1 \/ idx.pgno[f] # 0) THEN 0 ELSE idx.pgno[i]]
    BY <1>1 DEF WalTypeInv, IndexT
  <2>3. idx'.a = idx.a /\ idx'.nBackfill = idx.nBackfill /\ idx'.mark = idx.mark
    BY <1>1 DEF WalTypeInv, IndexT
  <2> QED BY <1>2, <2>1, <2>2, <2>3
<1>10. state'[txn] = After(state, com, txn, wrote') /\ \A v \in 0..MaxTxn : v # txn => state'[v] = state[v]
  <2>1. hdr[p].txn = com
    BY <1>1 DEF WriterInv, Writing
  <2>2. state \in [0..MaxTxn -> [Page -> 0..MaxTxn]] /\ txn \in 0..MaxTxn
    BY DEF WalTypeInv, HistOK
  <2> QED BY <1>1, <2>1, <2>2 DEF After
<1>11. /\ st'[p] = (IF commit THEN "COMMIT" ELSE "WRITER")
       /\ \A q \in Proc : q # p => st'[q] = st[q]
  BY <1>1 DEF WalTypeInv, ProcOK, Goto
<1>12. UNCHANGED <<db, dbLoss, pick, rlock, ckpt, xlock, ck, txn, com, base>>
  BY <1>1 DEF locks
<1> QED BY <1>1, <1>2, <1>3, <1>7, <1>8, <1>9, <1>10, <1>11, <1>12 DEF Wrote, fr, f, n

(* A commit of an earlier transaction keeps its state. *)
LEMMA CommitStays ==
  ASSUME NEW x, NEW i, NEW b \in 0..MaxTxn, NEW S, NEW R, NEW t \in Nat, x.v \in 0..MaxTxn,
         \A v \in 0..MaxTxn : v # t => R[v] = S[v], b < t, x.commit => x.v < t, CommitOK(x, i, b, S)
  PROVE  CommitOK(x, i, b, R)
<1>1. R[b] = S[b] /\ (x.commit => R[x.v] = S[x.v])
  BY WalAssumption
<1> QED BY <1>1 DEF CommitOK

LEMMA WroteLog ==
  ASSUME WalTypeInv, WalTypeInv', WriterInv, NEW A \in 0..MaxFrame, WalInv(A), NEW p \in Proc,
         NEW pg \in Page, NEW commit \in BOOLEAN, NEW fr, st[p] = "WRITER", Wrote(p, pg, commit, fr),
         NEW B, B = IF hdr[p].mx = 0 THEN 0 ELSE A
  PROVE  /\ LogInv(B)'
         /\ idx.a.mx = 0 => CommitsOK(log', idx.a.salt, 0, log', base, state')
         /\ Shows(state'[txn], state[base], fr.sum, hdr[p].mx + 1)
<1> DEFINE n == hdr[p].mx
           f == n + 1
<1>1. WriterAt(A, p) /\ WrtInv(A, p) /\ LogInv(A) /\ IdxInv(A) /\ idx.a.init
  BY WriterBase DEF WalInv, ProcInv, WriterInv, Writing
<1>2. com < txn /\ NoCommitOf(log, txn) /\ NoCommitOf(logDisk, txn)
  BY <1>1 DEF WrtInv, Writing
<1>3. LogCore(A, db, dbLoss, log, logDisk, txn, base, state) /\ ComOK(log, logDisk, com, base, txn)
  BY <1>1 DEF LogInv
<1>4. /\ txn \in Nat /\ com \in 0..MaxTxn /\ base \in 0..MaxTxn /\ com \in Nat /\ base \in Nat
      /\ log \in LogT /\ logDisk \in LogT /\ n \in 0..MaxFrame /\ n \in Nat /\ idx.a.mx \in 0..MaxFrame
  BY FieldTypes
<1>5. base <= com /\ base < txn /\ com <= txn
  BY <1>2, <1>3, <1>4 DEF ComOK
<1>6. /\ Appends(log', log, n, fr, pg, txn, commit, Before(hdr[p]))
      /\ UNCHANGED <<db, dbLoss, txn, com, base>>
      /\ fr.salt \in {hdr[p].salt, txn}
      /\ state'[txn] = After(state, com, txn, wrote') /\ wrote' = wrote \cup {pg}
      /\ \A v \in 0..MaxTxn : v # txn => state'[v] = state[v]
  BY DEF Wrote
<1>7. \/ logDisk' = log'
      \/ /\ ~(commit /\ FullSync)
         /\ \/ n = 0 /\ logDisk'.salt = fr.salt /\ logDisk'.frame = log.frame
            \/ n > 0 /\ logDisk' = logDisk
  BY DEF Wrote
<1> HIDE DEF f, n
<1>8. /\ Same(log, log', n) /\ Valid(log', f) /\ log'.salt # 0 /\ log' # NoLog /\ log'.frame[f] = fr
  BY <1>6, AppendValid DEF f
<1>9. FramesOK(log', txn)
  BY <1>3, <1>4, <1>6, AppendFrames DEF LogCore
<1>10. log'.salt = fr.salt /\ fr.v = txn /\ fr.commit = commit /\ fr.salt # 0 /\ fr.salt <= txn /\ f \in Frame
       /\ \A i \in Frame : log'.frame[i] = log.frame[i] \/ (i = f /\ log'.frame[i] = fr)
  BY <1>6 DEF Appends, NewFrame, Put, f
<1>11. state'[base] = state[base] /\ state'[com] = state[com]
  BY <1>2, <1>4, <1>5, <1>6
<1>12. Shows(state'[txn], state[base], fr.sum, f)
  <2> DEFINE P == After(state, com, txn, wrote)
             R == state'[txn]
  <2>1. Shows(P, state[base], Before(hdr[p]), n)
    BY <1>1 DEF WriterAt, n
  <2>2. R[pg] = txn /\ \A q \in Page : q # pg => R[q] = P[q]
    BY <1>6 DEF After
  <2> HIDE DEF P, R
  <2>3. Shows(R, state[base], fr.sum, n + 1)
    BY <1>6, <2>1, <2>2, AppendShows
  <2> QED BY <2>3 DEF R, f
<1>13. CommitOK(fr, f, base, state')
  BY <1>4, <1>5, <1>10, <1>11, <1>12 DEF CommitOK
<1>14. \A i \in Frame : CommitOK(log.frame[i], i, base, state) => CommitOK(log.frame[i], i, base, state')
  <2> SUFFICES ASSUME NEW i \in Frame, CommitOK(log.frame[i], i, base, state)
               PROVE  CommitOK(log.frame[i], i, base, state')
    OBVIOUS
  <2>1. log.frame[i].v \in 0..MaxTxn
    BY <1>4 DEF LogT, FrameT
  <2>2. log.frame[i].commit => log.frame[i].v < txn
    BY <1>2 DEF NoCommitOf
  <2> QED BY <1>4, <1>5, <1>6, <2>1, <2>2, CommitStays
<1>15. \A i \in Frame : CommitOK(logDisk.frame[i], i, base, state) =>
                        CommitOK(logDisk.frame[i], i, base, state')
  <2> SUFFICES ASSUME NEW i \in Frame, CommitOK(logDisk.frame[i], i, base, state)
               PROVE  CommitOK(logDisk.frame[i], i, base, state')
    OBVIOUS
  <2>1. logDisk.frame[i].v \in 0..MaxTxn
    BY <1>4 DEF LogT, FrameT
  <2>2. logDisk.frame[i].commit => logDisk.frame[i].v < txn
    BY <1>2 DEF NoCommitOf
  <2> QED BY <1>4, <1>5, <1>6, <2>1, <2>2, CommitStays
<1>16. idx.a.mx = 0 =>
         /\ base = com /\ AtBase(dbLoss, state[base])
         /\ \A i \in Frame : log.frame[i].salt = idx.a.salt /\ idx.a.salt # 0 => CommitOK(log.frame[i], i, base, state)
  <2> SUFFICES ASSUME idx.a.mx = 0
               PROVE  /\ base = com /\ AtBase(dbLoss, state[base])
                      /\ \A i \in Frame : log.frame[i].salt = idx.a.salt /\ idx.a.salt # 0 =>
                           CommitOK(log.frame[i], i, base, state)
    OBVIOUS
  <2>1. base = com /\ AtBase(dbLoss, state[base]) /\ CommitsOK(log, idx.a.salt, 0, log, base, state)
    BY <1>1 DEF IdxInv, HdrEmpty
  <2>2. \A i \in Frame : i >= 0 /\ Extends(log.frame[i], 0, log)
    BY DEF Extends, Frame
  <2> QED BY <2>1, <2>2 DEF CommitsOK
<1>17. idx.a.mx = 0 => CommitsOK(log', idx.a.salt, 0, log', base, state')
  BY <1>10, <1>13, <1>14, <1>16 DEF CommitsOK
<1>18. CASE n = 0
  <2>1. hdr[p] = idx.a /\ Untouched(log, txn) /\ idx.a.mx = 0 /\ B = 0
    BY <1>1, <1>18 DEF WriterAt, n
  <2>2. \A i \in Frame : log.frame[i].salt = fr.salt => CommitOK(log.frame[i], i, base, state')
    <3> SUFFICES ASSUME NEW i \in Frame, log.frame[i].salt = fr.salt
                 PROVE  CommitOK(log.frame[i], i, base, state)
      BY <1>14
    <3>1. log.frame[i].salt # txn
      <4>1. log.frame[i].salt < txn /\ log.frame[i].salt \in 0..MaxTxn
        BY <1>4, <2>1 DEF Untouched, LogT, FrameT
      <4> QED BY <1>4, <4>1
    <3>2. fr.salt = idx.a.salt
      BY <1>6, <2>1, <3>1
    <3> QED BY <1>10, <1>16, <2>1, <3>2
  <2>3. logDisk'.salt = fr.salt /\ \A i \in Frame : logDisk'.frame[i] = log.frame[i] \/ (i = f /\ logDisk'.frame[i] = fr)
    BY <1>7, <1>10, <1>18
  <2>4. \A k : CommitsOK(log', fr.salt, 0, k, base, state') /\ CommitsOK(logDisk', fr.salt, 0, k, base, state')
    BY <1>10, <1>13, <2>2, <2>3 DEF CommitsOK
  <2>5. FramesOK(logDisk', txn)
    <3>1. FramesOK(log, txn) /\ FrameOK(fr, f, txn)
      BY <1>3, <1>9, <1>8, <1>10 DEF LogCore, FramesOK
    <3> QED BY <1>10, <2>3, <3>1 DEF FramesOK
  <2>6. SaltsOK(log', logDisk') /\ AnchorOK(0, log', logDisk')
    BY <1>10, <2>3 DEF SaltsOK, AnchorOK
  <2>7. LossOK(0, db, dbLoss, logDisk', state'[base])
    BY <1>3, <1>11, <1>16, <2>1 DEF LogCore, LossOK, AtBase
  <2>8. LogCore(0, db, dbLoss, log', logDisk', txn, base, state')
    BY <1>8, <1>9, <2>3, <2>4, <2>5, <2>6, <2>7 DEF LogCore
  <2>9. SyncOK(log', logDisk')
    <3> SUFFICES ASSUME FullSync, NEW i \in Frame, CommitFrame(log', i) PROVE Same(log', logDisk', i)
      BY DEF SyncOK
    <3>1. i = f
      <4>1. i <= n + 1
        BY <1>1, <1>4, <1>6, AppendEnds DEF CommitFrame, WriterAt, n
      <4> QED BY <1>18, <4>1 DEF Frame, f
    <3>2. commit
      BY <1>10, <1>8, <3>1 DEF CommitFrame
    <3>3. logDisk' = log'
      BY <1>7, <3>2
    <3> QED BY <3>3 DEF Same
  <2>10. ComOK(log', logDisk', com, base, txn)
    BY <1>5, <1>8, <1>16, <2>1, <2>9 DEF ComOK
  <2>11. LogInv(B)'
    BY <1>6, <2>1, <2>8, <2>10 DEF LogInv
  <2> QED BY <1>12, <1>17, <2>11 DEF n, f
<1>19. CASE n > 0
  <2>1. n # 0 /\ B = A /\ n \in Frame
    BY <1>4, <1>19 DEF n, Frame
  <2>2. A <= idx.a.mx /\ log.salt = hdr[p].salt /\ Valid(log, n) /\ idx.a.mx <= n
    BY <1>1, <1>4, <1>19 DEF WriterAt, n
  <2>3. A <= n
    BY <1>4, <2>2
  <2>4. log # NoLog /\ log.salt = logDisk.salt /\ log.salt = fr.salt
    <3>1. log # NoLog
      BY <2>1, <2>2, ValidHasLog
    <3> QED BY <1>3, <1>6, <1>19, <3>1 DEF LogCore, SaltsOK, Appends
  <2>5. Same(log, logDisk, A) /\ Same(logDisk, logDisk', A) /\ Same(log', logDisk', A)
    <3>1. Same(log, logDisk, A)
      <4>1. CASE A = 0
        BY <4>1 DEF Same
      <4>2. CASE A > 0
        BY <1>3, <2>4, <4>2 DEF LogCore, AnchorOK
      <4> QED BY <4>1, <4>2
    <3>2. Same(log, log', A)
      BY <1>4, <1>8, <2>3, SamePrefix
    <3> QED BY <1>7, <2>1, <3>1, <3>2 DEF Same
  <2>6. logDisk'.salt = fr.salt /\ (logDisk' = log' \/ logDisk' = logDisk)
    BY <1>7, <1>10, <2>1, <2>4
  <2>7. FramesOK(logDisk', txn)
    BY <1>3, <1>9, <2>6 DEF LogCore
  <2>8. SaltsOK(log', logDisk')
    BY <1>10, <2>6 DEF SaltsOK
  <2>9. AnchorOK(A, log', logDisk')
    <3> SUFFICES ASSUME A > 0 PROVE CommitFrame(logDisk', A)
      BY <2>5 DEF AnchorOK
    <3>1. CommitFrame(logDisk, A) /\ A \in Frame
      BY <1>3 DEF LogCore, AnchorOK, CommitFrame
    <3> QED BY <2>4, <2>5, <2>6, <3>1, CommitFrameSame
  <2>10. \A x : Extends(x, A, logDisk') => Extends(x, A, logDisk)
    BY <2>5 DEF Extends, Same
  <2>11. CommitsOK(log, fr.salt, A, logDisk, base, state) /\ CommitsOK(logDisk, fr.salt, A, logDisk, base, state)
    BY <1>3, <2>4 DEF LogCore
  <2>12. CommitsOK(log', fr.salt, A, logDisk', base, state')
    BY <1>10, <1>13, <1>14, <2>10, <2>11 DEF CommitsOK
  <2>13. CommitsOK(logDisk', fr.salt, A, logDisk', base, state')
    <3>1. CASE logDisk' = log'
      BY <2>12, <3>1
    <3>2. CASE logDisk' = logDisk
      BY <1>15, <2>10, <2>11, <3>2 DEF CommitsOK
    <3> QED BY <2>6, <3>1, <3>2
  <2>14. LossOK(A, db, dbLoss, logDisk', state'[base])
    <3>1. \A x \in Page : Unseen(Links(logDisk'), x, A) => Unseen(Links(logDisk), x, A)
      BY <2>5, SameSym, UnseenAnchor
    <3> QED BY <1>3, <1>11, <3>1 DEF LogCore, LossOK
  <2>15. LogCore(A, db, dbLoss, log', logDisk', txn, base, state')
    BY <1>8, <1>9, <2>6, <2>7, <2>8, <2>9, <2>12, <2>13, <2>14 DEF LogCore
  <2>16. SyncOK(log', logDisk')
    <3> SUFFICES ASSUME FullSync, NEW i \in Frame, CommitFrame(log', i), logDisk' # log'
                 PROVE  Same(log', logDisk', i)
      BY DEF SyncOK, Same
    <3>1. i <= n + 1 /\ logDisk' = logDisk
      BY <1>1, <1>4, <1>6, <2>6, AppendEnds DEF CommitFrame, WriterAt, n
    <3>2. i # f
      BY <1>7, <1>8, <1>10 DEF CommitFrame
    <3>3. i <= n /\ i \in Int
      BY <1>4, <3>1, <3>2 DEF Frame, f
    <3>4. Same(log, log', i) /\ Same(log', log, i)
      BY <1>4, <1>8, <3>3, SamePrefix, SameSym
    <3>5. CommitFrame(log, i)
      BY <1>10, <2>4, <3>4, CommitFrameSame
    <3>6. Same(log, logDisk, i)
      BY <1>3, <3>5 DEF ComOK, SyncOK
    <3> QED BY <3>1, <3>4, <3>6 DEF Same
  <2>17. com = base \/ ComIn(log', com)
    <3>1. CASE idx.a.mx = 0
      BY <1>16, <3>1
    <3>2. CASE idx.a.mx > 0
      <4> DEFINE o == idx.a.mx
      <4>1. CommitFrame(log, o) /\ log.frame[o].v = com /\ o \in Frame
        BY <1>1, <3>2 DEF IdxInv, HdrFull, CommitFrame
      <4>2. Same(log, log', o) /\ o \in 1..o
        BY <1>4, <1>8, <2>2, <4>1, SamePrefix DEF Frame
      <4>3. CommitFrame(log', o) /\ log'.frame[o].v = com
        BY <1>10, <2>4, <4>1, <4>2, CommitFrameSame DEF Same
      <4> QED BY <4>1, <4>3 DEF ComIn
    <3> QED BY <1>4, <3>1, <3>2
  <2>18. ComOK(log', logDisk', com, base, txn)
    BY <1>5, <1>8, <2>16, <2>17 DEF ComOK
  <2>19. LogInv(B)'
    BY <1>6, <2>1, <2>15, <2>18 DEF LogInv
  <2> QED BY <1>12, <1>17, <2>19 DEF n, f
<1> QED BY <1>4, <1>18, <1>19

(* Logs with the same first frames agree on what these show. *)
LEMMA LinksSame ==
  ASSUME NEW l, NEW m, NEW n \in 0..MaxFrame, Same(l, m, n), NEW o \in 0..MaxFrame, o <= n
  PROVE  /\ \A j \in 1..o : Links(m)[j] = Links(l)[j] /\ m.frame[j] = l.frame[j]
         /\ \A x \in Frame : x <= o => (LastIn(Links(m), x, o) <=> LastIn(Links(l), x, o))
         /\ \A x : Unseen(Links(m), x, o) <=> Unseen(Links(l), x, o)
<1>1. \A j \in 1..o : j \in 1..n /\ j \in Frame
  BY InFrame
<1>2. \A j \in 1..o : Links(m)[j] = Links(l)[j] /\ m.frame[j] = l.frame[j]
  BY <1>1, LinksAt DEF Same
<1>3. ASSUME NEW x \in Frame, x <= o PROVE LastIn(Links(m), x, o) <=> LastIn(Links(l), x, o)
  <2>1. x \in 1..o /\ \A k \in (x + 1)..o : k \in 1..o
    BY <1>3 DEF Frame
  <2> QED BY <1>2, <2>1 DEF LastIn
<1>4. \A x : Unseen(Links(m), x, o) <=> Unseen(Links(l), x, o)
  BY <1>2 DEF Unseen
<1> QED BY <1>2, <1>3, <1>4

LEMMA WroteIndex ==
  ASSUME WalTypeInv, WalTypeInv', WriterInv, NEW A \in 0..MaxFrame, WalInv(A), NEW p \in Proc,
         NEW pg \in Page, NEW commit \in BOOLEAN, NEW fr, st[p] = "WRITER", Wrote(p, pg, commit, fr),
         NEW B, B = IF hdr[p].mx = 0 THEN 0 ELSE A
  PROVE  IdxInv(B)' /\ B <= idx.a.mx /\ PgnoOK(idx'.pgno, log', hdr[p].mx + 1)
<1> DEFINE n == hdr[p].mx
           o == idx.a.mx
<1>1. WriterAt(A, p) /\ WrtInv(A, p) /\ LogInv(A) /\ IdxInv(A) /\ idx.a.init
  BY WriterBase DEF WalInv, ProcInv, WriterInv, Writing
<1>2. /\ Appends(log', log, n, fr, pg, txn, commit, Before(hdr[p]))
      /\ UNCHANGED <<db, dbLoss, txn, com, base>>
      /\ \A v \in 0..MaxTxn : v # txn => state'[v] = state[v]
      /\ idx'.a = idx.a /\ idx'.nBackfill = idx.nBackfill
      /\ idx'.pgno[n + 1] = pg /\ \A i \in 1..n : idx'.pgno[i] = idx.pgno[i]
  BY DEF Wrote
<1>3. n \in 0..MaxFrame /\ o \in 0..MaxFrame /\ idx.nBackfill \in 0..MaxFrame /\ com \in Nat
      /\ txn \in Nat /\ base \in 0..MaxTxn /\ base \in Nat
  BY FieldTypes
<1>4. o <= n /\ (n > 0 => A <= o /\ log.salt = hdr[p].salt /\ PgnoOK(idx.pgno, log, n) /\ log.salt = fr.salt)
  BY <1>1, <1>2, <1>3 DEF WriterAt, Appends
<1> HIDE DEF n, o
<1>5. Same(log, log', n) /\ log'.salt = fr.salt /\ log'.frame[n + 1] = fr /\ fr.pg = pg
  <2>1. Same(log, log', n) /\ log'.frame[n + 1] = fr
    BY <1>2, AppendValid
  <2> QED BY <1>2, <2>1 DEF Appends, NewFrame
<1>6. ~Resetting /\ ~Resetting'
  <2>1. \A q \in Proc : q # p => st[q] \notin Writing
    BY OneWriter DEF Writing
  <2>2. st'[p] \in {"COMMIT", "WRITER"} /\ \A q \in Proc : q # p => st'[q] = st[q]
    BY DEF Wrote
  <2> QED BY <2>1, <2>2 DEF Resetting, Writing
<1>7. HdrFull(A, idx.a, idx.pgno, log, com) /\ HdrEmpty(idx.a, dbLoss, log, com, base, state)
      /\ idx.nBackfill <= A /\ idx.a.salt <= txn /\ BackOK(idx.nBackfill, o, db, dbLoss, log)
  BY <1>1, <1>6 DEF IdxInv, o
<1>8. n > 0 => n # 0 /\ B = A
  BY <1>3 DEF n
<1>9. n = 0 => B = 0 /\ o = 0
  BY <1>3, <1>4 DEF n
<1>10. B <= o /\ idx.nBackfill <= B
  <2>1. CASE n > 0
    BY <1>4, <1>7, <1>8, <2>1
  <2>2. CASE n = 0
    <3>1. idx.nBackfill <= o
      BY <1>7 DEF BackOK
    <3> QED BY <1>3, <1>9, <2>2, <3>1
  <2> QED BY <1>3, <2>1, <2>2
<1>11. PgnoOK(idx'.pgno, log', n + 1)
  <2> SUFFICES ASSUME NEW j \in 1..(n + 1) PROVE idx'.pgno[j] = log'.frame[j].pg
    BY DEF PgnoOK
  <2>1. CASE j = n + 1
    BY <1>2, <1>5, <2>1 DEF n
  <2>2. CASE j \in 1..n
    <3>1. n > 0
      BY <1>3, <2>2
    <3> QED BY <1>2, <1>4, <1>5, <2>2, <3>1 DEF PgnoOK, Same, n
  <2> QED BY <1>3, <2>1, <2>2
<1>12. HdrFull(B, idx.a, idx'.pgno, log', com)
  <2> SUFFICES ASSUME o > 0
               PROVE  /\ log'.salt = idx.a.salt /\ B <= o /\ CommitFrame(log', o)
                      /\ log'.frame[o].v = com /\ idx.a.sum = log'.frame[o].sum
                      /\ PgnoOK(idx'.pgno, log', o)
    BY DEF HdrFull, o
  <2>1. /\ log.salt = idx.a.salt /\ CommitFrame(log, o) /\ log.frame[o].v = com
        /\ idx.a.sum = log.frame[o].sum /\ o \in Frame
    BY <1>7 DEF HdrFull, CommitFrame, o
  <2>2. n > 0 /\ o \in 1..o /\ \A j \in 1..o : j \in 1..(n + 1)
    BY <1>3, <1>4
  <2>3. Same(log, log', o) /\ log'.salt = log.salt
    BY <1>3, <1>4, <1>5, <2>2, SamePrefix
  <2>4. CommitFrame(log', o) /\ log'.frame[o] = log.frame[o]
    BY <2>1, <2>2, <2>3, CommitFrameSame DEF Same
  <2>5. PgnoOK(idx'.pgno, log', o)
    BY <1>11, <2>2 DEF PgnoOK
  <2> QED BY <1>10, <2>1, <2>3, <2>4, <2>5
<1>13. HdrEmpty(idx.a, dbLoss, log', com, base, state')
  <2> SUFFICES ASSUME o = 0
               PROVE  base = com /\ AtBase(dbLoss, state'[base]) /\ CommitsOK(log', idx.a.salt, 0, log', base, state')
    BY DEF HdrEmpty, o
  <2>1. base = com /\ AtBase(dbLoss, state[base])
    BY <1>7 DEF HdrEmpty, o
  <2>2. com < txn
    BY <1>1 DEF WrtInv, Writing
  <2>3. state'[base] = state[base]
    BY <1>2, <1>3, <2>1, <2>2
  <2>4. CommitsOK(log', idx.a.salt, 0, log', base, state')
    BY WroteLog DEF o
  <2> QED BY <2>1, <2>3, <2>4
<1>14. BackOK(idx.nBackfill, o, db, dbLoss, log')
  <2>1. Copied(db, log, 0, idx.nBackfill, o) /\ idx.nBackfill <= o
    BY <1>7 DEF BackOK
  <2>2. Copied(db, log', 0, idx.nBackfill, o)
    <3> SUFFICES ASSUME NEW x \in Frame, x <= idx.nBackfill, LastIn(Links(log'), x, o)
                 PROVE  db[log'.frame[x].pg] = log'.frame[x].v
      BY DEF Copied
    <3>1. x \in 1..o /\ x <= o /\ 0 < x
      BY <1>3, <2>1 DEF Frame
    <3>2. log'.frame[x] = log.frame[x] /\ LastIn(Links(log), x, o)
      BY <1>3, <1>4, <1>5, <3>1, LinksSame
    <3> QED BY <2>1, <3>1, <3>2 DEF Copied
  <2> QED BY <1>7, <2>2 DEF BackOK
<1> QED BY <1>2, <1>7, <1>10, <1>11, <1>12, <1>13, <1>14 DEF IdxInv, n, o

(* The readers and the checkpoint see none of it. *)
LEMMA WroteOthers ==
  ASSUME WalTypeInv, WalTypeInv', WriterInv, NEW A \in 0..MaxFrame, WalInv(A), NEW p \in Proc,
         NEW pg \in Page, NEW commit \in BOOLEAN, NEW fr, st[p] = "WRITER", Wrote(p, pg, commit, fr),
         NEW B, B = IF hdr[p].mx = 0 THEN 0 ELSE A, NEW q \in Proc, q # p
  PROVE  ProcInv(B, q)'
<1> DEFINE n == hdr[p].mx
           o == idx.a.mx
           h == hdr[q]
<1>1. WriterAt(A, p) /\ WrtInv(A, p) /\ LogInv(A) /\ RdInv(q) /\ CkInv(A, q)
  BY WriterBase DEF WalInv, ProcInv
<1>2. /\ Appends(log', log, n, fr, pg, txn, commit, Before(hdr[p]))
      /\ UNCHANGED <<db, dbLoss, txn, com, base, pick, rlock, ckpt, xlock, ck>>
      /\ \A v \in 0..MaxTxn : v # txn => state'[v] = state[v]
      /\ idx'.a = idx.a /\ idx'.nBackfill = idx.nBackfill /\ idx'.mark = idx.mark
      /\ st'[q] = st[q] /\ hdr'[q] = h
      /\ st'[p] \in {"COMMIT", "WRITER"} /\ \A r \in Proc : r # p => st'[r] = st[r] /\ hdr'[r] = hdr[r]
  BY DEF Wrote
<1>3. n \in 0..MaxFrame /\ o \in 0..MaxFrame /\ h.mx \in 0..MaxFrame /\ com \in Nat /\ txn \in Nat
      /\ base \in 0..MaxTxn /\ base \in Nat /\ h.txn \in 0..MaxTxn /\ MaxTxn \in Nat
  BY FieldTypes, WalAssumption
<1>4. o <= n /\ Same(log, log', n)
  BY <1>1, <1>2, <1>3, AppendValid DEF WriterAt
<1>5. com < txn /\ base <= com
  BY <1>1 DEF WrtInv, Writing, LogInv, ComOK
<1>6. state'[base] = state[base] /\ (h.txn <= com => state'[h.txn] = state[h.txn])
  BY <1>2, <1>3, <1>5
<1>7. \A r \in Proc : r # p => st[r] \notin Writing
  BY OneWriter DEF Writing
<1>8. ~Resetting /\ ~Resetting' /\ ~Restarting' /\ Active
  <2>1. \A r \in Proc : st[r] \notin {"RESTART", "RESTART_A"} /\ st'[r] \notin {"RESTART", "RESTART_A"}
    BY <1>2, <1>7 DEF Writing
  <2> QED BY <2>1 DEF Resetting, Restarting, Active, Writing
<1>9. WrtInv(B, q)'
  BY <1>2, <1>7 DEF WrtInv
<1>10. h.mx <= o => /\ h.mx <= n /\ (h.mx > 0 => log'.frame[h.mx] = log.frame[h.mx])
                    /\ \A j \in 1..h.mx : Links(log')[j] = Links(log)[j] /\ log'.frame[j] = log.frame[j]
                    /\ \A x \in Frame : x <= h.mx => (LastIn(Links(log'), x, h.mx) <=> LastIn(Links(log), x, h.mx))
                    /\ \A x : Unseen(Links(log'), x, h.mx) <=> Unseen(Links(log), x, h.mx)
  <2> HIDE DEF n, o, h
  <2> SUFFICES ASSUME h.mx <= o
               PROVE  /\ h.mx <= n /\ (h.mx > 0 => log'.frame[h.mx] = log.frame[h.mx])
                      /\ \A j \in 1..h.mx : Links(log')[j] = Links(log)[j] /\ log'.frame[j] = log.frame[j]
                      /\ \A x \in Frame : x <= h.mx => (LastIn(Links(log'), x, h.mx) <=> LastIn(Links(log), x, h.mx))
                      /\ \A x : Unseen(Links(log'), x, h.mx) <=> Unseen(Links(log), x, h.mx)
    OBVIOUS
  <2>1. h.mx <= n
    BY <1>3, <1>4
  <2>2. h.mx > 0 => h.mx \in 1..h.mx
    BY <1>3
  <2> QED BY <1>3, <1>4, <2>1, <2>2, LinksSame
<1>11. RdInv(q)'
  <2>1. ASSUME h.mx <= o, h.txn <= com, SlotView(h, db, log, base, state)
        PROVE  SlotView(h, db, log', base, state')
    <3>1. h.mx \in Nat /\ \A j \in 1..h.mx : Links(log')[j] = Links(log)[j]
      BY <1>3, <1>10, <2>1
    <3>2. Shows(state[h.txn], state[base], Links(log'), h.mx)
      BY <2>1, <3>1, ShowsSame DEF SlotView
    <3> QED BY <1>6, <1>10, <2>1, <3>2 DEF SlotView
  <2>2. st[q] = "READER" => h.txn <= com
    BY <1>1 DEF RdInv
  <2> QED BY <1>1, <1>2, <1>6, <1>8, <2>1, <2>2 DEF RdInv
<1>12. CkInv(B, q)'
  <2>1. st[q] \in {"CKPT_MARKS", "BACKFILL"} =>
          /\ B = A /\ h.mx <= o /\ h.mx > 0 /\ ck.safe <= h.mx /\ ck.safe \in 0..MaxFrame
    <3> SUFFICES ASSUME st[q] \in {"CKPT_MARKS", "BACKFILL"}
                 PROVE  B = A /\ h.mx <= o /\ h.mx > 0 /\ ck.safe <= h.mx /\ ck.safe \in 0..MaxFrame
      OBVIOUS
    <3>1. h.mx <= o /\ 0 < h.mx /\ ck.safe <= h.mx
      BY <1>1 DEF CkInv
    <3>2. ck.safe \in 0..MaxFrame /\ n # 0
      BY <1>3, <1>4, <3>1 DEF WalTypeInv, ProcOK, CkptT
    <3> QED BY <1>3, <3>1, <3>2
  <2>2. st[q] \in {"CKPT_MARKS", "BACKFILL"} /\ ReadersSafe(ck.i, ck.safe) => ReadersSafe(ck.i, ck.safe)'
    BY <1>2 DEF ReadersSafe
  <2>3. h.mx <= o /\ TodoLast(log, h.mx, ck.todo) => TodoLast(log', h.mx, ck.todo)
    <3>1. ck.todo \subseteq Frame
      BY DEF WalTypeInv, ProcOK, CkptT
    <3> QED BY <1>10, <3>1 DEF TodoLast
  <2>4. h.mx <= o /\ TodoOK(log, h.mx, ck.todo) => TodoOK(log', h.mx, ck.todo)
    BY <1>10 DEF TodoOK
  <2>5. ASSUME h.mx <= o, ck.safe <= h.mx, ck.safe \in 0..MaxFrame,
               DoneOK(db, log, h.mx, ck.from, ck.safe, ck.todo)
        PROVE  DoneOK(db, log', h.mx, ck.from, ck.safe, ck.todo)
    <3>1. \A x \in Frame : x <= ck.safe => x <= h.mx /\ x \in 1..h.mx
      BY <1>3, <2>5 DEF Frame
    <3> QED BY <1>10, <2>5, <3>1 DEF DoneOK
  <2>6. CASE st[q] = "CKPT_HDR"
    BY <1>1, <1>2, <1>8, <1>10, <2>6 DEF CkInv
  <2>7. CASE st[q] = "CKPT_MARKS"
    <3>1. /\ idx.a.init /\ 0 < h.mx /\ h.mx <= o /\ log.frame[h.mx].commit
          /\ idx.nBackfill < h.mx /\ ck.safe <= h.mx /\ ReadersSafe(ck.i, ck.safe)
          /\ ck.i <= NReader /\ TodoLast(log, h.mx, ck.todo) /\ TodoOK(log, h.mx, ck.todo)
          /\ ckpt = q
      BY <1>1, <2>7 DEF CkInv, Copying
    <3>2. log'.frame[h.mx].commit
      BY <1>10, <2>1, <2>7, <3>1
    <3> QED BY <1>2, <1>8, <2>2, <2>3, <2>4, <2>7, <3>1, <3>2 DEF CkInv
  <2>8. CASE st[q] = "BACKFILL"
    <3>1. /\ idx.a.init /\ 0 < h.mx /\ h.mx <= o /\ log.frame[h.mx].commit
          /\ idx.nBackfill < h.mx /\ ck.safe <= h.mx /\ ReadersSafe(ck.i, ck.safe)
          /\ ck.i <= NReader /\ TodoLast(log, h.mx, ck.todo)
          /\ ck.i = NReader /\ xlock[0] = q /\ h.mx <= A /\ ck.from = idx.nBackfill
          /\ DoneOK(db, log, h.mx, ck.from, ck.safe, ck.todo) /\ ckpt = q
      BY <1>1, <2>8 DEF CkInv, Copying
    <3>2. log'.frame[h.mx].commit /\ B = A
      BY <1>10, <2>1, <2>8, <3>1
    <3>3. DoneOK(db, log', h.mx, ck.from, ck.safe, ck.todo)
      BY <2>1, <2>5, <2>8, <3>1
    <3> QED BY <1>2, <1>8, <2>2, <2>3, <2>8, <3>1, <3>2, <3>3 DEF CkInv
  <2>9. CASE st[q] \notin {"CKPT_HDR", "CKPT_MARKS", "BACKFILL"}
    BY <1>1, <1>2, <2>9 DEF CkInv
  <2> QED BY <2>6, <2>7, <2>8, <2>9
<1> QED BY <1>9, <1>11, <1>12 DEF ProcInv

LEMMA WroteOwn ==
  ASSUME WalTypeInv, WalTypeInv', WriterInv, NEW A \in 0..MaxFrame, WalInv(A), NEW p \in Proc,
         NEW pg \in Page, NEW commit \in BOOLEAN, NEW fr, st[p] = "WRITER", rlock[p] \in Slot,
         Wrote(p, pg, commit, fr), NEW B, B = IF hdr[p].mx = 0 THEN 0 ELSE A
  PROVE  ProcInv(B, p)'
<1> DEFINE n == hdr[p].mx
           o == idx.a.mx
<1>1. WriterAt(A, p) /\ WrtInv(A, p) /\ RdInv(p) /\ LogInv(A)
  BY WriterBase DEF WalInv, ProcInv
<1>2. /\ Appends(log', log, n, fr, pg, txn, commit, Before(hdr[p]))
      /\ UNCHANGED <<db, dbLoss, txn, com, base, pick, rlock, ckpt, xlock, ck>>
      /\ idx'.a = idx.a /\ idx'.nBackfill = idx.nBackfill /\ idx'.mark = idx.mark
      /\ hdr'[p].mx = n + 1 /\ hdr'[p].salt = fr.salt /\ hdr'[p].sum = fr.sum
      /\ wrote' = wrote \cup {pg} /\ state'[txn] = After(state, com, txn, wrote')
      /\ (\A v \in 0..MaxTxn : v # txn => state'[v] = state[v]) /\ fr.salt \in {hdr[p].salt, txn}
      /\ st'[p] = (IF commit THEN "COMMIT" ELSE "WRITER")
  BY DEF Wrote
<1>3. \/ logDisk' = log'
      \/ \/ n = 0 /\ logDisk'.salt = fr.salt /\ logDisk'.frame = log.frame
         \/ n > 0 /\ logDisk' = logDisk
  BY DEF Wrote
<1>4. n \in 0..MaxFrame /\ o \in 0..MaxFrame /\ com \in Nat /\ txn \in Nat /\ com \in 0..MaxTxn
      /\ base \in 0..MaxTxn /\ base \in Nat
  BY FieldTypes
<1>5. o <= n /\ com < txn /\ base <= com /\ (idx.a.salt = txn => o = 0)
      /\ NoCommitOf(log, txn) /\ NoCommitOf(logDisk, txn)
  BY <1>1, <1>4 DEF WriterAt, WrtInv, Writing, LogInv, ComOK
<1>6. /\ Valid(log', n + 1) /\ log'.frame[n + 1] = fr /\ log'.salt = fr.salt
      /\ fr.v = txn /\ fr.commit = commit /\ fr.salt <= txn
      /\ \A i \in Frame : log'.frame[i] = log.frame[i] \/ log'.frame[i] = fr
  <2> HIDE DEF n
  <2>1. Valid(log', n + 1) /\ log'.frame[n + 1] = fr
    BY <1>2, AppendValid
  <2> QED BY <1>2, <2>1 DEF Appends, NewFrame, Put
<1>7. fr.salt \in {idx.a.salt, txn}
  BY <1>1, <1>2 DEF WriterAt
<1>8. Older(log', n + 1, txn)
  BY <1>1, <1>2, AppendOlder DEF WriterAt
<1>9. state'[com] = state[com] /\ state'[base] = state[base]
  BY <1>2, <1>4, <1>5
<1>10. state'[txn] = After(state', com, txn, wrote')
  BY <1>2, <1>9 DEF After
<1>11. B <= o /\ PgnoOK(idx'.pgno, log', n + 1)
  BY WroteIndex
<1>12. Shows(state'[txn], state[base], fr.sum, n + 1)
  BY WroteLog
<1> HIDE DEF n, o
<1>13. Added(B, hdr'[p], idx'.a.mx, idx'.pgno, log', txn', wrote', com', base', state')
  <2>1. n + 1 > o
    BY <1>4, <1>5
  <2> QED BY <1>2, <1>6, <1>8, <1>9, <1>10, <1>11, <1>12, <2>1 DEF Added, o
<1>14. ~commit => NoCommitOf(log', txn) /\ NoCommitOf(logDisk', txn)
  <2> SUFFICES ASSUME ~commit PROVE NoCommitOf(log', txn) /\ NoCommitOf(logDisk', txn)
    OBVIOUS
  <2>1. NoCommitOf(log', txn)
    BY <1>5, <1>6 DEF NoCommitOf
  <2> QED BY <1>3, <1>5, <2>1 DEF NoCommitOf
<1>15. WrtInv(B, p)'
  <2>1. wrote' # {} /\ st'[p] \in {"WRITER", "COMMIT"} /\ (st'[p] = "COMMIT" => commit)
        /\ (st'[p] # "COMMIT" => ~commit)
    BY <1>2
  <2>2. log'.frame[hdr'[p].mx].commit = commit
    BY <1>2, <1>6 DEF n
  <2> QED BY <1>2, <1>5, <1>7, <1>13, <1>14, <2>1, <2>2 DEF WrtInv, o
<1>16. RdInv(p)'
  <2>1. idx.mark[rlock[p]] <= n /\ idx.mark[rlock[p]] <= o /\ idx.a.init
    BY <1>1 DEF RdInv, Slot, n, o
  <2>2. idx.mark[rlock[p]] <= n + 1
    <3>1. idx.mark[rlock[p]] \in 0..NotUsed /\ NotUsed \in Nat
      BY WalAssumption DEF WalTypeInv, IndexT, NotUsed
    <3> QED BY <1>4, <2>1, <3>1
  <2>3. st'[p] \in Holding /\ st'[p] \notin {"READER", "MARK", "WRITER_MARK"}
    BY <1>2 DEF Holding
  <2>4. rlock[p] # 0 /\ rlock[p] # -1
    BY DEF Slot
  <2> QED BY <1>2, <1>6, <2>1, <2>2, <2>3, <2>4 DEF RdInv, n, o
<1>17. CkInv(B, p)'
  BY <1>2 DEF CkInv, Copying
<1> QED BY <1>15, <1>16, <1>17 DEF ProcInv

LEMMA SnapWriteFrame ==
  ASSUME WalTypeInv, WalTypeInv', WriterInv, NEW A \in 0..MaxFrame, WalInv(A), NEW p \in Proc,
         NEW pg \in Page, NEW commit \in BOOLEAN, NEW fresh \in BOOLEAN, WriteFrame(p, pg, commit, fresh)
  PROVE  \E B \in 0..MaxFrame : WalInv(B)'
<1> DEFINE fr == FrameOf(p, pg, commit, fresh)
<1>1. Wrote(p, pg, commit, fr)
  BY FrameStep
<1>2. st[p] = "WRITER" /\ rlock[p] \in Slot
  <2>1. rlock[p] \in -1..(NReader - 1) /\ rlock[p] > 0 /\ st[p] = "WRITER"
    BY DEF WriteFrame, WalTypeInv, LockOK
  <2> QED BY <2>1, WalAssumption DEF Slot
<1>3. \E B \in 0..MaxFrame : B = IF hdr[p].mx = 0 THEN 0 ELSE A
  BY WalAssumption
<1> HIDE DEF fr
<1>4. PICK B \in 0..MaxFrame : B = IF hdr[p].mx = 0 THEN 0 ELSE A
  BY <1>3
<1>5. LogInv(B)' /\ IdxInv(B)'
  BY <1>1, <1>2, <1>4, WroteLog, WroteIndex
<1>6. \A q \in Proc : q # p => ProcInv(B, q)'
  BY <1>1, <1>2, <1>4, WroteOthers
<1>7. ProcInv(B, p)'
  BY <1>1, <1>2, <1>4, WroteOwn
<1>8. WalInv(B)'
  BY <1>5, <1>6, <1>7 DEF WalInv
<1> QED BY <1>8

-------------------------------------------------------------------------------
(* The invariant holds, and what follows from it. *)

LEMMA SnapInit == Init => SnapshotInv
<1> SUFFICES ASSUME Init PROVE \E A \in 0..MaxFrame : WalInv(A)
  BY DEF SnapshotInv
<1>1. 0 \in 0..MaxFrame /\ WalTypeInv
  BY WalAssumption, WalTypeInit
<1>2. /\ log = NoLog /\ logDisk = NoLog /\ txn = 0 /\ com = 0 /\ base = 0 /\ ~idx.a.init
      /\ \A pg \in Page : db[pg] = 0 /\ dbLoss[pg] = {0}
      /\ \A p \in Proc : st[p] = "OPEN" /\ rlock[p] = -1 /\ hdr[p].salt = 0
  BY DEF Init, NoIdx, NoHdr
<1>3. \A pg \in Page : state[base][pg] = 0
  BY <1>2, WalAssumption DEF Init
<1>4. LogInv(0)
  <2>1. AtBase(dbLoss, state[base]) /\ \A pg \in Page : db[pg] \in dbLoss[pg]
    BY <1>2, <1>3 DEF AtBase
  <2>2. LogCore(0, db, dbLoss, NoLog, NoLog, txn, base, state)
    BY <1>2, <2>1, EmptyCore
  <2>3. ComOK(NoLog, NoLog, com, base, txn)
    BY <1>2, NoLogSync DEF ComOK
  <2> QED BY <1>2, <2>2, <2>3 DEF LogInv
<1>5. IdxInv(0)
  BY <1>2 DEF IdxInv
<1>6. \A p \in Proc : ProcInv(0, p)
  BY <1>2 DEF ProcInv, WrtInv, RdInv, CkInv, Writing, Copying, Slot
<1>7. WalInv(0)
  BY <1>4, <1>5, <1>6 DEF WalInv
<1> QED BY <1>1, <1>7

(* The history of overruns only grows, and com moves in three actions. *)
LEMMA OverrunStays ==
  ASSUME NEW p \in Proc,
         \/ ReadHdr(p) \/ BeginRead0(p) \/ ChooseMark(p) \/ LockMark(p)
         \/ EndRead(p) \/ BeginWrite(p) \/ RestartLog(p) \/ RestartHdr(p) \/ RestartReset(p)
         \/ \E pg \in Page, commit, fresh \in BOOLEAN : WriteFrame(p, pg, commit, fresh)
         \/ PublishB(p) \/ Rollback(p) \/ \E mode \in CkptModes : Checkpoint(p, mode)
         \/ CkptHdr(p) \/ CkptBusy(p) \/ CkptStart(p) \/ CkptMark(p) \/ CkptLock0(p)
         \/ \E f \in Frame : Backfill(p, f)
         \/ CkptEnd(p) \/ CkptDone(p) \/ Crash(p) \/ Open(p) \/ Close(p)
  PROVE  (overrun => overrun') /\ com' = com
<1>1. ASSUME \/ ReadHdr(p) \/ BeginRead0(p) \/ ChooseMark(p) \/ LockMark(p)
             \/ EndRead(p) \/ BeginWrite(p) \/ RestartLog(p) \/ RestartHdr(p) \/ RestartReset(p)
      PROVE  overrun' = overrun /\ com' = com
  BY <1>1 DEF ReadHdr, BeginRead0, ChooseMark, LockMark, EndRead, BeginWrite, RestartLog, RestartHdr,
              RestartReset, hist
<1>2. ASSUME NEW pg \in Page, NEW commit, NEW fresh, WriteFrame(p, pg, commit, fresh)
      PROVE  overrun' = overrun /\ com' = com
  BY <1>2 DEF WriteFrame
<1>3. ASSUME \/ PublishB(p) \/ Rollback(p) \/ \E mode \in CkptModes : Checkpoint(p, mode)
             \/ CkptHdr(p) \/ CkptBusy(p) \/ CkptMark(p) \/ CkptLock0(p)
      PROVE  overrun' = overrun /\ com' = com
  BY <1>3 DEF PublishB, Rollback, Checkpoint, CkptHdr, CkptBusy, CkptMark, CkptLock0, hist
<1>4. ASSUME CkptStart(p) PROVE (overrun => overrun') /\ com' = com
  BY <1>4 DEF CkptStart
<1>5. ASSUME (\E f \in Frame : Backfill(p, f)) \/ CkptEnd(p) \/ CkptDone(p) \/ Open(p) \/ Close(p)
      PROVE  overrun' = overrun /\ com' = com
  BY <1>5 DEF Backfill, CkptEnd, CkptDone, Open, Close, hist
<1>6. ASSUME Crash(p) PROVE (overrun => overrun') /\ com' = com
  BY <1>6 DEF Crash
<1> QED BY <1>1, <1>2, <1>3, <1>4, <1>5, <1>6

LEMMA SnapProc ==
  ASSUME WalTypeInv, WalTypeInv', WriterInv, NEW A \in 0..MaxFrame, WalInv(A), ~overrun', NEW p \in Proc,
         \/ ReadHdr(p) \/ Recover(p) \/ BeginRead0(p) \/ ChooseMark(p) \/ LockMark(p)
         \/ EndRead(p) \/ BeginWrite(p) \/ RestartLog(p) \/ RestartHdr(p) \/ RestartReset(p)
         \/ \E pg \in Page, commit, fresh \in BOOLEAN : WriteFrame(p, pg, commit, fresh)
         \/ PublishB(p) \/ PublishA(p) \/ Rollback(p)
         \/ \E mode \in CkptModes : Checkpoint(p, mode)
         \/ CkptHdr(p) \/ CkptBusy(p) \/ CkptStart(p) \/ CkptMark(p) \/ CkptLock0(p)
         \/ \E f \in Frame : Backfill(p, f)
         \/ CkptEnd(p) \/ CkptDone(p) \/ Crash(p) \/ Open(p) \/ Close(p)
  PROVE  \E B \in 0..MaxFrame : WalInv(B)'
<1>1. ASSUME \/ ReadHdr(p) \/ Recover(p) \/ BeginRead0(p) \/ ChooseMark(p) \/ LockMark(p)
             \/ EndRead(p) \/ BeginWrite(p) \/ RestartLog(p) \/ RestartHdr(p) \/ RestartReset(p)
      PROVE  WalInv(A)'
  BY <1>1, SnapReadHdr, SnapRecover, SnapBeginRead0, SnapChooseMark, SnapLockMark, SnapEndRead,
     SnapBeginWrite, SnapRestartLog, SnapRestartHdr, SnapRestartReset
<1>2. ASSUME \E pg \in Page, commit, fresh \in BOOLEAN : WriteFrame(p, pg, commit, fresh)
      PROVE  \E B \in 0..MaxFrame : WalInv(B)'
  BY <1>2, SnapWriteFrame
<1>3. ASSUME \/ PublishB(p) \/ PublishA(p) \/ Rollback(p)
             \/ \E mode \in CkptModes : Checkpoint(p, mode)
             \/ CkptHdr(p) \/ CkptBusy(p) \/ CkptStart(p) \/ CkptMark(p)
      PROVE  WalInv(A)'
  BY <1>3, SnapPublishB, SnapPublishA, SnapRollback, SnapCheckpoint, SnapCkptHdr, SnapCkptLeave,
     SnapCkptStart, SnapCkptMark
<1>4. ASSUME \/ \E f \in Frame : Backfill(p, f)
             \/ CkptEnd(p) \/ CkptDone(p) \/ Crash(p) \/ Open(p)
      PROVE  WalInv(A)'
  BY <1>4, SnapBackfill, SnapCkptEnd, SnapCkptLeave, SnapCrash, SnapOpen
<1>5. ASSUME CkptLock0(p) \/ Close(p) PROVE \E B \in 0..MaxFrame : WalInv(B)'
  BY <1>5, SnapCkptLock0, SnapClose
<1> QED BY <1>1, <1>2, <1>3, <1>4, <1>5

LEMMA SnapNext == WalTypeInv /\ WriterInv /\ SnapshotInv /\ [Next]_vars => SnapshotInv'
<1> SUFFICES ASSUME WalTypeInv, WriterInv, SnapshotInv, [Next]_vars, ~overrun'
             PROVE  \E B \in 0..MaxFrame : WalInv(B)'
  BY DEF SnapshotInv
<1>1. WalTypeInv'
  BY WalTypeNext
<1>2. CASE UNCHANGED vars
  <2>1. UNCHANGED <<idx, st, hdr, pick, ck, db, dbLoss, log, logDisk, rlock, wlock, ckpt, xlock,
                    txn, wrote, com, state, base, overrun>>
    BY <1>2 DEF vars, disk, locks, hist
  <2>2. PICK A \in 0..MaxFrame : WalInv(A)
    BY <2>1 DEF SnapshotInv
  <2>3. LogSame /\ HdrSame /\ IdxSame
    BY <2>1 DEF LogSame, HdrSame, IdxSame
  <2>4. (Resetting' <=> Resetting) /\ (Active' <=> Active) /\ (Restarting' <=> Restarting)
    BY <2>1 DEF Resetting, Active, Restarting
  <2>5. LogInv(A)' /\ IdxInv(A)'
    BY <2>2, <2>3, <2>4, LogKeep, IdxKeep DEF WalInv
  <2>6. ASSUME NEW q \in Proc PROVE ProcInv(A, q)'
    <3>1. OwnSame(q) /\ MarkSame(q) /\ WrtInv(A, q) /\ RdInv(q) /\ CkInv(A, q)
      BY <2>1, <2>2 DEF OwnSame, MarkSame, WalInv, ProcInv
    <3>2. WrtInv(A, q)' /\ RdInv(q)'
      BY <2>1, <2>3, <2>4, <3>1, WrtKeep, RdKeep
    <3>3. ReadersSafe(ck.i, ck.safe) => ReadersSafe(ck.i, ck.safe)'
      BY <2>1 DEF ReadersSafe
    <3>4. CkInv(A, q)'
      BY <2>1, <2>3, <2>4, <3>1, <3>3, CkKeep
    <3> QED BY <3>2, <3>4 DEF ProcInv
  <2>7. WalInv(A)'
    BY <2>5, <2>6 DEF WalInv
  <2> QED BY <2>7
<1>3. CASE PowerLoss
  <2>1. ~overrun
    BY <1>3 DEF PowerLoss
  <2>2. PICK A \in 0..MaxFrame : WalInv(A)
    BY <2>1 DEF SnapshotInv
  <2> QED BY <1>1, <1>3, <2>2, SnapPowerLoss
<1>4. CASE \E p \in Proc : Recover(p) \/ PublishA(p)
  <2>1. PICK p \in Proc : Recover(p) \/ PublishA(p)
    BY <1>4
  <2>2. ~overrun
    BY <2>1 DEF Recover, PublishA
  <2>3. PICK A \in 0..MaxFrame : WalInv(A)
    BY <2>2 DEF SnapshotInv
  <2>4. WalInv(A)'
    BY <1>1, <2>1, <2>3, SnapRecover, SnapPublishA
  <2> QED BY <2>4
<1>5. ASSUME NEW p \in Proc,
             \/ ReadHdr(p) \/ BeginRead0(p) \/ ChooseMark(p) \/ LockMark(p)
             \/ EndRead(p) \/ BeginWrite(p) \/ RestartLog(p) \/ RestartHdr(p) \/ RestartReset(p)
             \/ \E pg \in Page, commit, fresh \in BOOLEAN : WriteFrame(p, pg, commit, fresh)
             \/ PublishB(p) \/ Rollback(p) \/ \E mode \in CkptModes : Checkpoint(p, mode)
             \/ CkptHdr(p) \/ CkptBusy(p) \/ CkptStart(p) \/ CkptMark(p) \/ CkptLock0(p)
             \/ \E f \in Frame : Backfill(p, f)
             \/ CkptEnd(p) \/ CkptDone(p) \/ Crash(p) \/ Open(p) \/ Close(p)
      PROVE  \E B \in 0..MaxFrame : WalInv(B)'
  <2>1. ~overrun
    BY <1>5, OverrunStays
  <2>2. PICK A \in 0..MaxFrame : WalInv(A)
    BY <2>1 DEF SnapshotInv
  <2> QED BY <1>1, <1>5, <2>2, SnapProc
<1> QED BY <1>2, <1>3, <1>4, <1>5 DEF Next

LEMMA SnapInvariant == Spec => [](WalTypeInv /\ WriterInv /\ SnapshotInv)
<1>1. Init => WriterInv
  BY DEF Init, WriterInv, Writing, Reading, NoIdx, NoHdr
<1> QED BY <1>1, WalTypeInit, WalTypeNext, WriterNext, SnapInit, SnapNext, PTL DEF Spec

(* Snapshot isolation, for any number of processes, read locks, pages, frames *)
(* and transactions and whatever dies when: what sqlite3WalFindFrame and the  *)
(* database give a reader is the state of the commit its header stands for,   *)
(* while others append, commit, roll back, checkpoint and start the log over. *)
THEOREM SnapshotIsolation == Spec => []Snapshot
<1>1. WalTypeInv /\ WriterInv /\ SnapshotInv => Snapshot
  <2> SUFFICES ASSUME WalTypeInv, SnapshotInv, NEW p \in Proc, st[p] = "READER", ~overrun
               PROVE  View(p) = state[hdr[p].txn]
    BY DEF Snapshot
  <2>1. PICK A \in 0..MaxFrame : WalInv(A)
    BY DEF SnapshotInv
  <2>2. LogInv(A) /\ IdxInv(A) /\ RdInv(p)
    BY <2>1 DEF WalInv, ProcInv
  <2>3. rlock[p] # -1 /\ idx.a.init /\ rlock[p] \in -1..(NReader - 1)
    BY <2>2 DEF RdInv, WalTypeInv, LockOK
  <2>4. CASE rlock[p] = 0
    BY <2>2, <2>4 DEF RdInv, View
  <2>5. CASE rlock[p] \in Slot
    <3>1. hdr[p].mx <= idx.a.mx /\ SlotView(hdr[p], db, log, base, state)
      BY <2>2, <2>5 DEF RdInv
    <3>2. hdr[p].mx \in 0..MaxFrame /\ idx.a.mx \in 0..MaxFrame
          /\ state[hdr[p].txn] \in [Page -> 0..MaxTxn]
      BY FieldTypes
    <3>3. PgnoOK(idx.pgno, log, hdr[p].mx)
      <4>1. PgnoOK(idx.pgno, log, idx.a.mx)
        BY <2>2, <2>3, CurrentView
      <4>2. \A j \in 1..hdr[p].mx : j \in 1..idx.a.mx
        BY <3>1, <3>2
      <4> QED BY <4>1, <4>2 DEF PgnoOK
    <3>4. Overlay(db, log, idx.pgno, hdr[p].mx) = state[hdr[p].txn]
      BY <3>1, <3>2, <3>3, OverlayIs DEF SlotView
    <3>5. rlock[p] # 0
      BY <2>5 DEF Slot
    <3> QED BY <3>4, <3>5 DEF View
  <2> QED BY <2>3, <2>4, <2>5, WalAssumption DEF Slot
<1> QED BY <1>1, SnapInvariant, PTL

LEMMA PagesOK == ASSUME NEW l, NEW m \in 0..MaxFrame PROVE PgnoOK(Pages(l), l, m)
  BY InFrame DEF PgnoOK, Pages

(* Nothing committed is lost, in any instance and whatever dies when: a good  *)
(* wal-index shows the last commit, and what walIndexRecover would find in    *)
(* the log, over the database a checkpoint may be half through, is the state  *)
(* of one commit, the last one or a later one.                                *)
THEOREM CommitsRecoverable == Spec => []Recoverable
<1>1. WalTypeInv /\ WriterInv /\ SnapshotInv => Recoverable
  <2> SUFFICES ASSUME WalTypeInv, SnapshotInv, ~overrun
               PROVE  /\ GoodHdr => Overlay(db, log, idx.pgno, idx.a.mx) = state[com]
                      /\ RecoveredTxn(log) >= com
                      /\ Overlay(db, log, Pages(log), LastCommit(log)) = state[RecoveredTxn(log)]
    BY DEF Recoverable
  <2>1. PICK A \in 0..MaxFrame : WalInv(A)
    BY DEF SnapshotInv
  <2>2. LogInv(A) /\ IdxInv(A) /\ LogCore(A, db, dbLoss, log, logDisk, txn, base, state)
        /\ ComOK(log, logDisk, com, base, txn)
    BY <2>1 DEF WalInv, LogInv
  <2>3. /\ idx.a.mx \in 0..MaxFrame /\ state[com] \in [Page -> 0..MaxTxn] /\ txn \in Nat /\ com \in Nat
        /\ base \in Nat /\ txn \in 0..MaxTxn /\ MaxTxn \in Nat
        /\ state \in [0..MaxTxn -> [Page -> 0..MaxTxn]]
    BY FieldTypes, WalAssumption DEF WalTypeInv, HistOK
  <2>4. RecoveredTxn(log) = Found(log, base) /\ base <= txn /\ (com = base \/ ComIn(log, com))
    BY <2>2, <2>3 DEF RecoveredTxn, Found, ComOK
  <2>5. GoodHdr => Overlay(db, log, idx.pgno, idx.a.mx) = state[com]
    <3> SUFFICES ASSUME GoodHdr PROVE Overlay(db, log, idx.pgno, idx.a.mx) = state[com]
      OBVIOUS
    <3>1. /\ Shows(state[com], state[base], Links(log), idx.a.mx) /\ PgnoOK(idx.pgno, log, idx.a.mx)
          /\ \A pg \in Page : Unseen(Links(log), pg, idx.a.mx) => db[pg] = state[base][pg]
      BY <2>2, CurrentView DEF GoodHdr
    <3>2. idx.a.mx \in 0..MaxFrame /\ state[com] \in [Page -> 0..MaxTxn]
      BY <2>3
    <3> DEFINE S == state[com]
               B == state[base]
               g == idx.pgno
               m == idx.a.mx
    <3>3. /\ m \in 0..MaxFrame /\ S \in [Page -> 0..MaxTxn]
          /\ Shows(S, B, Links(log), m) /\ PgnoOK(g, log, m)
          /\ \A pg \in Page : Unseen(Links(log), pg, m) => db[pg] = B[pg]
      BY ONLY <3>1, <3>2
    <3> HIDE DEF S, B, g, m
    <3>4. Overlay(db, log, g, m) = S
      BY ONLY <3>3, OverlayIs
    <3> QED BY ONLY <3>4 DEF S, g, m
  <2>6. RecoveredTxn(log) >= com
    BY <2>2, <2>3, <2>4, FoundIsLast
  <2>7. Overlay(db, log, Pages(log), LastCommit(log)) = state[RecoveredTxn(log)]
    <3>1. /\ Shows(state[Found(log, base)], state[base], Links(log), LastCommit(log))
          /\ \A pg \in Page : Unseen(Links(log), pg, LastCommit(log)) => db[pg] = state[base][pg]
      <4>1. /\ A \in 0..MaxFrame /\ txn \in Nat /\ base \in Nat /\ base <= txn
            /\ LogCore(A, db, dbLoss, log, logDisk, txn, base, state)
        BY <2>2, <2>3, <2>4
      <4> DEFINE F == Found(log, base)
      <4>2. /\ F >= base /\ F <= txn
            /\ Shows(state[F], state[base], Links(log), LastCommit(log))
            /\ \A pg \in Page : Unseen(Links(log), pg, LastCommit(log)) =>
                 dbLoss[pg] = {state[base][pg]} /\ db[pg] = state[base][pg]
        BY ONLY <4>1, CoreRecovers
      <4> QED BY ONLY <4>2
    <3>2. LastCommit(log) \in 0..MaxFrame
      BY LastCommitFrame
    <3>3. RecoveredTxn(log) \in 0..MaxTxn
      BY RecoveredTxnType DEF WalTypeInv, DiskOK, HistOK
    <3>4. state[RecoveredTxn(log)] \in [Page -> 0..MaxTxn]
      BY <2>3, <3>3
    <3> QED BY <2>4, <3>1, <3>2, <3>4, PagesOK, OverlayIs
  <2> QED BY <2>5, <2>6, <2>7
<1> QED BY <1>1, SnapInvariant, PTL

(* Durability under synchronous=FULL, in any instance: neither a crash, a     *)
(* loss of power with any part of the unsynced writes nor the recovery after  *)
(* it takes a commit back.                                                    *)
THEOREM CommitsDurable == Spec => Durable
<1>1. WalTypeInv /\ WriterInv /\ SnapshotInv /\ [Next]_vars => [FullSync /\ ~overrun => com' >= com]_com
  <2> SUFFICES ASSUME WalTypeInv, WriterInv, SnapshotInv, [Next]_vars, com' # com, FullSync, ~overrun
               PROVE  com' >= com
    OBVIOUS
  <2>1. WalTypeInv'
    BY WalTypeNext
  <2>2. PICK A \in 0..MaxFrame : WalInv(A)
    BY DEF SnapshotInv
  <2>3. CASE PowerLoss
    BY <2>1, <2>2, <2>3, SnapPowerLoss
  <2>4. CASE \E p \in Proc : Recover(p) \/ PublishA(p)
    BY <2>1, <2>2, <2>4, SnapRecover, SnapPublishA
  <2>5. CASE UNCHANGED vars
    BY <2>5 DEF vars, hist
  <2> QED BY <2>3, <2>4, <2>5, OverrunStays DEF Next
<1> QED BY <1>1, SnapInvariant, PTL DEF Spec, Durable

===============================================================================

---------------------------------- MODULE Wal ---------------------------------
(***************************************************************************)
(* The write-ahead log of wal.c.  A writer appends the pages it changes to *)
(* the log and commits by publishing a new header in the shared wal-index; *)
(* a reader copies that header, takes one of a few read locks and from     *)
(* then on looks pages up in the log up to its own mxFrame; a checkpoint   *)
(* copies frames back into the database no further than any reader allows, *)
(* and when all is copied the next writer starts the log over.  No lock    *)
(* covers the steps together: what keeps them apart is the order in which  *)
(* marks and headers are written, locked and read again.                   *)
(*                                                                         *)
(* Processes can die at any step (the wal-index lives on, and only says by *)
(* a torn header that it must be recovered) and the machine can lose       *)
(* power.  A page's contents is the number of the transaction that wrote   *)
(* it; the hash tables of the wal-index are the function pgno.             *)
(***************************************************************************)
EXTENDS Integers, Sequences, FiniteSets, FiniteSetsExt

CONSTANTS
  Proc,        \* the processes, one connection each
  Page,        \* the pages of the database; 0 is no page
  NReader,     \* WAL_NREADER: read locks 0..NReader-1
  MaxFrame,    \* bound: frames of the log
  MaxTxn,      \* bound: write transactions
  FullSync,    \* synchronous=FULL: a commit syncs the log
  CkptModes,   \* "PASSIVE" and "FULL" checkpoints
  Faults       \* "crash": a process may die, "power": the machine may lose power

Nobody  == -1

ASSUME WalAssumption ==
  /\ Nobody \notin Proc /\ 0 \notin Page
  /\ NReader \in Nat \ {0, 1} /\ MaxFrame \in Nat \ {0} /\ MaxTxn \in Nat
  /\ FullSync \in BOOLEAN /\ Faults \subseteq {"crash", "power"}
  /\ CkptModes \subseteq {"PASSIVE", "FULL"}

Frame   == 1..MaxFrame
Slot    == 1..(NReader - 1)     \* the read locks that come with a mark
NotUsed == MaxFrame + 1         \* READMARK_NOT_USED

VARIABLES
  db, dbLoss,   \* the database file, and what a loss of power may leave of it
  log, logDisk, \* the log: its header's salt and its frames; as last synced
  idx,          \* the wal-index: both header copies, pgno, nBackfill, aReadMark
  st,           \* where each process is
  hdr,          \* pWal->hdr: its copy of the header
  rlock,        \* pWal->readLock, -1 for none
  pick,         \* the mark a reader has chosen and the value it saw there
  wlock, ckpt,  \* who holds WAL_WRITE_LOCK and WAL_CKPT_LOCK
  xlock,        \* who holds each read lock exclusively
  ck,           \* the locals of walCheckpoint
  txn, wrote,   \* number of the last write transaction, the pages it wrote
  com, state,   \* last transaction committed, and the contents after each (history)
  base,         \* the transaction the log starts from (history)
  overrun       \* a checkpoint or a reset lost track of the log (history)

disk  == <<db, dbLoss, log, logDisk>>
locks == <<rlock, wlock, ckpt, xlock>>
hist  == <<txn, wrote, com, state, base, overrun>>
vars  == <<disk, idx, st, hdr, pick, locks, ck, hist>>

-------------------------------------------------------------------------------
(* A frame is valid if its salt is that of the header and its checksum, over  *)
(* all frames up to it, fits: sum is the list of them.                        *)
NoFrame == [pg |-> 0, v |-> 0, commit |-> FALSE, salt |-> 0, sum |-> << >>]
NoLog   == [salt |-> 0, frame |-> [f \in Frame |-> NoFrame]]

Link(fr) == <<fr.pg, fr.v, fr.commit>>

(* walDecodeFrame, for the frames 1..f. *)
Valid(l, f) ==
  \A i \in 1..f :
    /\ l.salt # 0 /\ l.frame[i].salt = l.salt
    /\ l.frame[i].sum = [j \in 1..i |-> Link(l.frame[j])]

(* walIndexRecover: up to the last commit record of the valid frames. *)
LastCommit(l) == Max({0} \cup {f \in Frame : Valid(l, f) /\ l.frame[f].commit})

RecoveredTxn(l) == IF LastCommit(l) = 0 THEN base ELSE l.frame[LastCommit(l)].v

(* The page's last frame up to mx, 0 if there is none. *)
FindFrame(p2f, pg, mx) == Max({0} \cup {f \in Frame : f <= mx /\ p2f[f] = pg})

(* The database d with what the frames after from and up to mx hold. *)
Backfilled(d, l, p2f, from, mx) ==
  [pg \in Page |-> LET f == FindFrame(p2f, pg, mx)
                   IN IF f <= from THEN d[pg] ELSE l.frame[f].v]

Overlay(d, l, p2f, mx) == Backfilled(d, l, p2f, 0, mx)

Pages(l) == [f \in Frame |-> l.frame[f].pg]

(* A header: mxFrame, iChange, aSalt, aFrameCksum, and (history) the          *)
(* transaction whose state it stands for.                                     *)
NoHdr == [mx |-> 0, change |-> 0, salt |-> 0, sum |-> << >>, txn |-> 0, init |-> FALSE]
NoIdx == [a |-> NoHdr, b |-> NoHdr, pgno |-> [f \in Frame |-> 0], nBackfill |-> 0,
          mark |-> [i \in Slot |-> NotUsed]]

(* walIndexTryHdr: both copies agree and were initialised. *)
GoodHdr == idx.a = idx.b /\ idx.a.init

Init ==
  /\ db = [pg \in Page |-> 0] /\ dbLoss = [pg \in Page |-> {0}]
  /\ log = NoLog /\ logDisk = NoLog /\ idx = NoIdx
  /\ st = [p \in Proc |-> "OPEN"] /\ hdr = [p \in Proc |-> NoHdr]
  /\ rlock = [p \in Proc |-> -1] /\ pick = [p \in Proc |-> <<0, 0>>]
  /\ wlock = Nobody /\ ckpt = Nobody /\ xlock = [i \in 0..NReader-1 |-> Nobody]
  /\ ck = [safe |-> 0, i |-> 0, todo |-> {}, from |-> 0]
  /\ txn = 0 /\ wrote = {} /\ com = 0 /\ base = 0 /\ overrun = FALSE
  /\ state = [t \in 0..MaxTxn |-> [pg \in Page |-> 0]]

Goto(p, s) == st' = [st EXCEPT ![p] = s]
Shared(i)  == {p \in Proc : rlock[p] = i}
FreeX(i)   == Shared(i) = {} /\ xlock[i] = Nobody     \* walLockExclusive would succeed

-------------------------------------------------------------------------------
(* walTryBeginRead.  RETRY is going back to OPEN. *)

(* walIndexReadHdr finds a good header ... *)
ReadHdr(p) ==
  /\ st[p] = "OPEN" /\ GoodHdr
  /\ hdr' = [hdr EXCEPT ![p] = idx.a] /\ Goto(p, "HDR")
  /\ UNCHANGED <<disk, idx, pick, locks, ck, hist>>

(* ... or must rebuild the index, with every lock held.  The caller reads the *)
(* new header afterwards.                                                     *)
Recover(p) ==
  /\ st[p] \in {"OPEN", "CKPT"} /\ ~GoodHdr
  /\ wlock = Nobody /\ ckpt \in {Nobody, p} /\ \A i \in 0..NReader-1 : FreeX(i)
  /\ LET mx == LastCommit(log)
         h  == [mx |-> mx, change |-> 0, salt |-> log.salt,
                sum |-> [i \in 1..mx |-> Link(log.frame[i])],
                txn |-> RecoveredTxn(log), init |-> TRUE]
     IN idx' = [a |-> h, b |-> h, nBackfill |-> 0,
                pgno |-> [f \in Frame |-> IF Valid(log, f) THEN log.frame[f].pg ELSE 0],
                mark |-> [i \in Slot |-> IF i = 1 /\ mx > 0 THEN mx ELSE NotUsed]]
  /\ com' = RecoveredTxn(log)
  /\ UNCHANGED <<disk, st, hdr, pick, locks, ck, txn, wrote, state, base, overrun>>

(* All frames are in the database: read lock 0, and the header is compared    *)
(* again, for a writer may have begun the log anew before the lock was held.  *)
BeginRead0(p) ==
  /\ st[p] = "HDR" /\ idx.nBackfill = hdr[p].mx /\ xlock[0] = Nobody
  /\ IF idx.a = hdr[p] THEN rlock' = [rlock EXCEPT ![p] = 0] /\ Goto(p, "READER")
                       ELSE Goto(p, "OPEN") /\ UNCHANGED rlock
  /\ UNCHANGED <<disk, idx, hdr, pick, wlock, ckpt, xlock, ck, hist>>

(* Otherwise the largest mark that is not beyond mxFrame, after an unused one *)
(* was raised to mxFrame if none is there yet.                                *)
Best(mx) == {i \in Slot : /\ idx.mark[i] <= mx
                          /\ \A j \in Slot : idx.mark[j] <= mx =>
                               idx.mark[j] < idx.mark[i] \/ (idx.mark[j] = idx.mark[i] /\ j <= i)}
ChooseMark(p) ==
  /\ \/ st[p] = "HDR" /\ (idx.nBackfill # hdr[p].mx \/ xlock[0] # Nobody)
     \/ st[p] = "WRITER_HDR"
  /\ LET mx   == hdr[p].mx
         best == Best(mx)
         free == {i \in Slot : FreeX(i)}
         i    == Min(free)
     IN IF free # {} /\ \A b \in best : idx.mark[b] < mx
        THEN /\ idx' = [idx EXCEPT !.mark[i] = mx]
             /\ pick' = [pick EXCEPT ![p] = <<i, mx>>]
             /\ Goto(p, IF st[p] = "HDR" THEN "MARK" ELSE "WRITER_MARK")
        ELSE IF best # {}
        THEN /\ pick' = [pick EXCEPT ![p] = <<Max(best), idx.mark[Max(best)]>>]
             /\ Goto(p, IF st[p] = "HDR" THEN "MARK" ELSE "WRITER_MARK")
             /\ UNCHANGED idx
        ELSE Goto(p, IF st[p] = "HDR" THEN "OPEN" ELSE st[p]) /\ UNCHANGED <<idx, pick>>
  /\ UNCHANGED <<disk, hdr, locks, ck, hist>>

(* The shared lock; the mark and the header must still be what they were. *)
LockMark(p) ==
  /\ st[p] \in {"MARK", "WRITER_MARK"}
  /\ LET i == pick[p][1] IN
     IF xlock[i] = Nobody /\ idx.mark[i] = pick[p][2] /\ idx.a = hdr[p]
     THEN /\ rlock' = [rlock EXCEPT ![p] = i]
          /\ Goto(p, IF st[p] = "MARK" THEN "READER" ELSE "WRITER")
     ELSE /\ Goto(p, IF st[p] = "MARK" THEN "OPEN" ELSE "WRITER_HDR")
          /\ UNCHANGED rlock
  /\ pick' = [pick EXCEPT ![p] = <<0, 0>>]
  /\ UNCHANGED <<disk, idx, hdr, wlock, ckpt, xlock, ck, hist>>

EndRead(p) ==
  /\ st[p] = "READER"
  /\ rlock' = [rlock EXCEPT ![p] = -1] /\ Goto(p, "OPEN")
  /\ UNCHANGED <<disk, idx, hdr, pick, wlock, ckpt, xlock, ck, hist>>

(* sqlite3WalFindFrame, sqlite3WalReadFrame: what the reader gets. *)
View(p) == IF rlock[p] = 0 THEN db ELSE Overlay(db, log, idx.pgno, hdr[p].mx)

-------------------------------------------------------------------------------
(* A write transaction. *)

(* Mutation: a snapshot that is no longer the last one may be written to. *)
BeginWrite_AnySnapshot(p) ==
  /\ st[p] = "READER" /\ wlock = Nobody /\ txn < MaxTxn
  /\ wlock' = p /\ Goto(p, "WRITER") /\ txn' = txn + 1 /\ wrote' = {}
  /\ UNCHANGED <<disk, idx, hdr, pick, rlock, ckpt, xlock, ck, com, state, base, overrun>>

(* SQLITE_BUSY_SNAPSHOT leaves a reader that is not at the last commit as is. *)
BeginWrite(p) ==
  /\ st[p] = "READER" /\ wlock = Nobody /\ txn < MaxTxn
  /\ hdr[p] = idx.a
  /\ wlock' = p /\ Goto(p, "WRITER") /\ txn' = txn + 1 /\ wrote' = {}
  /\ UNCHANGED <<disk, idx, hdr, pick, rlock, ckpt, xlock, ck, com, state, base, overrun>>

(* walRestartLog, before the first frame of a writer with read lock 0: with   *)
(* nobody on the other read locks the header is set back to frame 0, one copy *)
(* after the other ...                                                        *)
RestartLog(p) ==
  /\ st[p] = "WRITER" /\ rlock[p] = 0
  /\ IF idx.nBackfill > 0 /\ \A i \in Slot : FreeX(i)
     THEN LET h == [hdr[p] EXCEPT !.mx = 0, !.salt = txn] IN
          /\ hdr' = [hdr EXCEPT ![p] = h] /\ idx' = [idx EXCEPT !.b = h]
          /\ xlock' = [i \in DOMAIN xlock |-> IF i \in Slot THEN p ELSE xlock[i]]
          /\ base' = h.txn
          /\ Goto(p, "RESTART_A") /\ UNCHANGED rlock
     ELSE /\ rlock' = [rlock EXCEPT ![p] = -1] /\ Goto(p, "WRITER_HDR")
          /\ UNCHANGED <<idx, hdr, xlock, base>>
  /\ UNCHANGED <<disk, pick, wlock, ckpt, ck, txn, wrote, com, state, overrun>>

RestartHdr(p) ==
  /\ st[p] = "RESTART_A"
  /\ idx' = [idx EXCEPT !.a = hdr[p]] /\ Goto(p, "RESTART")
  /\ UNCHANGED <<disk, hdr, pick, locks, ck, hist>>

(* ... and after that nBackfill and the marks; the writer takes a new mark.   *)
RestartReset(p) ==
  /\ st[p] = "RESTART"
  /\ idx' = [idx EXCEPT !.nBackfill = 0, !.mark = [i \in Slot |-> IF i = 1 THEN 0 ELSE NotUsed]]
  /\ xlock' = [i \in DOMAIN xlock |-> IF i \in Slot THEN Nobody ELSE xlock[i]]
  /\ rlock' = [rlock EXCEPT ![p] = -1] /\ Goto(p, "WRITER_HDR")
  /\ UNCHANGED <<disk, hdr, pick, wlock, ckpt, ck, hist>>

(* sqlite3WalFrames, one frame.  Before the first frame of the log goes its   *)
(* header, which is synced by itself: with a salt never used before (here the *)
(* transaction's number) or, once this connection has restarted a log, the    *)
(* salt walRestartLog chose.                                                  *)
FrameOf(p, pg, commit, fresh) ==
  LET h  == hdr[p]
      sa == IF fresh THEN txn ELSE h.salt
  IN [pg |-> pg, v |-> txn, commit |-> commit, salt |-> sa,
      sum |-> Append(IF h.mx = 0 THEN << >> ELSE h.sum, <<pg, txn, commit>>)]

(* Mutation: a commit is not synced. *)
LogSynced_NoCommit(p, fr) ==
  IF hdr[p].mx = 0 THEN [log EXCEPT !.salt = fr.salt] ELSE logDisk

(* What the disk is sure to hold: all that was there before the header was    *)
(* synced, and everything after the sync of a commit.                         *)
LogSynced(p, fr) ==
  IF fr.commit /\ FullSync THEN log'
  ELSE IF hdr[p].mx = 0 THEN [log EXCEPT !.salt = fr.salt]
  ELSE logDisk

(* The frame goes to the log, and walIndexAppend enters it in pgno after      *)
(* dropping what an earlier writer left there.                                *)
WriteFrame(p, pg, commit, fresh) ==
  /\ st[p] = "WRITER" /\ rlock[p] > 0 /\ hdr[p].mx < MaxFrame /\ pg \notin wrote
  /\ fresh \in (IF hdr[p].mx > 0 THEN {FALSE} ELSE {hdr[p].salt = 0, TRUE})
  /\ LET f  == hdr[p].mx + 1
         fr == FrameOf(p, pg, commit, fresh)
     IN /\ log' = [salt |-> IF f = 1 THEN fr.salt ELSE log.salt,
                   frame |-> [log.frame EXCEPT ![f] = fr]]
        /\ logDisk' = LogSynced(p, fr)
        /\ idx' = [idx EXCEPT !.pgno = [i \in Frame |->
                     IF i = f THEN pg
                     ELSE IF i > f /\ (f = 1 \/ @[f] # 0) THEN 0 ELSE @[i]]]
        /\ hdr' = [hdr EXCEPT ![p].mx = f, ![p].salt = fr.salt, ![p].sum = fr.sum,
                              ![p].change = IF commit THEN @ + 1 ELSE @,
                              ![p].txn = IF commit THEN txn ELSE @]
  /\ wrote' = wrote \cup {pg}
  /\ state' = [state EXCEPT ![txn] = [q \in Page |-> IF q \in wrote' THEN txn
                                                    ELSE state[hdr[p].txn][q]]]
  /\ Goto(p, IF commit THEN "COMMIT" ELSE "WRITER")
  /\ UNCHANGED <<db, dbLoss, pick, locks, ck, txn, com, base, overrun>>

(* walIndexWriteHdr: the second copy, a barrier, the first copy, which is      *)
(* what makes the commit visible.                                              *)
PublishB(p) ==
  /\ st[p] = "COMMIT"
  /\ idx' = [idx EXCEPT !.b = [hdr[p] EXCEPT !.init = TRUE]] /\ Goto(p, "COMMIT_A")
  /\ UNCHANGED <<disk, hdr, pick, locks, ck, hist>>

PublishA(p) ==
  /\ st[p] = "COMMIT_A"
  /\ idx' = [idx EXCEPT !.a = hdr[p]] /\ com' = txn
  /\ wlock' = Nobody /\ Goto(p, "READER")
  /\ UNCHANGED <<disk, hdr, pick, rlock, ckpt, xlock, ck, txn, wrote, state, base, overrun>>

(* sqlite3WalUndo and the end of the write transaction. *)
Rollback(p) ==
  /\ st[p] = "WRITER" /\ rlock[p] >= 0
  /\ hdr' = [hdr EXCEPT ![p] = idx.a]
  /\ idx' = IF idx.a.mx \in {0, hdr[p].mx} THEN idx
            ELSE [idx EXCEPT !.pgno = [f \in Frame |-> IF f > idx.a.mx THEN 0 ELSE @[f]]]
  /\ wlock' = Nobody /\ Goto(p, "READER")
  /\ UNCHANGED <<disk, pick, rlock, ckpt, xlock, ck, hist>>

-------------------------------------------------------------------------------
(* sqlite3WalCheckpoint. *)

(* FULL takes the write lock too and becomes PASSIVE when that is busy. *)
Checkpoint(p, mode) ==
  /\ st[p] = "OPEN" /\ ckpt = Nobody
  /\ ckpt' = p /\ Goto(p, "CKPT")
  /\ wlock' = IF mode = "FULL" /\ wlock = Nobody THEN p ELSE wlock
  /\ UNCHANGED <<disk, idx, hdr, pick, rlock, xlock, ck, hist>>

CkptHdr(p) ==
  /\ st[p] = "CKPT" /\ GoodHdr
  /\ hdr' = [hdr EXCEPT ![p] = idx.a] /\ Goto(p, "CKPT_HDR")
  /\ UNCHANGED <<disk, idx, pick, locks, ck, hist>>

(* A header that must be recovered while the write lock is taken, by another  *)
(* or by this checkpoint itself: SQLITE_BUSY.                                 *)
CkptBusy(p) ==
  /\ st[p] = "CKPT" /\ ~GoodHdr
  /\ wlock # Nobody \/ \E i \in 0..NReader-1 : ~FreeX(i)
  /\ Goto(p, "CKPT_DONE")
  /\ UNCHANGED <<disk, idx, hdr, pick, locks, ck, hist>>

CkptOver == [safe |-> 0, i |-> 0, todo |-> {}, from |-> 0]

(* walCheckpoint looks at nBackfill and prepares the last frame of each page   *)
(* (walIteratorInit).                                                          *)
CkptStart(p) ==
  /\ st[p] = "CKPT_HDR"
  /\ IF idx.nBackfill >= hdr[p].mx
     THEN Goto(p, "CKPT_DONE") /\ UNCHANGED <<ck, overrun>>
     ELSE /\ ck' = [safe |-> hdr[p].mx, i |-> 1, from |-> 0,
                    todo |-> {FindFrame(idx.pgno, pg, hdr[p].mx) : pg \in Page} \ {0}]
          /\ overrun' = (overrun \/ idx.a.salt # hdr[p].salt)
          /\ Goto(p, "CKPT_MARKS")
  /\ UNCHANGED <<disk, idx, hdr, pick, locks, txn, wrote, com, state, base>>

(* Mutation: a mark is passed over without asking for its lock. *)
CkptMark_NoLock(p) ==
  /\ st[p] = "CKPT_MARKS" /\ ck.i \in Slot
  /\ ck' = [ck EXCEPT !.i = @ + 1]
  /\ UNCHANGED <<disk, idx, st, hdr, pick, locks, hist>>

(* One mark below the frames to copy: if no reader is on it, it goes out of    *)
(* use (the first: up to the end), otherwise no frame beyond it is safe.       *)
CkptMark(p) ==
  /\ st[p] = "CKPT_MARKS" /\ ck.i \in Slot
  /\ LET i == ck.i
         y == idx.mark[i] IN
     IF ck.safe <= y THEN ck' = [ck EXCEPT !.i = i + 1] /\ UNCHANGED idx
     ELSE IF FreeX(i)
     THEN /\ idx' = [idx EXCEPT !.mark[i] = IF i = 1 THEN ck.safe ELSE NotUsed]
          /\ ck' = [ck EXCEPT !.i = i + 1]
     ELSE ck' = [ck EXCEPT !.safe = y, !.i = i + 1] /\ UNCHANGED idx
  /\ UNCHANGED <<disk, st, hdr, pick, locks, hist>>

(* Mutation: SQLITE_BUSY on read lock 0 is not looked at. *)
CkptLock0_NotBusy(p) ==
  /\ st[p] = "CKPT_MARKS" /\ ck.i = NReader
  /\ xlock' = [xlock EXCEPT ![0] = p] /\ logDisk' = log
  /\ ck' = [ck EXCEPT !.from = idx.nBackfill] /\ Goto(p, "BACKFILL")
  /\ UNCHANGED <<db, dbLoss, log, idx, hdr, pick, rlock, wlock, ckpt, hist>>

(* Read lock 0 keeps out those who read the database alone; the log is synced *)
(* before anything of it goes there.                                          *)
CkptLock0(p) ==
  /\ st[p] = "CKPT_MARKS" /\ ck.i = NReader
  /\ IF idx.nBackfill < ck.safe /\ FreeX(0)
     THEN /\ xlock' = [xlock EXCEPT ![0] = p] /\ logDisk' = log
          /\ ck' = [ck EXCEPT !.from = idx.nBackfill] /\ Goto(p, "BACKFILL")
     ELSE Goto(p, "CKPT_DONE") /\ ck' = CkptOver /\ UNCHANGED <<xlock, logDisk>>
  /\ UNCHANGED <<db, dbLoss, log, idx, hdr, pick, rlock, wlock, ckpt, hist>>

(* One frame of the iterator; the page number is read from the wal-index now. *)
Backfill(p, f) ==
  /\ st[p] = "BACKFILL" /\ f \in ck.todo
  /\ LET pg == idx.pgno[f] IN
     IF f > ck.from /\ f <= ck.safe /\ pg # 0
     THEN /\ db' = [db EXCEPT ![pg] = log.frame[f].v]
          /\ dbLoss' = [dbLoss EXCEPT ![pg] = @ \cup {log.frame[f].v}]
     ELSE UNCHANGED <<db, dbLoss>>
  /\ ck' = [ck EXCEPT !.todo = @ \ {f}]
  /\ UNCHANGED <<log, logDisk, idx, st, hdr, pick, locks, hist>>

(* Mutation: the database is not synced when all of the log is in it. *)
CkptEnd_NoSync(p) ==
  /\ st[p] = "BACKFILL" /\ ck.todo = {}
  /\ idx' = [idx EXCEPT !.nBackfill = ck.safe]
  /\ xlock' = [xlock EXCEPT ![0] = Nobody]
  /\ ck' = CkptOver /\ Goto(p, "CKPT_DONE")
  /\ UNCHANGED <<db, dbLoss, log, logDisk, hdr, pick, rlock, wlock, ckpt, hist>>

(* The database is synced if all of the log is in it now. *)
CkptEnd(p) ==
  /\ st[p] = "BACKFILL" /\ ck.todo = {}
  /\ dbLoss' = IF ck.safe = idx.a.mx THEN [pg \in Page |-> {db[pg]}] ELSE dbLoss
  /\ idx' = [idx EXCEPT !.nBackfill = ck.safe]
  /\ xlock' = [xlock EXCEPT ![0] = Nobody]
  /\ ck' = CkptOver /\ Goto(p, "CKPT_DONE")
  /\ UNCHANGED <<db, log, logDisk, hdr, pick, rlock, wlock, ckpt, hist>>

CkptDone(p) ==
  /\ st[p] = "CKPT_DONE"
  /\ ckpt' = Nobody /\ wlock' = IF wlock = p THEN Nobody ELSE wlock
  /\ hdr' = [hdr EXCEPT ![p] = NoHdr] /\ Goto(p, "OPEN")
  /\ UNCHANGED <<disk, idx, pick, rlock, xlock, ck, hist>>

-------------------------------------------------------------------------------
(* The kernel drops the locks of a process that dies. *)
Crash(p) ==
  /\ "crash" \in Faults /\ st[p] # "DEAD" /\ Goto(p, "DEAD")
  /\ hdr' = [hdr EXCEPT ![p] = NoHdr] /\ pick' = [pick EXCEPT ![p] = <<0, 0>>]
  /\ rlock' = [rlock EXCEPT ![p] = -1]
  /\ wlock' = IF wlock = p THEN Nobody ELSE wlock
  /\ xlock' = [i \in DOMAIN xlock |-> IF xlock[i] = p THEN Nobody ELSE xlock[i]]
  /\ IF ckpt = p THEN ckpt' = Nobody /\ ck' = CkptOver ELSE UNCHANGED <<ckpt, ck>>
  /\ overrun' = (overrun \/ st[p] = "RESTART")
  /\ UNCHANGED <<disk, idx, txn, wrote, com, state, base>>

(* The first to open the wal-index truncates it (unixOpenSharedMemory). *)
Open(p) ==
  /\ st[p] = "DEAD" /\ Goto(p, "OPEN")
  /\ idx' = IF \A q \in Proc : st[q] = "DEAD" THEN NoIdx ELSE idx
  /\ UNCHANGED <<disk, hdr, pick, locks, ck, hist>>

(* sqlite3WalClose of the last connection, which holds EXCLUSIVE on the       *)
(* database: what is not there yet is checkpointed and the log deleted, which *)
(* reaches the disk only with the next sync of the directory.                 *)
Close(p) ==
  /\ st[p] = "OPEN" /\ \A q \in Proc \ {p} : st[q] = "DEAD"
  /\ GoodHdr
  /\ db' = Backfilled(db, log, idx.pgno, idx.nBackfill, idx.a.mx)
  /\ IF idx.nBackfill < idx.a.mx
     THEN dbLoss' = [pg \in Page |-> {db'[pg]}] /\ logDisk' = log
     ELSE UNCHANGED <<dbLoss, logDisk>>
  /\ log' = NoLog /\ idx' = NoIdx /\ base' = com
  /\ Goto(p, "DEAD")
  /\ UNCHANGED <<hdr, pick, locks, ck, txn, wrote, com, state, overrun>>

(* Of what was not synced any part is lost, and every process with it. *)
PowerLoss ==
  /\ "power" \in Faults
  /\ IF log = NoLog THEN log' \in {NoLog, logDisk}
     ELSE \E lost \in SUBSET {f \in Frame : log.frame[f] # logDisk.frame[f]},
             sa \in {log.salt, logDisk.salt} :
            log' = [salt |-> sa, frame |-> [f \in Frame |-> IF f \in lost THEN logDisk.frame[f]
                                                                         ELSE log.frame[f]]]
  /\ logDisk' = log'
  /\ db' \in {d \in [Page -> UNION {dbLoss[pg] : pg \in Page}] :
               \A pg \in Page : d[pg] \in dbLoss[pg]}
  /\ dbLoss' = [pg \in Page |-> {db'[pg]}]
  /\ com' = RecoveredTxn(log')
  /\ idx' = NoIdx /\ st' = [p \in Proc |-> "DEAD"] /\ hdr' = [p \in Proc |-> NoHdr]
  /\ rlock' = [p \in Proc |-> -1] /\ pick' = [p \in Proc |-> <<0, 0>>]
  /\ wlock' = Nobody /\ ckpt' = Nobody /\ xlock' = [i \in DOMAIN xlock |-> Nobody]
  /\ ck' = CkptOver
  /\ UNCHANGED <<txn, wrote, state, base, overrun>>

Next ==
  \/ \E p \in Proc :
       \/ ReadHdr(p) \/ Recover(p) \/ BeginRead0(p) \/ ChooseMark(p) \/ LockMark(p)
       \/ EndRead(p) \/ BeginWrite(p) \/ RestartLog(p) \/ RestartHdr(p) \/ RestartReset(p)
       \/ \E pg \in Page, commit, fresh \in BOOLEAN : WriteFrame(p, pg, commit, fresh)
       \/ PublishB(p) \/ PublishA(p) \/ Rollback(p)
       \/ \E mode \in CkptModes : Checkpoint(p, mode)
       \/ CkptHdr(p) \/ CkptBusy(p) \/ CkptStart(p) \/ CkptMark(p) \/ CkptLock0(p)
       \/ \E f \in Frame : Backfill(p, f)
       \/ CkptEnd(p) \/ CkptDone(p) \/ Crash(p) \/ Open(p) \/ Close(p)
  \/ PowerLoss

Spec == Init /\ [][Next]_vars

-------------------------------------------------------------------------------
(* Properties *)

(* Types; and the locks: a shared holder excludes an exclusive one. *)
TypeOK ==
  /\ db \in [Page -> 0..MaxTxn] /\ com \in 0..MaxTxn
  /\ idx.nBackfill \in 0..MaxFrame /\ idx.mark \in [Slot -> 0..NotUsed]
  /\ rlock \in [Proc -> -1..(NReader - 1)]
  /\ \A i \in 0..(NReader - 1) : Shared(i) = {} \/ xlock[i] = Nobody

(* Snapshot isolation: what a reader can look up, in the log and in the       *)
(* database, is the state of the commit its header stands for, whatever is    *)
(* appended, copied back or started over while it reads.                      *)
Snapshot ==
  \A p \in Proc : st[p] = "READER" /\ ~overrun => View(p) = state[hdr[p].txn]

(* Nothing committed is lost: whenever the index is good, its header shows    *)
(* the last commit; and whatever dies when, the log over the database         *)
(* recovers to the state of one commit, the last one or one whose frames are  *)
(* all there while its header was not published yet.                          *)
Recoverable ==
  ~overrun =>
    /\ GoodHdr => Overlay(db, log, idx.pgno, idx.a.mx) = state[com]
    /\ RecoveredTxn(log) >= com
    /\ Overlay(db, log, Pages(log), LastCommit(log)) = state[RecoveredTxn(log)]

(* No lost update: a writer adds to the last commit, never to an older state. *)
NoLostUpdate ==
  \A p \in Proc : st[p] = "WRITER" /\ wlock = p /\ ~overrun => idx.a.txn = com /\ hdr[p].txn = com

(* With synchronous=FULL no crash, loss of power or recovery takes a commit   *)
(* back.                                                                      *)
Durable == [][FullSync /\ ~overrun => com' >= com]_com

(* "The nBackfill number is never greater than WalIndexHdr.mxFrame", when no   *)
(* writer is between setting back the one and the other.                      *)
BackfillBound == GoodHdr /\ wlock = Nobody => idx.nBackfill <= idx.a.mx

===============================================================================

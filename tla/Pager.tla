--------------------------------- MODULE Pager --------------------------------
(***************************************************************************)
(* The rollback journal of pager.c: several processes read and write one   *)
(* database file, each with a page cache of its own, under the locks of    *)
(* os_unix.c.  A transaction copies the pages it changes to the journal,   *)
(* syncs it, writes and syncs the database, and commits by deleting,       *)
(* truncating or zeroing the journal.  A process can die at any step, and  *)
(* the machine can lose power, which keeps any part of what was not        *)
(* synced; the next reader finds the journal hot and plays it back.        *)
(*                                                                         *)
(* One action is one operation on a file: what another process or a crash  *)
(* can come in between.  The number of pages of the file is fixed;         *)
(* savepoints, the master journal and WAL mode are not in this module.     *)
(***************************************************************************)
EXTENDS UnixLock

CONSTANTS
  Proc,        \* the processes, one connection each
  Data,        \* the pages of the file other than page 1
  MaxTxn,      \* bound: write transactions begun
  MaxSlot,     \* bound: sectors of the journal
  Modes,       \* journal_mode of the connections: DELETE, TRUNCATE, PERSIST
  FullSync,    \* the values of pPager->fullSync the connections use
  MayFail      \* whether operations on files may return an error

Page == {1} \cup Data
None == -1

ASSUME PagerAssumption ==
  /\ None \notin Proc
  /\ MaxTxn \in Nat /\ MaxSlot \in Nat \ {0}
  /\ Data \subseteq Nat \ {0, 1}
  /\ Modes \subseteq {"DELETE", "TRUNCATE", "PERSIST"}
  /\ FullSync \subseteq BOOLEAN /\ MayFail \in BOOLEAN

VARIABLES
  db,        \* the database file; page 1 stands for the change counter
  dbLoss,    \* the contents each page may have after a loss of power
  jrnl,      \* the journal: whether it is there, whether a loss of power
             \* keeps its directory entry, and its sectors
  jDisk,     \* the sectors of it as they were last synced
  ghosts,    \* the journals whose deletion a loss of power may undo
  lock,      \* the level each process holds on the file
  st,        \* eState, with the steps inside the functions as states
  cache,     \* the page cache of each process
  vers,      \* dbFileVers: the change counter that cache belongs to
  counted,   \* changeCountDone
  w,         \* the fields of the pager that has RESERVED (NoWriter: none)
  txn,       \* number of write transactions begun (history)
  com        \* contents of the last transaction committed (history)

files == <<db, dbLoss, jrnl, jDisk, ghosts>>
procs == <<lock, st, cache, vers, counted>>
vars  == <<files, procs, w, txn, com>>

-------------------------------------------------------------------------------
(* The journal.  A sector is a header or a page record; the records of a     *)
(* header carry a checksum over its random nonce.  A header counts its       *)
(* records only once they are synced: with n = 0 its magic is not written.   *)

Gap          == [pg |-> None, v |-> None, n |-> 0, nonce |-> <<0, 0>>]
Header(n, c) == [pg |-> 0, v |-> None, n |-> n, nonce |-> c]
Record(pg, v, c) == [pg |-> pg, v |-> v, n |-> 0, nonce |-> c]

Empty    == [i \in 1..MaxSlot |-> Gap]
NoJournal == [here |-> FALSE, durable |-> TRUE, slot |-> Empty]
NoPages  == [pg \in {} |-> 0]
NoWriter == [proc |-> None, off |-> 0, hdr |-> 0, inJournal |-> {}, needSync |-> {},
             dirty |-> {}, todo |-> NoPages, fin |-> FALSE]

(* A function on one page, and f where it is defined, g elsewhere. *)
Only(pg, v) == [x \in {pg} |-> v]
Over(f, g) == [x \in DOMAIN f \cup DOMAIN g |-> IF x \in DOMAIN f THEN f[x] ELSE g[x]]

HasMagic(s) == s.pg = 0 /\ s.n > 0

(* readJournalHdr and pager_playback_one_page on the next sector: how many    *)
(* records of the header are left, its nonce, whether the reading goes on,    *)
(* and the records found so far, a function from pages to old contents.       *)
(* live tells the header whose records the rollback of a live transaction     *)
(* takes up to the end of the file.                                           *)
ReadStart == [left |-> 0, nonce |-> <<0, 0>>, on |-> TRUE, undo |-> NoPages]

ReadSector(r, s, live) ==
  IF ~r.on THEN r
  ELSE IF r.left = 0 THEN
    IF HasMagic(s) THEN [r EXCEPT !.left = s.n, !.nonce = s.nonce]
    ELSE IF live THEN [r EXCEPT !.left = MaxSlot, !.nonce = s.nonce]
    ELSE [r EXCEPT !.on = FALSE]
  ELSE IF s.pg \in Page /\ s.nonce = r.nonce
    THEN [r EXCEPT !.left = @ - 1, !.undo = Over(Only(s.pg, s.v), @)]
    ELSE [r EXCEPT !.on = FALSE]

(* The journal read from its start; live is the number of the header of a     *)
(* live transaction, 0 for a hot journal.                                     *)
Reads(slot, live) ==
  LET read[i \in 0..MaxSlot] ==
        IF i = 0 THEN ReadStart ELSE ReadSector(read[i - 1], slot[i], i = live)
  IN read

Playback(slot, live) == Reads(slot, live)[MaxSlot].undo

(* What the database is once a hot journal has been played back. *)
Recovered(d, j) == IF j.here THEN Over(Playback(j.slot, 0), d) ELSE d

(* Writes to the files, and sqlite3OsSync. *)
WriteDb(pg, v) ==
  /\ db' = [db EXCEPT ![pg] = v]
  /\ dbLoss' = [dbLoss EXCEPT ![pg] = @ \cup {v}]

SyncDb == dbLoss' = [pg \in Page |-> {db[pg]}] /\ UNCHANGED db

SyncJrnl == jDisk' = jrnl'.slot

Init ==
  /\ db = [pg \in Page |-> 0] /\ dbLoss = [pg \in Page |-> {0}]
  /\ jrnl = NoJournal /\ jDisk = Empty /\ ghosts = {}
  /\ lock = [p \in Proc |-> NO_LOCK] /\ st = [p \in Proc |-> "OPEN"]
  /\ cache = [p \in Proc |-> [pg \in Page |-> None]]
  /\ vers = [p \in Proc |-> 0] /\ counted = [p \in Proc |-> FALSE]
  /\ w = NoWriter /\ txn = 0 /\ com = [pg \in Page |-> 0]

Goto(p, s) == st' = [st EXCEPT ![p] = s]
NoCache(p) == [cache EXCEPT ![p] = [pg \in Page |-> None]]

(* pager_unlock with errCode set: everything the connection knew is dropped. *)
Forget(p) ==
  /\ lock' = [lock EXCEPT ![p] = NO_LOCK] /\ Goto(p, "OPEN")
  /\ cache' = NoCache(p) /\ counted' = [counted EXCEPT ![p] = FALSE]
  /\ w' = IF w.proc = p THEN NoWriter ELSE w
  /\ UNCHANGED vers

-------------------------------------------------------------------------------
(* sqlite3PagerSharedLock and hasHotJournal.  Between any two of these steps  *)
(* the writer may create, sync or delete the journal.                        *)

SharedLock(p) ==
  /\ st[p] = "OPEN" /\ GetsShared(lock, p)
  /\ lock' = [lock EXCEPT ![p] = SHARED_LOCK] /\ Goto(p, "SHARED")
  /\ UNCHANGED <<files, cache, vers, counted, w, txn, com>>

JournalExists(p) ==
  /\ st[p] = "SHARED"
  /\ Goto(p, IF jrnl.here THEN "EXISTS" ELSE "CHECKED")
  /\ UNCHANGED <<files, lock, cache, vers, counted, w, txn, com>>

CheckReserved(p) ==
  /\ st[p] = "EXISTS"
  /\ Goto(p, IF CheckReservedLock(lock, p) THEN "CHECKED" ELSE "UNRESERVED")
  /\ UNCHANGED <<files, lock, cache, vers, counted, w, txn, com>>

(* The first byte is that of the magic; a journal that cannot be opened any   *)
(* more counts as hot, for the check under EXCLUSIVE to decide.               *)
FirstByte(p) ==
  /\ st[p] = "UNRESERVED"
  /\ Goto(p, IF jrnl.here /\ ~HasMagic(jrnl.slot[1]) THEN "CHECKED" ELSE "HOT")
  /\ UNCHANGED <<files, lock, cache, vers, counted, w, txn, com>>

(* Straight from SHARED to EXCLUSIVE; when refused, all locks are given back. *)
HotLock(p) ==
  /\ st[p] = "HOT"
  /\ IF GetsExclusive(lock, p)
     THEN lock' = [lock EXCEPT ![p] = EXCLUSIVE_LOCK] /\ Goto(p, "HOT_EXCLUSIVE")
     ELSE lock' = [lock EXCEPT ![p] = NO_LOCK] /\ Goto(p, "OPEN")
  /\ UNCHANGED <<files, cache, vers, counted, w, txn, com>>

(* Another reader may have rolled it back in the meantime.  If not, it is     *)
(* synced (pagerSyncHotJournal) and played back, with an empty cache.         *)
HotRecheck(p) ==
  /\ st[p] = "HOT_EXCLUSIVE"
  /\ \/ /\ ~jrnl.here
        /\ lock' = [lock EXCEPT ![p] = SHARED_LOCK] /\ Goto(p, "CHECKED")
        /\ UNCHANGED <<files, cache, w>>
     \/ /\ jrnl.here
        /\ jDisk' = jrnl.slot
        /\ w' = [NoWriter EXCEPT !.proc = p, !.todo = Playback(jrnl.slot, 0),
                                 !.off = IF HasMagic(jrnl.slot[1]) THEN 1 ELSE 0]
        /\ cache' = IF w'.todo = NoPages THEN cache ELSE NoCache(p)
        /\ Goto(p, "PLAYBACK")
        /\ UNCHANGED <<lock, db, dbLoss, jrnl, ghosts>>
  /\ UNCHANGED <<vers, counted, txn, com>>

(* A cache of another version is dropped, and lockBtree reads page 1. *)
Validate(p) ==
  /\ st[p] = "CHECKED"
  /\ LET keep == cache[p][1] # None /\ vers[p] = db[1] IN
       cache' = [cache EXCEPT ![p] = IF keep THEN @
                                     ELSE [pg \in Page |-> IF pg = 1 THEN db[1] ELSE None]]
  /\ vers' = [vers EXCEPT ![p] = db[1]]
  /\ Goto(p, "READER")
  /\ UNCHANGED <<files, lock, counted, w, txn, com>>

Writing == {"WRITER_LOCKED", "WRITER_CACHEMOD", "WRITER_DBMOD"}

(* sqlite3PagerAcquire, readDbPage. *)
Read(p, pg) ==
  /\ st[p] \in Writing \cup {"READER"} /\ cache[p][pg] = None
  /\ cache' = [cache EXCEPT ![p][pg] = db[pg]]
  /\ UNCHANGED <<files, lock, st, vers, counted, w, txn, com>>

(* The end of a read transaction; the cache is kept for the next one. *)
Unlock(p) ==
  /\ st[p] = "READER"
  /\ lock' = [lock EXCEPT ![p] = NO_LOCK] /\ Goto(p, "OPEN")
  /\ counted' = [counted EXCEPT ![p] = FALSE]
  /\ UNCHANGED <<files, cache, vers, w, txn, com>>

-------------------------------------------------------------------------------
(* A write transaction. *)

(* Mutation: RESERVED is not asked for. *)
Begin_NoReserved(p) ==
  /\ st[p] = "READER" /\ txn < MaxTxn
  /\ lock' = [lock EXCEPT ![p] = RESERVED_LOCK] /\ Goto(p, "WRITER_LOCKED")
  /\ txn' = txn + 1
  /\ w' = [NoWriter EXCEPT !.proc = p]
  /\ UNCHANGED <<files, cache, vers, counted, com>>

(* sqlite3PagerBegin. *)
Begin(p) ==
  /\ st[p] = "READER" /\ txn < MaxTxn /\ GetsReserved(lock, p)
  /\ lock' = [lock EXCEPT ![p] = RESERVED_LOCK] /\ Goto(p, "WRITER_LOCKED")
  /\ txn' = txn + 1
  /\ w' = [NoWriter EXCEPT !.proc = p]
  /\ UNCHANGED <<files, cache, vers, counted, com>>

(* pager_open_journal: the file is created or, left by an earlier transaction, *)
(* opened, and gets a header without magic.  writeJournalHdr starts a new      *)
(* header at the end likewise.                                                 *)
OpenJournal ==
  IF st[w.proc] # "WRITER_LOCKED" THEN [j |-> jrnl, w |-> w]
  ELSE LET h == Header(0, <<txn, 0>>) IN
       [j |-> [here |-> TRUE, durable |-> jrnl.here /\ jrnl.durable,
               slot |-> [jrnl.slot EXCEPT ![1] = h]],
        w |-> [w EXCEPT !.hdr = 1, !.off = 2]]

(* pager_write: the old contents go to the journal the first time. *)
Dirty(p, pg, v) ==
  LET o == OpenJournal
      r == Record(pg, cache[p][pg], o.j.slot[o.w.hdr].nonce) IN
  /\ cache' = [cache EXCEPT ![p][pg] = v]
  /\ IF pg \in w.inJournal
     THEN w' = [w EXCEPT !.dirty = @ \cup {pg}] /\ UNCHANGED files
     ELSE /\ o.w.off <= MaxSlot
          /\ jrnl' = [o.j EXCEPT !.slot[o.w.off] = r]
          /\ w' = [o.w EXCEPT !.off = @ + 1, !.dirty = @ \cup {pg},
                              !.inJournal = @ \cup {pg}, !.needSync = @ \cup {pg}]
          /\ UNCHANGED <<db, dbLoss, jDisk, ghosts>>
  /\ Goto(p, IF st[p] = "WRITER_LOCKED" THEN "WRITER_CACHEMOD" ELSE st[p])

(* A statement changes a page; txn stands for the new contents. *)
Write(p, pg) ==
  /\ st[p] \in Writing /\ cache[p][pg] \notin {None, txn}
  /\ Dirty(p, pg, txn)
  /\ UNCHANGED <<lock, vers, counted, txn, com>>

(* Mutation: the change counter is raised once per connection. *)
IncrChangeCounter_Once(p) ==
  /\ st[p] \in {"WRITER_CACHEMOD", "WRITER_DBMOD"} /\ ~counted[p]
  /\ \/ vers[p] = 0 /\ Dirty(p, 1, 1)
     \/ vers[p] > 0 /\ UNCHANGED <<files, cache, st, w>>
  /\ counted' = [counted EXCEPT ![p] = TRUE]
  /\ UNCHANGED <<lock, vers, txn, com>>

(* CommitPhaseOne begins with pager_incr_changecounter. *)
IncrChangeCounter(p) ==
  /\ st[p] \in {"WRITER_CACHEMOD", "WRITER_DBMOD"} /\ ~counted[p]
  /\ Dirty(p, 1, vers[p] + 1)
  /\ counted' = [counted EXCEPT ![p] = TRUE]
  /\ UNCHANGED <<lock, vers, txn, com>>

(* sqlite3PagerExclusiveLock, with the busy handler's retries. *)
ExclusiveLock(p) ==
  /\ st[p] \in Writing /\ lock[p] < EXCLUSIVE_LOCK /\ GetsPending(lock, p)
  /\ lock' = [lock EXCEPT ![p] = IF GetsExclusive(lock, p) THEN EXCLUSIVE_LOCK
                                                            ELSE PENDING_LOCK]
  /\ UNCHANGED <<files, st, cache, vers, counted, w, txn, com>>

(* syncJournal, for pagerStress (fin FALSE: the cache is full and a page has   *)
(* to go to the file early) or for the commit: a header an earlier journal     *)
(* left behind the records is overwritten, the records are synced, the header  *)
(* gets its magic and count and is synced.                                     *)
ZeroNext ==
  IF w.off <= MaxSlot /\ HasMagic(jrnl.slot[w.off])
  THEN [jrnl.slot EXCEPT ![w.off] = Header(0, jrnl.slot[w.off].nonce)]
  ELSE jrnl.slot

(* Mutation: the header behind the records is left as it is. *)
SyncJournal_StaleHeader(p, fin, full) ==
  /\ st[p] \in {"WRITER_CACHEMOD", "WRITER_DBMOD"} /\ lock[p] = EXCLUSIVE_LOCK
  /\ IF fin THEN counted[p]
            ELSE st[p] = "WRITER_CACHEMOD" \/ w.dirty \cap w.needSync # {}
  /\ IF full THEN /\ jrnl' = [jrnl EXCEPT !.durable = TRUE]
                  /\ SyncJrnl /\ ghosts' = {}
     ELSE UNCHANGED <<jrnl, jDisk, ghosts>>
  /\ Goto(p, "JOURNAL_HDR")
  /\ w' = [w EXCEPT !.fin = fin]
  /\ UNCHANGED <<db, dbLoss, lock, cache, vers, counted, txn, com>>

SyncJournal(p, fin, full) ==
  /\ st[p] \in {"WRITER_CACHEMOD", "WRITER_DBMOD"} /\ lock[p] = EXCLUSIVE_LOCK
  /\ IF fin THEN counted[p]
            ELSE st[p] = "WRITER_CACHEMOD" \/ w.dirty \cap w.needSync # {}
  /\ IF full THEN /\ jrnl' = [jrnl EXCEPT !.durable = TRUE, !.slot = ZeroNext]
                  /\ SyncJrnl /\ ghosts' = {}
     ELSE jrnl' = [jrnl EXCEPT !.slot = ZeroNext] /\ UNCHANGED <<jDisk, ghosts>>
  /\ Goto(p, "JOURNAL_HDR")
  /\ w' = [w EXCEPT !.fin = fin]
  /\ UNCHANGED <<db, dbLoss, lock, cache, vers, counted, txn, com>>

JournalHdr(p) ==
  /\ st[p] = "JOURNAL_HDR"
  /\ LET h == [jrnl.slot[w.hdr] EXCEPT !.n = w.off - w.hdr - 1] IN
       jrnl' = [jrnl EXCEPT !.slot[w.hdr] = h]
  /\ Goto(p, "JOURNAL_SYNC")
  /\ UNCHANGED <<db, dbLoss, jDisk, ghosts, lock, cache, vers, counted, w, txn, com>>

JournalSync(p) ==
  /\ st[p] = "JOURNAL_SYNC"
  /\ LET h == Header(0, <<txn, w.off>>) IN
     IF w.fin
     THEN /\ jrnl' = [jrnl EXCEPT !.durable = TRUE] 
          /\ w' = [w EXCEPT !.needSync = {}] /\ Goto(p, "COMMIT")
     ELSE /\ w.off <= MaxSlot
          /\ jrnl' = [jrnl EXCEPT !.durable = TRUE, !.slot[w.off] = h]
          /\ w' = [w EXCEPT !.needSync = {}, !.hdr = w.off, !.off = @ + 1]
          /\ Goto(p, "WRITER_DBMOD")
  /\ jDisk' = jrnl.slot /\ ghosts' = {}
  /\ UNCHANGED <<db, dbLoss, lock, cache, vers, counted, txn, com>>

(* pager_write_pagelist, one page; page 1 gets the counter once more. *)
WritePage(p, pg) ==
  /\ st[p] \in {"WRITER_DBMOD", "COMMIT"} /\ pg \in w.dirty \ w.needSync
  /\ LET v == IF pg = 1 THEN vers[p] + 1 ELSE cache[p][pg] IN
     /\ WriteDb(pg, v)
     /\ cache' = [cache EXCEPT ![p][pg] = v]
     /\ vers' = [vers EXCEPT ![p] = IF pg = 1 THEN v ELSE @]
  /\ w' = [w EXCEPT !.dirty = @ \ {pg}]
  /\ UNCHANGED <<jrnl, jDisk, ghosts, lock, st, counted, txn, com>>

(* sqlite3PagerSync: CommitPhaseOne is done. *)
CommitSync(p) ==
  /\ st[p] = "COMMIT" /\ w.dirty = {}
  /\ SyncDb /\ Goto(p, "WRITER_FINISHED")
  /\ UNCHANGED <<jrnl, jDisk, ghosts, lock, cache, vers, counted, w, txn, com>>

-------------------------------------------------------------------------------
(* The end of a transaction. *)

(* pager_end_transaction on the journal.  Deleting and truncating are not      *)
(* synced; zeroing the header is.  The first sync of a journal opened for      *)
(* writing, unlike that of one found hot, syncs the directory too.             *)
Finalize(m, hot) ==
  \/ m # "DELETE" /\ w.off = 0 /\ UNCHANGED <<jrnl, jDisk, ghosts>>
  \/ /\ m = "DELETE" \/ (m = "TRUNCATE" /\ w.off > 0)
     /\ jrnl' = IF m = "DELETE" THEN NoJournal ELSE [jrnl EXCEPT !.slot = Empty]
     /\ SyncJrnl
     /\ ghosts' = ghosts \cup {[slot |-> jrnl.slot, disk |-> jDisk, com |-> com]}
  \/ /\ m = "PERSIST" /\ w.off > 0
     /\ LET z == [jrnl.slot EXCEPT ![1] = Header(0, <<0, 0>>)] IN
          jrnl' = [jrnl EXCEPT !.slot = z, !.durable = ~hot \/ @]
     /\ SyncJrnl
     /\ ghosts' = IF hot THEN ghosts ELSE {}

EndTransaction(p, s) ==
  /\ lock' = [lock EXCEPT ![p] = SHARED_LOCK] /\ Goto(p, s)
  /\ counted' = [counted EXCEPT ![p] = FALSE]
  /\ w' = NoWriter

(* CommitPhaseTwo: with the journal gone the transaction is committed. *)
Commit(p, m) ==
  /\ st[p] = "WRITER_FINISHED"
  /\ Finalize(m, FALSE)
  /\ com' = [pg \in Page |-> IF pg \in w.inJournal THEN cache[p][pg] ELSE com[pg]]
  /\ EndTransaction(p, "READER")
  /\ UNCHANGED <<db, dbLoss, cache, vers, txn>>

(* Nothing was written: commit and rollback only give the lock back. *)
EndUnused(p) ==
  /\ st[p] = "WRITER_LOCKED" /\ EndTransaction(p, "READER")
  /\ UNCHANGED <<files, cache, vers, txn, com>>

(* sqlite3PagerRollback, or the error path of a commit.  The cache gets the    *)
(* old contents back, and so does the file if it may have been written.        *)
Undone == Playback(jrnl.slot, w.hdr)

SyncFailed(p) == MayFail /\ st[p] \in {"JOURNAL_HDR", "JOURNAL_SYNC"}

RollbackCache(p, m) ==
  /\ st[p] = "WRITER_CACHEMOD" \/ (SyncFailed(p) /\ w.hdr = 1)
  /\ cache' = [cache EXCEPT ![p] = Over(Undone, @)]
  /\ vers' = [vers EXCEPT ![p] = IF 1 \in DOMAIN Undone THEN Undone[1] ELSE @]
  /\ Finalize(m, FALSE) /\ EndTransaction(p, "READER")
  /\ UNCHANGED <<db, dbLoss, txn, com>>

(* Records behind the last synced header have not reached the file. *)
Rollback(p) ==
  /\ \/ st[p] \in {"WRITER_DBMOD", "COMMIT", "WRITER_FINISHED"}
     \/ SyncFailed(p) /\ w.hdr > 1
  /\ cache' = [cache EXCEPT ![p] = Over(Undone, @)]
  /\ vers' = [vers EXCEPT ![p] = IF 1 \in DOMAIN Undone THEN Undone[1] ELSE @]
  /\ w' = [w EXCEPT !.todo = [pg \in DOMAIN Undone \ w.needSync |-> Undone[pg]]]
  /\ Goto(p, "UNDO")
  /\ UNCHANGED <<files, lock, counted, txn, com>>

(* pager_playback_one_page on the file. *)
PlaybackPage(p, pg) ==
  /\ st[p] \in {"PLAYBACK", "UNDO"} /\ pg \in DOMAIN w.todo
  /\ WriteDb(pg, w.todo[pg])
  /\ w' = [w EXCEPT !.todo = [q \in DOMAIN @ \ {pg} |-> @[q]]]
  /\ UNCHANGED <<jrnl, jDisk, ghosts, procs, txn, com>>

(* Mutation: the journal is deleted before the database is synced. *)
PlaybackEnd_NoSync(p, m) ==
  /\ st[p] \in {"PLAYBACK", "UNDO"} /\ DOMAIN w.todo = {}
  /\ Finalize(m, st[p] = "PLAYBACK")
  /\ EndTransaction(p, IF st[p] = "UNDO" THEN "READER" ELSE "CHECKED")
  /\ UNCHANGED <<db, dbLoss, cache, vers, txn, com>>

PlaybackEnd(p, m) ==
  /\ st[p] \in {"PLAYBACK", "UNDO"} /\ DOMAIN w.todo = {}
  /\ SyncDb
  /\ Finalize(m, st[p] = "PLAYBACK")
  /\ EndTransaction(p, IF st[p] = "UNDO" THEN "READER" ELSE "CHECKED")
  /\ UNCHANGED <<cache, vers, txn, com>>

(* pager_error: a spill, a rollback or the end of a commit failed.  The        *)
(* connection keeps its lock until its statements are reset, and leaves the    *)
(* journal to the next reader.                                                 *)
IoError(p) ==
  /\ MayFail /\ st[p] \in {"WRITER_DBMOD", "UNDO", "PLAYBACK", "WRITER_FINISHED"}
  /\ Goto(p, "ERROR")
  /\ UNCHANGED <<files, lock, cache, vers, counted, w, txn, com>>

UnlockError(p) == st[p] = "ERROR" /\ Forget(p) /\ UNCHANGED <<files, txn, com>>

(* A process dies: the kernel drops its locks and keeps its writes. *)
Crash(p) == st[p] # "OPEN" /\ Forget(p) /\ UNCHANGED <<files, txn, com>>

(* Of the sectors that were not synced, some are as they were before. *)
Survives(here, slot, disk) ==
  \E lost \in SUBSET {i \in 1..MaxSlot : slot[i] # disk[i]} :
    jrnl' = [here |-> here, durable |-> TRUE,
             slot |-> [i \in 1..MaxSlot |-> IF i \in lost THEN disk[i] ELSE slot[i]]]

(* The machine loses power: of what was not synced, any part is lost. *)
PowerLoss ==
  /\ \/ ~jrnl.durable /\ jrnl' = NoJournal /\ UNCHANGED com
     \/ Survives(jrnl.here, jrnl.slot, jDisk) /\ UNCHANGED com
     \/ \E g \in ghosts : Survives(TRUE, g.slot, g.disk) /\ com' = g.com
  /\ SyncJrnl
  /\ db' \in {f \in [Page -> UNION {dbLoss[pg] : pg \in Page}] :
               \A pg \in Page : f[pg] \in dbLoss[pg]}
  /\ dbLoss' = [pg \in Page |-> {db'[pg]}]
  /\ ghosts' = {} /\ w' = NoWriter /\ UNCHANGED txn
  /\ lock' = [p \in Proc |-> NO_LOCK] /\ st' = [p \in Proc |-> "OPEN"]
  /\ cache' = [p \in Proc |-> [pg \in Page |-> None]]
  /\ vers' = [p \in Proc |-> 0] /\ counted' = [p \in Proc |-> FALSE]

ReadStep(p) ==
  \/ SharedLock(p) \/ JournalExists(p) \/ CheckReserved(p) \/ FirstByte(p)
  \/ HotLock(p) \/ HotRecheck(p) \/ Validate(p)
  \/ \E pg \in Data : Read(p, pg)

WriteStep(p) ==
  \/ Begin(p) \/ IncrChangeCounter(p) \/ JournalHdr(p) \/ JournalSync(p)
  \/ \E pg \in Data : Write(p, pg)
  \/ \E fin \in BOOLEAN, full \in FullSync : SyncJournal(p, fin, full)
  \/ \E pg \in Page : WritePage(p, pg)
  \/ CommitSync(p) \/ EndUnused(p) \/ Rollback(p)
  \/ \E m \in Modes : Commit(p, m) \/ RollbackCache(p, m)

EndStep(p) ==
  \/ \E pg \in Page : PlaybackPage(p, pg)
  \/ \E m \in Modes : PlaybackEnd(p, m)

Next ==
  \/ \E p \in Proc : \/ ReadStep(p) \/ WriteStep(p) \/ EndStep(p)
                     \/ Unlock(p) \/ ExclusiveLock(p)
                     \/ IoError(p) \/ UnlockError(p) \/ Crash(p)
  \/ PowerLoss

(* A reader's statement ends, an error is reset, a playback runs to its end,   *)
(* and a writer that is waiting for EXCLUSIVE asks again (pager_wait_on_lock). *)
Fairness ==
  \A p \in Proc :
    /\ WF_vars(ReadStep(p)) /\ WF_vars(EndStep(p)) /\ WF_vars(UnlockError(p))
    /\ WF_vars(Unlock(p)) /\ WF_vars(ExclusiveLock(p))

SafeSpec == Init /\ [][Next]_vars
Spec == SafeSpec /\ Fairness

-------------------------------------------------------------------------------
(* Properties *)

States == {"OPEN", "SHARED", "EXISTS", "UNRESERVED", "HOT", "HOT_EXCLUSIVE", "CHECKED",
           "READER", "JOURNAL_HDR", "JOURNAL_SYNC", "COMMIT", "WRITER_FINISHED",
           "PLAYBACK", "UNDO", "ERROR"} \cup Writing

Content == Nat \cup {None}

(* Types; who has a lock is in a state that needs it, and the journal is only  *)
(* the business of the process that may write.                                 *)
TypeOK ==
  /\ db \in [Page -> Nat] /\ com \in [Page -> Nat]
  /\ lock \in [Proc -> LockLevel] /\ st \in [Proc -> States]
  /\ cache \in [Proc -> [Page -> Content]] /\ vers \in [Proc -> Nat]
  /\ \A p \in Proc :
       /\ st[p] = "OPEN" <=> lock[p] = NO_LOCK
       /\ (lock[p] >= RESERVED_LOCK /\ st[p] # "HOT_EXCLUSIVE") <=> w.proc = p

(* Atomic commit.  Whatever step a process or the machine dies at, the file    *)
(* and the journal it leaves recover to exactly the last transaction that was  *)
(* committed: never a mixture, never a part of the one that was not.           *)
Recoverable == Recovered(db, jrnl) = com

(* A read transaction sees the last committed state, from its cache and from   *)
(* the file alike: no writer has touched the file under it, no hot journal was *)
(* overlooked, and no page was kept in the cache from an older version.        *)
Snapshot ==
  \A p \in Proc : st[p] \in {"READER", "WRITER_LOCKED"} =>
    /\ db = com
    /\ \A pg \in Page : cache[p][pg] \in {None, com[pg]}

(* A writer that has PENDING is not starved: no new reader gets in, so when    *)
(* those that are there have finished it gets EXCLUSIVE (or gave up).          *)
NotStarved == \A p \in Proc : lock[p] = PENDING_LOCK ~> lock[p] # PENDING_LOCK

===============================================================================
